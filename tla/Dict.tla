-------------------------------- MODULE Dict --------------------------------
(***************************************************************************)
(* Redis: the hash table (dict.c) while it is resized a bucket at a time,  *)
(* with the two ways to walk over it: the stateless cursor of SCAN         *)
(* (dictScan, scanGenericCommand) and the safe iterator.                   *)
(*                                                                         *)
(* A table is a function from its indexes to chains of keys; keys are      *)
(* numbers and hash to themselves.  The sizes that the code fixes are      *)
(* constants, so that small tables go through every size change.           *)
(***************************************************************************)
EXTENDS Integers, Sequences, FiniteSets, SequencesExt

CONSTANTS Keys,         \* keys, each its own hash value
          WordBits,     \* bits of an unsigned long
          InitialSize,  \* DICT_HT_INITIAL_SIZE
          ForceRatio,   \* dict_force_resize_ratio
          MinFill,      \* HASHTABLE_MIN_FILL, in percent
          EmptyVisits,  \* empty buckets a rehashing step may skip
          MaxCount      \* bound: COUNT of a SCAN

VARIABLES d,          \* the dict
          canResize,  \* dict_can_resize
          cursor,     \* cursor of the client's scan, or Absent
          due,        \* keys in the dict since the scan began and not returned yet
          iter        \* the safe iterator, or NoIter

dictVars == <<d, canResize, cursor, due, iter>>

Absent == -1
NoIter == [active |-> FALSE]
Word == 2^WordBits

NullTable == [table |-> <<>>, used |-> 0]
Size(ht) == Cardinality(DOMAIN ht.table)
EmptyTable(size) == [table |-> [i \in 0..(size - 1) |-> <<>>], used |-> 0]
Chain(ht, k) == ht.table[k % Size(ht)]
KeysOf(ht) == UNION {ToSet(ht.table[i]) : i \in DOMAIN ht.table}
Contents(e) == KeysOf(e.ht0) \cup KeysOf(e.ht1)

dictIsRehashing(e) == e.rehashidx # -1
dictSize(e) == e.ht0.used + e.ht1.used
NewDict == [ht0 |-> NullTable, ht1 |-> NullTable, rehashidx |-> -1, pauserehash |-> 0]

\* The chain is inserted in front.
Link(ht, k) ==
  [table |-> [ht.table EXCEPT ![k % Size(ht)] = <<k>> \o @], used |-> ht.used + 1]

Unlink(ht, k) ==
  [table |-> [ht.table EXCEPT ![k % Size(ht)] = SelectSeq(@, LAMBDA x : x # k)],
   used  |-> ht.used - 1]

-----------------------------------------------------------------------------
(* Resizing.                                                               *)

RECURSIVE NextPower(_, _)
NextPower(i, size) == IF i >= size THEN i ELSE NextPower(2 * i, size)
_dictNextPower(size) == NextPower(InitialSize, size)

\* Errors leave the dict as it is.
_dictExpand(e, size) ==
  LET realsize == _dictNextPower(size) IN
  IF dictIsRehashing(e) \/ e.ht0.used > size \/ realsize = Size(e.ht0) THEN e
  ELSE IF Size(e.ht0) = 0 THEN [e EXCEPT !.ht0 = EmptyTable(realsize)]
  ELSE [e EXCEPT !.ht1 = EmptyTable(realsize), !.rehashidx = 0]

_dictExpandIfNeeded(e) ==
  IF dictIsRehashing(e) THEN e
  ELSE IF Size(e.ht0) = 0 THEN _dictExpand(e, InitialSize)
  ELSE IF e.ht0.used >= Size(e.ht0) /\ (canResize \/ e.ht0.used \div Size(e.ht0) > ForceRatio)
  THEN _dictExpand(e, e.ht0.used + 1) ELSE e

dictResize(e) ==
  IF ~canResize \/ dictIsRehashing(e) THEN e
  ELSE _dictExpand(e, IF e.ht0.used < InitialSize THEN InitialSize ELSE e.ht0.used)

htNeedsResize(e) ==
  LET slots == Size(e.ht0) + Size(e.ht1)
  IN  slots > InitialSize /\ (dictSize(e) * 100) \div slots < MinFill

\* Moves the bucket at rehashidx, the first key of the chain first.
MoveBucket(e) ==
  [e EXCEPT !.ht0 = [table |-> [@.table EXCEPT ![e.rehashidx] = <<>>],
                     used  |-> @.used - Len(e.ht0.table[e.rehashidx])],
            !.ht1 = FoldLeft(Link, @, e.ht0.table[e.rehashidx]),
            !.rehashidx = @ + 1]

\* Up to n buckets are moved, unless visits buckets are found empty first.
RECURSIVE RehashBuckets(_, _, _)
RehashBuckets(e, n, visits) ==
  IF n = 0 \/ e.ht0.used = 0 \/ visits = 0 THEN e
  ELSE IF e.ht0.table[e.rehashidx] = <<>>
  THEN RehashBuckets([e EXCEPT !.rehashidx = @ + 1], n, visits - 1)
  ELSE RehashBuckets(MoveBucket(e), n - 1, visits)

dictRehash(e, n) ==
  IF ~dictIsRehashing(e) THEN e
  ELSE LET f == RehashBuckets(e, n, n * EmptyVisits) IN
       IF f.ht0.used = 0
         THEN [f EXCEPT !.ht0 = f.ht1, !.ht1 = NullTable, !.rehashidx = -1]
         ELSE f

\* Mutant: pauserehash is not looked at.
RehashStepUnpaused(e) == dictRehash(e, 1)

_dictRehashStep(e) == IF e.pauserehash = 0 THEN dictRehash(e, 1) ELSE e

-----------------------------------------------------------------------------
(* Operations on a key.                                                    *)

\* dictAddRaw; an existing key is left alone, after the step and the expansion.
dictAddRaw(e, k) ==
  LET f == _dictExpandIfNeeded(_dictRehashStep(e)) IN
  IF k \in Contents(f) THEN f
  ELSE IF dictIsRehashing(f) THEN [f EXCEPT !.ht1 = Link(@, k)]
  ELSE [f EXCEPT !.ht0 = Link(@, k)]

dictGenericDelete(e, k) ==
  IF e.ht0.used = 0 /\ e.ht1.used = 0 THEN e
  ELSE LET f == _dictRehashStep(e) IN
       IF k \in ToSet(Chain(f.ht0, k)) THEN [f EXCEPT !.ht0 = Unlink(@, k)]
       ELSE IF dictIsRehashing(f) /\ k \in ToSet(Chain(f.ht1, k))
       THEN [f EXCEPT !.ht1 = Unlink(@, k)] ELSE f

\* A lookup moves a bucket, even when it finds nothing.
dictFind(e) == IF dictSize(e) = 0 THEN e ELSE _dictRehashStep(e)

\* The keys that dictGetRandomKey may choose: it draws indexes from rehashidx on in the
\* first table and anywhere in the second until it meets a chain.
dictGetRandomKey(e) ==
  IF dictIsRehashing(e)
    THEN UNION {ToSet(e.ht0.table[i]) : i \in e.rehashidx..(Size(e.ht0) - 1)} \cup KeysOf(e.ht1)
    ELSE KeysOf(e.ht0)

-----------------------------------------------------------------------------
(* The cursor: bits are reversed, so that it counts from the high bit of   *)
(* the mask down.                                                          *)

RECURSIVE RevBits(_, _)
RevBits(v, bits) ==
  IF bits = 0 THEN 0 ELSE (v % 2) * 2^(bits - 1) + RevBits(v \div 2, bits - 1)
rev(v) == RevBits(v, WordBits)

\* v |= ~mask, then the reversed cursor is incremented, in a word.
Increment(v, size) == rev((rev((v % size) + (Word - size)) + 1) % Word)

\* The chains of the larger table that expand index v of the smaller one.
RECURSIVE Expansions(_, _, _)
Expansions(v, small, large) ==
  LET next == Increment(v, Size(large))
      here == ToSet(Chain(large, v))
  IN  IF (next % Size(large)) \div Size(small) = 0 THEN [cursor |-> next, keys |-> here]
      ELSE LET rest == Expansions(next, small, large)
           IN  [cursor |-> rest.cursor, keys |-> here \cup rest.keys]

dictScan(e, v) ==
  IF dictSize(e) = 0 THEN [cursor |-> 0, keys |-> {}]
  ELSE IF ~dictIsRehashing(e)
  THEN [cursor |-> Increment(v, Size(e.ht0)), keys |-> ToSet(Chain(e.ht0, v))]
  ELSE LET swap  == Size(e.ht0) > Size(e.ht1)
           small == IF swap THEN e.ht1 ELSE e.ht0
           large == IF swap THEN e.ht0 ELSE e.ht1
           rest  == Expansions(v, small, large)
       IN  [cursor |-> rest.cursor, keys |-> ToSet(Chain(small, v)) \cup rest.keys]

\* scanGenericCommand on a hash table: calls until COUNT keys are found.  The limit on
\* the calls, ten times COUNT, is more than the indexes of the tables here.
RECURSIVE ScanUntil(_, _, _, _)
ScanUntil(e, v, found, count) ==
  LET s == dictScan(e, v)
      keys == found \cup s.keys
  IN  IF s.cursor = 0 \/ Cardinality(keys) >= count THEN [cursor |-> s.cursor, keys |-> keys]
      ELSE ScanUntil(e, s.cursor, keys, count)

-----------------------------------------------------------------------------
Init ==
  /\ d = NewDict /\ canResize = TRUE
  /\ cursor = Absent /\ due = {} /\ iter = NoIter

Add(k) ==
  /\ d' = dictAddRaw(d, k)
  /\ UNCHANGED <<canResize, cursor, due, iter>>

\* An entry is deleted by a command; while the safe iterator is in use only its user runs,
\* and deletes the entry it was given.
Delete(k) ==
  /\ iter.active => iter.entry = k
  /\ d' = dictGenericDelete(d, k)
  /\ due' = due \ {k}
  /\ iter' = IF iter.active THEN [iter EXCEPT !.kept = @ \ {k}] ELSE iter
  /\ UNCHANGED <<canResize, cursor>>

Find ==
  /\ d' = dictFind(d)
  /\ UNCHANGED <<canResize, cursor, due, iter>>

\* tryResizeHashTables; the aggregate types do the same after a deletion.
TryResize ==
  /\ ~iter.active
  /\ htNeedsResize(d)
  /\ d' = dictResize(d)
  /\ UNCHANGED <<canResize, cursor, due, iter>>

\* incrementallyRehash: as many calls of dictRehash(d, 100) as fit in a millisecond.
Rehash(n) ==
  /\ ~iter.active
  /\ d.pauserehash = 0 /\ dictIsRehashing(d)
  /\ d' = dictRehash(d, n)
  /\ UNCHANGED <<canResize, cursor, due, iter>>

\* updateDictResizePolicy: a child process starts or ends.
UpdateResizePolicy ==
  /\ ~iter.active
  /\ canResize' = ~canResize
  /\ UNCHANGED <<d, cursor, due, iter>>

dictEmpty ==
  /\ ~iter.active
  /\ d' = NewDict
  /\ due' = {}
  /\ UNCHANGED <<canResize, cursor, iter>>

\* SCAN 0 COUNT count, or SCAN with the cursor of the last reply.
Scan(count) ==
  LET start == cursor = Absent
      s == ScanUntil(d, IF start THEN 0 ELSE cursor, {}, count)
  IN  /\ ~iter.active
      /\ cursor # 0
      /\ cursor' = s.cursor
      /\ due' = (IF start THEN Contents(d) ELSE due) \ s.keys
      /\ UNCHANGED <<d, canResize, iter>>

\* The client has the whole answer.
ScanDone ==
  /\ cursor = 0
  /\ cursor' = Absent /\ due' = {}
  /\ UNCHANGED <<d, canResize, iter>>

\* The first dictNext of a safe iterator pauses rehashing; the fields of iter are those
\* of dictIterator, "kept" the keys present since then and "left" those of them not given
\* yet; "again" tells that one was given twice.  A scan and an iteration do not meet, so they are taken one at a time.
IterStart ==
  /\ ~iter.active /\ cursor = Absent
  /\ d' = [d EXCEPT !.pauserehash = @ + 1]
  /\ iter' = [active |-> TRUE, table |-> 0, index |-> -1, entry |-> Absent, nextEntry |-> Absent,
              kept |-> Contents(d), left |-> Contents(d), again |-> FALSE, done |-> FALSE]
  /\ UNCHANGED <<canResize, cursor, due>>

\* The key behind k in its chain, which is what entry->next points to.
NextInChain(ht, k) ==
  LET c == Chain(ht, k)
      i == CHOOSE j \in DOMAIN c : c[j] = k
  IN  IF i = Len(c) THEN Absent ELSE c[i + 1]

\* The loop of dictNext; the end is entry Absent with done.
RECURSIVE Advance(_, _)
Advance(e, it) ==
  LET ht(t) == IF t = 0 THEN e.ht0 ELSE e.ht1
      give(t, i, k) ==
        [it EXCEPT !.table = t, !.index = i, !.entry = k, !.nextEntry = NextInChain(ht(t), k),
                   !.left = @ \ {k}, !.again = @ \/ k \in it.kept \ it.left]
      switch == it.index + 1 >= Size(ht(it.table)) /\ dictIsRehashing(e) /\ it.table = 0
      t == IF switch THEN 1 ELSE it.table
      i == IF switch THEN 0 ELSE it.index + 1
  IN  IF it.entry # Absent /\ it.nextEntry # Absent THEN give(it.table, it.index, it.nextEntry)
      ELSE IF i >= Size(ht(t)) THEN [it EXCEPT !.entry = Absent, !.done = TRUE]
      ELSE IF ht(t).table[i] = <<>>
      THEN Advance(e, [it EXCEPT !.table = t, !.index = i, !.entry = Absent])
      ELSE give(t, i, Head(ht(t).table[i]))

dictNext ==
  /\ iter.active /\ ~iter.done
  /\ iter' = Advance(d, iter)
  /\ UNCHANGED <<d, canResize, cursor, due>>

dictReleaseIterator ==
  /\ iter.active /\ iter.done
  /\ iter' = NoIter
  /\ d' = [d EXCEPT !.pauserehash = @ - 1]
  /\ UNCHANGED <<canResize, cursor, due>>

Next ==
  \/ \E k \in Keys : Add(k) \/ Delete(k)
  \/ Find \/ TryResize \/ UpdateResizePolicy \/ dictEmpty
  \/ \E n \in {1, 100} : Rehash(n)
  \/ \E count \in 1..MaxCount : Scan(count)
  \/ ScanDone \/ IterStart \/ dictNext \/ dictReleaseIterator

Spec == Init /\ [][Next]_dictVars

-----------------------------------------------------------------------------
\* The two tables hold each key once, in the bucket of its hash, and count what they
\* hold; the second exists while rehashing, and the buckets of the first up to rehashidx
\* are empty, which dictGetRandomKey and dictGetSomeKeys rely on.
TablesConsistent ==
  LET places(ht) == {<<i, j>> : i \in DOMAIN ht.table, j \in 1..Cardinality(Keys)}
      filled(ht) == {p \in places(ht) : p[2] \in DOMAIN ht.table[p[1]]}
  IN  /\ \A ht \in {d.ht0, d.ht1} :
           /\ Cardinality(KeysOf(ht)) = Cardinality(filled(ht)) /\ ht.used = Cardinality(filled(ht))
           /\ \A p \in filled(ht) : ht.table[p[1]][p[2]] % Size(ht) = p[1]
      /\ KeysOf(d.ht0) \cap KeysOf(d.ht1) = {}
      /\ dictIsRehashing(d) <=> Size(d.ht1) # 0
      /\ \A i \in 0..(d.rehashidx - 1) : d.ht0.table[i] = <<>>

\* dictGetRandomKey can reach every key, and finds one whenever there is one (it loops
\* until it does).
RandomKeyReachesAll == dictGetRandomKey(d) = Contents(d)

\* "The function guarantees all elements present in the dictionary get returned between
\* the start and end of the iteration", whatever is added, deleted, resized and rehashed
\* between the SCANs.
ScanComplete == cursor = 0 => due = {}

\* A scan ends: in the reversed order the cursor grows with every SCAN until it is 0 again,
\* even when the tables change under it.
ScanAdvances ==
  [][cursor # Absent /\ cursor # 0 /\ cursor' # cursor
       => cursor' = 0 \/ rev(cursor') > rev(cursor)]_dictVars

\* A safe iterator returns every key that stays in the dict exactly once, although its
\* user adds keys, deletes the one it was given and makes the table grow meanwhile.
IteratedOnce ==
  iter.active => /\ ~iter.again
                 /\ iter.done => iter.kept \cap iter.left = {}
==============================================================================
