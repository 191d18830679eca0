---------------------------- MODULE ZsetCommands ----------------------------
(***************************************************************************)
(* The sorted set commands of t_zset.c above the two encodings: ranges by  *)
(* rank, score and name (ZRANGE and its older forms, ZCOUNT, ZLEXCOUNT),   *)
(* the set algebra (ZUNION, ZINTER, ZDIFF), the commands that store a      *)
(* result, and ZRANDMEMBER.  The skip list itself is module SortedSet.     *)
(*                                                                         *)
(* A sorted set is the sequence of its <<score, element>> pairs in order.  *)
(* Elements are numbers in the order of their names.  Scores are doubles:  *)
(* small numbers, two infinities and NaN, which no comparison accepts.     *)
(***************************************************************************)
EXTENDS Integers, Sequences, SequencesExt, FiniteSets

CONSTANTS Keys,         \* the keys of the database
          Elements,     \* element names, numbers above 0
          LongNames,    \* the elements longer than zset-max-ziplist-value
          IntNames,     \* the elements that spell an integer
          MaxEntries,   \* zset-max-ziplist-entries
          Scores,       \* the scores given to ZADD
          Weights,      \* the weights given to ZUNION and ZINTER
          Aggregates,   \* of "sum", "min", "max"
          Inputs,       \* how many source keys an algebra command names
          RangeScores,  \* the bounds of ranges
          MaxScore      \* bound: no finite score above it is stored

VARIABLE db             \* key -> object

Inf == 1000
NegInf == 0 - 1000
NaN == 9999
MinString == 0          \* shared.minstring: below every name
MaxString == 1000       \* shared.maxstring: above every name

NoObject == [type |-> "none", enc |-> "none", z |-> <<>>]

----------------------------------------------------------------------------
(* Doubles.                                                                *)

Infinite(a) == a \in {Inf, NegInf}

Add(a, b) ==
  IF NaN \in {a, b} \/ {a, b} = {Inf, NegInf} THEN NaN
  ELSE IF Infinite(a) THEN a ELSE IF Infinite(b) THEN b ELSE a + b

Mul(a, b) ==
  IF NaN \in {a, b} \/ (0 \in {a, b} /\ (Infinite(a) \/ Infinite(b))) THEN NaN
  ELSE IF Infinite(a) \/ Infinite(b)
       THEN IF (a < 0) = (b < 0) THEN Inf ELSE NegInf
       ELSE a * b

Lt(a, b) == NaN \notin {a, b} /\ a < b

----------------------------------------------------------------------------
(* Ranges.  A range has bounds min and max, each possibly exclusive; `by'  *)
(* says whether it is over scores or over names.                           *)

Value(p, by) == IF by = "score" THEN p[1] ELSE p[2]

ValueGteMin(v, r) == IF r.minex THEN v > r.min ELSE v >= r.min
ValueLteMax(v, r) == IF r.maxex THEN v < r.max ELSE v <= r.max

IsInRange(z, r, by) ==
  /\ ~(r.min > r.max \/ (r.min = r.max /\ (r.minex \/ r.maxex)))
  /\ z # <<>>
  /\ ValueGteMin(Value(Last(z), by), r)
  /\ ValueLteMax(Value(Head(z), by), r)

\* Positions in z, 0 for none.
FirstInRange(z, r, by) ==
  LET from == {i \in 1..Len(z) : ValueGteMin(Value(z[i], by), r)}
      i == CHOOSE i \in from : \A j \in from : i <= j
  IN IF IsInRange(z, r, by) /\ from # {} /\ ValueLteMax(Value(z[i], by), r)
     THEN i ELSE 0

LastInRange(z, r, by) ==
  LET upto == {i \in 1..Len(z) : ValueLteMax(Value(z[i], by), r)}
      i == CHOOSE i \in upto : \A j \in upto : i >= j
  IN IF IsInRange(z, r, by) /\ upto # {} /\ ValueGteMin(Value(z[i], by), r)
     THEN i ELSE 0

\* The position `offset' steps on, 0 past the end; a negative offset is
\* counted down for ever and so ends there too.
Skip(z, i, offset, reverse) ==
  LET j == IF reverse THEN i - offset ELSE i + offset
  IN IF i = 0 \/ offset < 0 \/ j \notin 1..Len(z) THEN 0 ELSE j

\* What the loop that emits from position i on gives; a negative limit never
\* runs out.
RECURSIVE Emit(_, _, _, _, _, _)
Emit(z, r, by, i, limit, reverse) ==
  IF \/ i \notin 1..Len(z)
     \/ limit = 0
     \/ reverse /\ ~ValueGteMin(Value(z[i], by), r)
     \/ ~reverse /\ ~ValueLteMax(Value(z[i], by), r)
  THEN <<>>
  ELSE <<z[i]>> \o Emit(z, r, by, IF reverse THEN i - 1 ELSE i + 1,
                        limit - 1, reverse)

genericZrangebyscoreCommand(z, r, offset, limit, reverse) ==
  LET first == IF reverse THEN LastInRange(z, r, "score")
               ELSE FirstInRange(z, r, "score")
  IN IF offset > 0 /\ offset >= Len(z) THEN <<>>
     ELSE Emit(z, r, "score", Skip(z, first, offset, reverse), limit, reverse)

genericZrangebylexCommand(z, r, offset, limit, reverse) ==
  LET first == IF reverse THEN LastInRange(z, r, "lex")
               ELSE FirstInRange(z, r, "lex")
  IN Emit(z, r, "lex", Skip(z, first, offset, reverse), limit, reverse)

\* Indexes count from 0, negative ones from the end.
genericZrangebyrankCommand(z, start, end, reverse) ==
  LET llen == Len(z)
      s0 == IF start < 0 THEN llen + start ELSE start
      e0 == IF end < 0 THEN llen + end ELSE end
      s  == IF s0 < 0 THEN 0 ELSE s0
      e  == IF e0 >= llen THEN llen - 1 ELSE e0
  IN IF s > e0 \/ s >= llen THEN <<>>
     ELSE [i \in 1..(e - s + 1) |->
             IF reverse THEN z[llen - s - (i - 1)] ELSE z[s + i]]

\* The rank of the pair at position i is i: zslGetRank.
Count(o, r, by) ==
  LET first == FirstInRange(o.z, r, by)
      last  == LastInRange(o.z, r, by)
  IN IF o.enc = "ziplist"
     THEN Len(Emit(o.z, r, by, first, 0 - 1, FALSE))
     ELSE IF first = 0 THEN 0
     ELSE (Len(o.z) - (first - 1)) - (IF last = 0 THEN 0 ELSE Len(o.z) - last)

zcountCommand(o, r) == Count(o, r, "score")
zlexcountCommand(o, r) == Count(o, r, "lex")

\* A ZRANGE request: reversed ranges by score or name are given as max, min.
zrangeGenericCommand(z, q) ==
  LET r == IF q.rev
           THEN [min |-> q.max, max |-> q.min, minex |-> q.maxex, maxex |-> q.minex]
           ELSE [min |-> q.min, max |-> q.max, minex |-> q.minex, maxex |-> q.maxex]
  IN CASE q.by = "rank"  -> genericZrangebyrankCommand(z, q.min, q.max, q.rev)
       [] q.by = "score" -> genericZrangebyscoreCommand(z, r, q.offset, q.limit, q.rev)
       [] q.by = "lex"   -> genericZrangebylexCommand(z, r, q.offset, q.limit, q.rev)

----------------------------------------------------------------------------
(* Building a sorted set.                                                  *)

PairLt(p, q) == p[1] < q[1] \/ (p[1] = q[1] /\ p[2] < q[2])

Inserted(z, p) ==
  LET at == Cardinality({i \in 1..Len(z) : PairLt(z[i], p)}) + 1
  IN InsertAt(z, at, p)

Without(z, e) == SelectSeq(z, LAMBDA p : p[2] # e)
Names(z) == {z[i][2] : i \in 1..Len(z)}
ScoreIn(z, e) == z[CHOOSE i \in 1..Len(z) : z[i][2] = e][1]

\* zsetAdd of a plain score; a ziplist that grew too much is converted.
zsetAdd(o, e, s) ==
  LET z == Inserted(Without(o.z, e), <<s, e>>)
  IN [o EXCEPT !.z = z,
               !.enc = IF /\ o.enc = "ziplist"
                          /\ e \in Names(o.z) \/ (Len(z) <= MaxEntries
                                                   /\ e \notin LongNames)
                       THEN "ziplist" ELSE "skiplist"]

EmptyZset(enc) == [type |-> "zset", enc |-> enc, z |-> <<>>]

\* long says that the longest element put in the set was a long one.
zsetConvertToZiplistIfNeeded(z, long) ==
  [type |-> "zset", z |-> z,
   enc |-> IF Len(z) <= MaxEntries /\ ~long THEN "ziplist" ELSE "skiplist"]

----------------------------------------------------------------------------
(* Set algebra.  A source is a key's object with a weight; the elements of *)
(* a plain set count with score 1.                                         *)

Source(k, w) == [key |-> k, weight |-> w, obj |-> db[k]]

\* The pairs in the order the iterator gives them: sorted sets backwards.
zuiElements(s) ==
  IF s.obj.type = "zset" THEN Reverse(s.obj.z) ELSE s.obj.z

zuiLength(s) == Len(s.obj.z)

\* The score of an element in a source, NaN if it is not there.  An intset is
\* only searched for elements that spell an integer.
zuiFind(s, e) ==
  IF (s.obj.enc = "intset" => e \in IntNames) /\ e \in Names(s.obj.z)
  THEN ScoreIn(s.obj.z, e) ELSE NaN

zunionInterAggregate(target, val, aggregate) ==
  CASE aggregate = "sum" ->
         LET t == Add(target, val) IN IF t = NaN THEN 0 ELSE t
    [] aggregate = "min" -> IF Lt(val, target) THEN val ELSE target
    [] aggregate = "max" -> IF Lt(target, val) THEN val ELSE target

Weighted(w, s) == LET v == Mul(w, s) IN IF v = NaN THEN 0 ELSE v

\* What ZINTER finds of a pair of the first source in source s.
Found(srcs, s, p) == IF s.key = srcs[1].key THEN p[1] ELSE zuiFind(s, p[2])

\* The score ZINTER gives it.  That of a later source is weighted unguarded.
InterScore(srcs, p, aggregate) ==
  FoldLeft(LAMBDA acc, s :
             zunionInterAggregate(acc, Mul(Found(srcs, s, p), s.weight), aggregate),
           Weighted(srcs[1].weight, p[1]), Tail(srcs))

\* The result under construction: its pairs, and whether a long name was met.
Built == [z |-> <<>>, long |-> FALSE]
Put(b, p) == [z |-> Inserted(b.z, p), long |-> b.long \/ p[2] \in LongNames]

Inter(srcs, aggregate) ==
  IF zuiLength(srcs[1]) = 0 THEN Built
  ELSE FoldLeft(LAMBDA b, p :
                  IF \E j \in 2..Len(srcs) : Found(srcs, srcs[j], p) = NaN THEN b
                  ELSE Put(b, <<InterScore(srcs, p, aggregate), p[2]>>),
                Built, zuiElements(srcs[1]))

Union(srcs, aggregate) ==
  LET Accumulate(acc, p, w) ==
        LET score == Weighted(w, p[1])
        IN IF p[2] \in DOMAIN acc
           THEN [acc EXCEPT ![p[2]] = zunionInterAggregate(acc[p[2]], score, aggregate)]
           ELSE [e \in DOMAIN acc \cup {p[2]} |-> IF e = p[2] THEN score ELSE acc[e]]
      accumulator ==
        FoldLeft(LAMBDA acc, s :
                   FoldLeft(LAMBDA a, p : Accumulate(a, p, s.weight),
                            acc, zuiElements(s)),
                 [e \in {} |-> 0], srcs)
  IN FoldLeft(LAMBDA b, e : Put(b, <<accumulator[e], e>>),
              Built, SetToSeq(DOMAIN accumulator))

zdiffAlgorithm1(srcs) ==
  FoldLeft(LAMBDA b, p :
             IF \E j \in 2..Len(srcs) : \/ srcs[j].key = srcs[1].key
                                        \/ zuiFind(srcs[j], p[2]) # NaN
             THEN b ELSE Put(b, p),
           Built, zuiElements(srcs[1]))

\* Removals stop as soon as nothing is left; the longest name is looked for in
\* the result.
zdiffAlgorithm2(srcs) ==
  LET all  == FoldLeft(LAMBDA b, p : Put(b, p), Built, zuiElements(srcs[1])).z
      left == FoldLeft(LAMBDA z, s :
                         FoldLeft(LAMBDA y, p : Without(y, p[2]), z, zuiElements(s)),
                       all, Tail(srcs))
  IN [z |-> left, long |-> Names(left) \cap LongNames # {}]

zsetChooseDiffAlgorithm(srcs) ==
  LET one == (Len(srcs) * zuiLength(srcs[1])) \div 2
      two == FoldLeft(LAMBDA n, s : n + zuiLength(s), 0, srcs)
  IN IF \E j \in 2..Len(srcs) : srcs[j].key = srcs[1].key THEN 0
     ELSE IF one <= two THEN 1 ELSE 2

zdiff(srcs) ==
  IF zuiLength(srcs[1]) = 0 THEN Built
  ELSE CASE zsetChooseDiffAlgorithm(srcs) = 0 -> Built
         [] zsetChooseDiffAlgorithm(srcs) = 1 -> zdiffAlgorithm1(srcs)
         [] zsetChooseDiffAlgorithm(srcs) = 2 -> zdiffAlgorithm2(srcs)

\* The orders qsort may put the sources in: by length, equals anyhow.
ByCardinality(srcs) ==
  {[i \in 1..Len(srcs) |-> srcs[perm[i]]] :
     perm \in {f \in [1..Len(srcs) -> 1..Len(srcs)] :
                 /\ \A i, j \in 1..Len(srcs) : f[i] = f[j] => i = j
                 /\ \A i \in 1..(Len(srcs) - 1) :
                      zuiLength(srcs[f[i]]) <= zuiLength(srcs[f[i + 1]])}}

\* What zunionInterDiffGenericCommand may compute.
Results(op, srcs, aggregate) ==
  CASE op = "inter" -> {Inter(o, aggregate) : o \in ByCardinality(srcs)}
    [] op = "union" -> {Union(o, aggregate) : o \in ByCardinality(srcs)}
    [] op = "diff"  -> {zdiff(srcs)}

----------------------------------------------------------------------------
(* ZRANDMEMBER with a count: the length announced and the replies it may   *)
(* give, as sequences of pairs.                                            *)

Sequences(S, n) == [1..n -> S]
Distinct(seq) == \A i, j \in DOMAIN seq : seq[i] = seq[j] => i = j

Announced(z, l) ==
  LET count == IF l < 0 THEN 0 - l ELSE l
  IN IF l < 0 \/ count = 1 THEN count ELSE IF count < Len(z) THEN count ELSE Len(z)

zrandmemberWithCountCommand(z, l) ==
  LET count == IF l < 0 THEN 0 - l ELSE l
      pairs == {z[i] : i \in 1..Len(z)}
      \* Subtracting random elements from a copy of the whole set.
      Subtracted == {S \in SUBSET pairs : Cardinality(S) = count}
  IN IF count = 0 THEN {<<>>}
     ELSE IF l < 0 \/ count = 1 THEN Sequences(pairs, count)
     ELSE IF count >= Len(z) THEN {Reverse(z)}
     ELSE IF count * 3 > Len(z) THEN {SetToSeq(S) : S \in Subtracted}
     ELSE {s \in Sequences(pairs, count) : Distinct(s)}

----------------------------------------------------------------------------
Init == db = [k \in Keys |-> NoObject]

\* ZADD key score element.
zaddCommand(k, e, s) ==
  /\ db[k].type \in {"none", "zset"}
  /\ LET o == IF db[k].type = "zset" THEN db[k]
              ELSE EmptyZset(IF MaxEntries = 0 \/ e \in LongNames
                             THEN "skiplist" ELSE "ziplist")
     IN db' = [db EXCEPT ![k] = zsetAdd(o, e, s)]

\* ZREM key element: the key goes with its last element.
zremCommand(k, e) ==
  /\ db[k].type = "zset"
  /\ LET z == Without(db[k].z, e)
     IN db' = [db EXCEPT ![k] = IF z = <<>> THEN NoObject
                                ELSE [db[k] EXCEPT !.z = z]]

\* SADD key element, for sources that are plain sets.
saddCommand(k, e) ==
  /\ db[k].type \in {"none", "set"}
  /\ LET z == Inserted(Without(db[k].z, e), <<1, e>>)
     IN db' = [db EXCEPT ![k] = [type |-> "set", z |-> z,
                                 enc |-> IF Names(z) \subseteq IntNames
                                         THEN "intset" ELSE "ht"]]

\* ZUNIONSTORE, ZINTERSTORE, ZDIFFSTORE.
zunionInterDiffGenericCommand(dst, op, keys, ws, aggregate) ==
  \E b \in Results(op, [i \in 1..Len(keys) |-> Source(keys[i], ws[i])], aggregate) :
    db' = [db EXCEPT ![dst] = IF b.z = <<>> THEN NoObject
                              ELSE zsetConvertToZiplistIfNeeded(b.z, b.long)]

\* The result handler of ZRANGESTORE adds the pairs one by one.
zrangeResultFinalizeStore(z) ==
  IF z = <<>> THEN NoObject
  ELSE FoldLeft(LAMBDA o, p : zsetAdd(o, p[2], p[1]), EmptyZset("ziplist"), z)

\* ZRANGESTORE dst src: a source that does not exist is answered with an empty
\* array before the handler is asked for anything.
zrangestoreCommand(dst, src, q) ==
  /\ db[src].type \in {"none", "zset"}
  /\ db' = IF db[src].type = "none" THEN db
           ELSE [db EXCEPT ![dst] =
                   zrangeResultFinalizeStore(zrangeGenericCommand(db[src].z, q))]

\* Requests: by rank, by score and by name.
RankRequests ==
  [by : {"rank"}, min : (0 - 4)..3, max : (0 - 4)..3, minex : {FALSE},
   maxex : {FALSE}, offset : {0}, limit : {0 - 1}, rev : BOOLEAN]
Limits == {<<0, 0 - 1>>, <<1, 0 - 1>>, <<2, 1>>, <<0 - 1, 1>>, <<0, 2>>}
Limited(by, bounds) ==
  {[by |-> by, min |-> a, max |-> b, minex |-> x, maxex |-> y,
    offset |-> l[1], limit |-> l[2], rev |-> v] :
     a \in bounds, b \in bounds, x \in BOOLEAN, y \in BOOLEAN, l \in Limits,
     v \in BOOLEAN}
LexBounds == {MinString, MaxString} \cup Elements
\* The symbols - and + are exclusive bounds.
LexRequests ==
  {q \in Limited("lex", LexBounds) :
     /\ q.min \in {MinString, MaxString} => q.minex
     /\ q.max \in {MinString, MaxString} => q.maxex}
Requests == RankRequests \cup Limited("score", RangeScores) \cup LexRequests

\* One kind of request of each form for the store command.
StoreRequests ==
  {q \in RankRequests : q.min = 0 /\ q.max \in {0, 0 - 1} /\ ~q.rev}
    \cup {q \in Limited("score", {CHOOSE s \in RangeScores : TRUE}) :
            ~q.minex /\ ~q.maxex /\ ~q.rev /\ q.offset = 0}

Algebra(dst) ==
  \E op \in {"union", "inter", "diff"}, a \in Aggregates,
     keys \in [1..Inputs -> Keys], ws \in [1..Inputs -> Weights] :
    /\ op = "diff" => a = "sum" /\ \A i \in 1..Inputs : ws[i] = 1
    /\ zunionInterDiffGenericCommand(dst, op, keys, ws, a)
    /\ \A i \in 1..Len(db'[dst].z) :
         db'[dst].z[i][1] \in {Inf, NaN} \/ db'[dst].z[i][1] <= MaxScore

Next ==
  \E k \in Keys :
    \/ \E e \in Elements, s \in Scores : zaddCommand(k, e, s)
    \/ \E e \in Elements : zremCommand(k, e)
    \/ \E e \in Elements : saddCommand(k, e)
    \/ \E src \in Keys, q \in StoreRequests : zrangestoreCommand(k, src, q)
    \/ Algebra(k)

Spec == Init /\ [][Next]_db

----------------------------------------------------------------------------
(* Properties.                                                             *)

Zsets == {k \in Keys : db[k].type = "zset"}

Take(z, n) == IF n < 0 \/ n > Len(z) THEN z ELSE SubSeq(z, 1, n)
Drop(z, n) == IF n < 0 \/ n > Len(z) THEN <<>> ELSE SubSeq(z, n + 1, Len(z))

Within(v, q) ==
  LET lo == IF q.rev THEN q.max ELSE q.min
      hi == IF q.rev THEN q.min ELSE q.max
      loex == IF q.rev THEN q.maxex ELSE q.minex
      hiex == IF q.rev THEN q.minex ELSE q.maxex
  IN lo <= v /\ v <= hi /\ (loex => v # lo) /\ (hiex => v # hi)

\* What a request asks for, said without any search.
Asked(z, q) ==
  LET in   == IF q.by = "rank"
              THEN LET order == IF q.rev THEN Reverse(z) ELSE z
                       At(i) == IF i < 0 THEN Len(z) + i ELSE i
                       want  == {i \in 1..Len(z) :
                                   i - 1 >= At(q.min) /\ i - 1 <= At(q.max)}
                       keep  == [i \in 1..Len(z) |-> <<i, order[i]>>]
                       kept  == SelectSeq(keep, LAMBDA x : x[1] \in want)
                   IN [i \in 1..Len(kept) |-> kept[i][2]]
              ELSE LET s == SelectSeq(z, LAMBDA p : Within(Value(p, q.by), q))
                   IN IF q.rev THEN Reverse(s) ELSE s
  IN Take(Drop(in, q.offset), q.limit)

OneScore(z) == \A i, j \in 1..Len(z) : z[i][1] = z[j][1]

\* ZRANGE, ZREVRANGE, ZRANGEBYSCORE, ZRANGEBYLEX and their reversed forms give
\* exactly the elements in the range, in the order asked for, after the offset
\* and within the limit, whatever the bounds: crossed, equal and exclusive,
\* negative or past the end.  Ranges by name are defined for sets whose
\* elements have one score.
ZrangesAreTrue ==
  \A k \in Zsets :
    \A q \in Requests :
      (q.by = "lex" => OneScore(db[k].z)) =>
        zrangeGenericCommand(db[k].z, q) = Asked(db[k].z, q)

\* ZCOUNT and ZLEXCOUNT, which count with ranks in a skip list and by walking
\* in a ziplist, agree with the number of elements the range holds.
ZcountsAreTrue ==
  \A k \in Zsets :
    \A q \in {r \in Requests : /\ r.by \in {"score", "lex"}
                               /\ r.limit = 0 - 1 /\ r.offset = 0 /\ ~r.rev} :
      (q.by = "lex" => OneScore(db[k].z)) =>
        (IF q.by = "score" THEN zcountCommand(db[k], q)
         ELSE zlexcountCommand(db[k], q)) = Len(Asked(db[k].z, q))

\* The weighted scores of e in the sources, and their aggregate when all are
\* finite: then the order of the sources does not matter.
Terms(srcs, e) ==
  LET having == SelectSeq(srcs, LAMBDA s : e \in Names(s.obj.z))
  IN [i \in 1..Len(having) |-> Mul(having[i].weight, ScoreIn(having[i].obj.z, e))]

Plain(srcs, e) == \A i \in 1..Len(Terms(srcs, e)) :
                    Terms(srcs, e)[i] # NaN /\ ~Infinite(Terms(srcs, e)[i])

Aggregate(terms, aggregate) ==
  CASE aggregate = "sum" -> FoldLeft(LAMBDA a, b : a + b, 0, terms)
    [] aggregate = "min" -> CHOOSE t \in {terms[i] : i \in 1..Len(terms)} :
                              \A i \in 1..Len(terms) : t <= terms[i]
    [] aggregate = "max" -> CHOOSE t \in {terms[i] : i \in 1..Len(terms)} :
                              \A i \in 1..Len(terms) : t >= terms[i]

Expected(op, srcs) ==
  CASE op = "union" -> UNION {Names(srcs[i].obj.z) : i \in 1..Len(srcs)}
    [] op = "inter" -> {e \in Elements : \A i \in 1..Len(srcs) : e \in Names(srcs[i].obj.z)}
    [] op = "diff"  -> {e \in Names(srcs[1].obj.z) :
                          \A i \in 2..Len(srcs) : e \notin Names(srcs[i].obj.z)}

\* ZUNION, ZINTER and ZDIFF over sorted sets and plain sets of every encoding,
\* the same key named twice included, give the elements of the set operation,
\* each with the aggregate of its weighted scores, or for ZDIFF with its score
\* in the first set: sorting the sources by size and choosing between two
\* difference algorithms changes nothing.
AlgebraIsTrue ==
  \A op \in {"union", "inter", "diff"}, a \in Aggregates,
     keys \in [1..Inputs -> Keys], ws \in [1..Inputs -> Weights] :
    LET srcs == [i \in 1..Inputs |-> Source(keys[i], ws[i])]
    IN \A b \in Results(op, srcs, a) :
         /\ Names(b.z) = Expected(op, srcs)
         /\ Len(b.z) = Cardinality(Names(b.z))
         /\ \A e \in Names(b.z) :
              /\ op = "diff" => ScoreIn(b.z, e) = ScoreIn(srcs[1].obj.z, e)
              /\ op # "diff" /\ Plain(srcs, e) =>
                   ScoreIn(b.z, e) = Aggregate(Terms(srcs, e), a)

\* No stored score is NaN, and every stored set is in order: a NaN would be
\* found by no search of the skip list.
ScoresAreOrdered ==
  \A k \in Zsets :
    /\ \A i \in 1..Len(db[k].z) : db[k].z[i][1] # NaN
    /\ \A i \in 1..(Len(db[k].z) - 1) : PairLt(db[k].z[i], db[k].z[i + 1])

\* A sorted set is kept as a ziplist only while it is within the two limits of
\* the configuration, also when it is the stored result of another command,
\* and no empty sorted set stays in the database.
ZiplistsAreSmall ==
  \A k \in Zsets :
    /\ db[k].z # <<>>
    /\ db[k].enc = "ziplist" =>
         Len(db[k].z) <= MaxEntries /\ Names(db[k].z) \cap LongNames = {}

\* ZRANDMEMBER announces as many elements as it then sends, all from the set,
\* and different ones when the count is positive.
RandomRepliesFit ==
  \A k \in Zsets :
    \A l \in (0 - 2)..4 :
      \A s \in zrandmemberWithCountCommand(db[k].z, l) :
        /\ Len(s) = IF l = 0 THEN 0 ELSE Announced(db[k].z, l)
        /\ l > 0 => Distinct(s)
=============================================================================
