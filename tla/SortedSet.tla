------------------------------ MODULE SortedSet ------------------------------
(***************************************************************************)
(* Redis: a sorted set (t_zset.c) in its two encodings.  A small set is a  *)
(* ziplist of pairs in order; a larger one is a skip list with spans, plus *)
(* a hash table from the element to its score.  "ref" is what the set      *)
(* should hold, whatever the encoding: the score of each element.          *)
(*                                                                         *)
(* Elements are numbers, ordered as sdscmp orders the strings; a node of   *)
(* the skip list is named by its element, the header by 0 and NULL by -1.  *)
(***************************************************************************)
EXTENDS Integers, Sequences, FiniteSets, SequencesExt, FiniteSetsExt

CONSTANTS Elements,    \* a set of positive numbers
          Long,        \* the elements longer than zset_max_ziplist_value
          Scores,      \* finite scores
          MaxLevel,    \* ZSKIPLIST_MAXLEVEL
          MaxEntries,  \* zset_max_ziplist_entries
          FlagSets     \* compatible options of ZADD and ZINCRBY: nx, xx, gt, lt, incr

VARIABLES zobj,  \* the object of the key: encoding, zl, zsl, dict
          ref    \* element -> score

zsetVars == <<zobj, ref>>

HEADER == 0
NULL == -1

\* (score, element) order of the set.
Before(s, e, t, f) == s < t \/ (s = t /\ e < f)

-----------------------------------------------------------------------------
(* The skip list: nodes with a forward pointer and a span per level.       *)

Node(score, height) ==
  [score |-> score, forward |-> [i \in 1..height |-> NULL], span |-> [i \in 1..height |-> 0],
   backward |-> NULL]

zslCreate == [node |-> [n \in {HEADER} |-> Node(0, MaxLevel)], level |-> 1, length |-> 0,
              tail |-> NULL]

InList(zsl) == DOMAIN zsl.node \ {HEADER}

\* One level of the descent: forward while the next node is in S.
RECURSIVE Walk(_, _, _, _, _)
Walk(zsl, i, x, rank, S) ==
  LET f == zsl.node[x].forward[i]
  IN  IF f \in S THEN Walk(zsl, i, f, rank + zsl.node[x].span[i], S) ELSE [at |-> x, rank |-> rank]

\* update[i] and rank[i] for each level in use, when S are the nodes to pass.
Descend(zsl, S) ==
  LET path[i \in 1..zsl.level] ==
        IF i = zsl.level THEN Walk(zsl, i, HEADER, 0, S)
        ELSE Walk(zsl, i, path[i + 1].at, path[i + 1].rank, S)
  IN  path

Preceding(zsl, score, e) == {x \in InList(zsl) : Before(zsl.node[x].score, x, score, e)}

\* Mutant: the levels above the new node keep their spans.
SpanKept(span) == span

\* A level the new node does not reach now crosses one node more.
SpanOver(span) == span + 1

zslInsert(zsl, score, e, level) ==
  LET path == Descend(zsl, Preceding(zsl, score, e))
      up(i) == IF i <= zsl.level THEN path[i].at ELSE HEADER
      rk(i) == IF i <= zsl.level THEN path[i].rank ELSE 0
      old(i) == IF i <= zsl.level THEN zsl.node[up(i)].span[i] ELSE zsl.length
      next(i) == zsl.node[up(i)].forward[i]
      new == [score |-> score, forward |-> [i \in 1..level |-> next(i)],
              span |-> [i \in 1..level |-> old(i) - (rk(1) - rk(i))],
              backward |-> IF up(1) = HEADER THEN NULL ELSE up(1)]
      linked(x, n) ==
        [n EXCEPT !.forward = [i \in DOMAIN @ |-> IF i <= level /\ up(i) = x THEN e ELSE @[i]],
                  !.span = [i \in DOMAIN @ |->
                              IF i <= level /\ up(i) = x THEN rk(1) - rk(i) + 1
                              ELSE IF i <= zsl.level /\ up(i) = x THEN SpanOver(@[i]) ELSE @[i]],
                  !.backward = IF x = next(1) THEN e ELSE @]
  IN  [node |-> [x \in DOMAIN zsl.node \cup {e} |-> IF x = e THEN new ELSE linked(x, zsl.node[x])],
       level |-> Max({level, zsl.level}), length |-> zsl.length + 1,
       tail |-> IF next(1) = NULL THEN e ELSE zsl.tail]

\* zslDeleteNode, with the path that led to x.
zslDeleteNode(zsl, x, path) ==
  LET gone == zsl.node[x]
      on(y, i) == i <= zsl.level /\ path[i].at = y
      cut(y, n) ==
        [n EXCEPT !.forward = [i \in DOMAIN @ |->
                                 IF on(y, i) /\ @[i] = x THEN gone.forward[i] ELSE @[i]],
                  !.span = [i \in DOMAIN @ |->
                              IF ~on(y, i) THEN @[i]
                              ELSE IF n.forward[i] = x THEN @[i] + gone.span[i] - 1
                              ELSE @[i] - 1],
                  !.backward = IF y = gone.forward[1] THEN gone.backward ELSE @]
      node == [y \in DOMAIN zsl.node \ {x} |-> cut(y, zsl.node[y])]
      used == {i \in 1..zsl.level : node[HEADER].forward[i] # NULL}
  IN  [node |-> node, level |-> Max(used \cup {1}), length |-> zsl.length - 1,
       tail |-> IF gone.forward[1] = NULL THEN gone.backward ELSE zsl.tail]

zslDelete(zsl, score, e) ==
  LET path == Descend(zsl, Preceding(zsl, score, e))
      x == zsl.node[path[1].at].forward[1]
  IN  IF x = e /\ zsl.node[x].score = score THEN zslDeleteNode(zsl, x, path) ELSE zsl

\* The node stays where it is when its neighbours still enclose the new score.
zslUpdateScore(zsl, curscore, e, newscore, level) ==
  LET path == Descend(zsl, Preceding(zsl, curscore, e))
      b == zsl.node[e].backward
      f == zsl.node[e].forward[1]
  IN  IF /\ b = NULL \/ (b # NULL /\ zsl.node[b].score < newscore)
         /\ f = NULL \/ (f # NULL /\ zsl.node[f].score > newscore)
        THEN [zsl EXCEPT !.node[e].score = newscore]
        ELSE zslInsert(zslDeleteNode(zsl, e, path), newscore, e, level)

\* Deletes the nodes behind the path while they are in S; update[] is not recomputed.
RECURSIVE DeleteWhile(_, _, _)
DeleteWhile(zsl, path, S) ==
  LET x == zsl.node[path[1].at].forward[1]
  IN  IF x \in S THEN DeleteWhile(zslDeleteNode(zsl, x, path), path, S) ELSE zsl

\* zslGetRank passes e itself and adds up the spans.
zslGetRank(zsl, score, e) ==
  LET S == {x \in InList(zsl) : Before(zsl.node[x].score, x, score, e)
                                  \/ (zsl.node[x].score = score /\ x = e)}
      path == Descend(zsl, S)
      found == {i \in DOMAIN path : path[i].at = e}
  IN  IF found = {} THEN 0 ELSE path[Max(found)].rank

\* Forward at level i while the rank passed stays within the limit.
RECURSIVE RankWalk(_, _, _, _, _)
RankWalk(zsl, i, x, traversed, limit) ==
  LET n == zsl.node[x]
  IN  IF n.forward[i] # NULL /\ traversed + n.span[i] <= limit
        THEN RankWalk(zsl, i, n.forward[i], traversed + n.span[i], limit)
        ELSE [at |-> x, rank |-> traversed]

RankDescend(zsl, limit) ==
  LET path[i \in 1..zsl.level] ==
        IF i = zsl.level THEN RankWalk(zsl, i, HEADER, 0, limit)
        ELSE RankWalk(zsl, i, path[i + 1].at, path[i + 1].rank, limit)
  IN  path

zslGetElementByRank(zsl, rank) ==
  LET path == RankDescend(zsl, rank)
      found == {i \in DOMAIN path : path[i].rank = rank}
  IN  IF found = {} THEN NULL ELSE path[Max(found)].at

RECURSIVE DeleteCount(_, _, _)
DeleteCount(zsl, path, n) ==
  LET x == zsl.node[path[1].at].forward[1]
  IN  IF x = NULL \/ n = 0 THEN zsl ELSE DeleteCount(zslDeleteNode(zsl, x, path), path, n - 1)

\* Ranks are 1-based; nodes of rank < start are passed.
zslDeleteRangeByRank(zsl, start, end) ==
  DeleteCount(zsl, RankDescend(zsl, start - 1), end - start + 1)

-----------------------------------------------------------------------------
(* Ranges: of scores, or of elements when all scores are equal.            *)

RangeOver(dom) == [min : dom, max : dom, minex : BOOLEAN, maxex : BOOLEAN]
zslValueGteMin(v, range) == IF range.minex THEN v > range.min ELSE v >= range.min
zslValueLteMax(v, range) == IF range.maxex THEN v < range.max ELSE v <= range.max

\* key(x) is the score of a node, or the element itself for a range of elements.
KeyOf(zsl, x, bylex) == IF bylex THEN x ELSE zsl.node[x].score

zslIsInRange(zsl, range, bylex) ==
  LET first == zsl.node[HEADER].forward[1] IN
  /\ ~(range.min > range.max \/ (range.min = range.max /\ (range.minex \/ range.maxex)))
  /\ zsl.tail # NULL /\ zslValueGteMin(KeyOf(zsl, zsl.tail, bylex), range)
  /\ zslValueLteMax(KeyOf(zsl, first, bylex), range)

OutOfMin(zsl, range, bylex) ==
  {x \in InList(zsl) : ~zslValueGteMin(KeyOf(zsl, x, bylex), range)}

zslFirstInRange(zsl, range, bylex) ==
  LET x == zsl.node[Descend(zsl, OutOfMin(zsl, range, bylex))[1].at].forward[1]
  IN  IF ~zslIsInRange(zsl, range, bylex) \/ ~zslValueLteMax(KeyOf(zsl, x, bylex), range)
        THEN NULL ELSE x

zslLastInRange(zsl, range, bylex) ==
  LET S == {x \in InList(zsl) : zslValueLteMax(KeyOf(zsl, x, bylex), range)}
      x == Descend(zsl, S)[1].at
  IN  IF ~zslIsInRange(zsl, range, bylex) \/ ~zslValueGteMin(KeyOf(zsl, x, bylex), range)
        THEN NULL ELSE x

\* zslDeleteRangeByScore and zslDeleteRangeByLex.
zslDeleteRange(zsl, range, bylex) ==
  LET S == {x \in InList(zsl) : zslValueLteMax(KeyOf(zsl, x, bylex), range)}
  IN  DeleteWhile(zsl, Descend(zsl, OutOfMin(zsl, range, bylex)), S)

\* ZCOUNT on a skip list: from the ranks of the first and the last node in range.
zslCount(zsl, range) ==
  LET first == zslFirstInRange(zsl, range, FALSE)
      last == zslLastInRange(zsl, range, FALSE)
      rank(x) == zslGetRank(zsl, zsl.node[x].score, x)
  IN  IF first = NULL THEN 0
      ELSE zsl.length - (rank(first) - 1) - (IF last = NULL THEN 0 ELSE zsl.length - rank(last))

-----------------------------------------------------------------------------
(* The object.  The pairs of the ziplist are in order.                     *)

NoKey == [enc |-> "none", zl |-> <<>>, zsl |-> zslCreate, dict |-> <<>>]
EmptyZiplist == [NoKey EXCEPT !.enc = "ziplist"]
EmptySkiplist == [NoKey EXCEPT !.enc = "skiplist"]

zzlElements(zl) == [i \in DOMAIN zl |-> zl[i].ele]
zzlFind(zl, e) == {i \in DOMAIN zl : zl[i].ele = e}

\* In front of the first pair that is greater, or at the tail.
zzlInsert(zl, e, score) ==
  LET later == {i \in DOMAIN zl : Before(score, e, zl[i].score, zl[i].ele)}
      at == IF later = {} THEN Len(zl) + 1 ELSE Min(later)
  IN  InsertAt(zl, at, [ele |-> e, score |-> score])

zzlDelete(zl, e) == SelectSeq(zl, LAMBDA p : p.ele # e)

\* zzlDeleteRangeByScore and zzlDeleteRangeByLex start at the first pair in range and stop
\* at the first one past the maximum.
zzlDeleteRange(zl, range, bylex) ==
  LET key(i) == IF bylex THEN zl[i].ele ELSE zl[i].score
      low == {i \in DOMAIN zl : zslValueGteMin(key(i), range)}
      high == {i \in DOMAIN zl : i >= Min(low) /\ ~zslValueLteMax(key(i), range)}
      end == IF high = {} THEN Len(zl) ELSE Min(high) - 1
  IN  IF low = {} THEN zl ELSE SubSeq(zl, 1, Min(low) - 1) \o SubSeq(zl, end + 1, Len(zl))

zsetLength(z) == IF z.enc = "skiplist" THEN z.zsl.length ELSE Len(z.zl)

\* Ziplist to skip list; levels[e] is the random level of each node.
zsetConvert(z, levels) ==
  LET add(zs, p) == [zs EXCEPT !.zsl = zslInsert(@, p.score, p.ele, levels[p.ele]),
                               !.dict = [x \in DOMAIN @ \cup {p.ele} |->
                                           IF x = p.ele THEN p.score ELSE @[x]]]
  IN  FoldLeft(add, EmptySkiplist, z.zl)

\* dbDelete once the set is empty.
Emptied(z) == IF zsetLength(z) = 0 THEN NoKey ELSE z

zsetScore(z, e) ==
  IF z.enc = "skiplist" THEN z.dict[e] ELSE z.zl[CHOOSE i \in zzlFind(z.zl, e) : TRUE].score

Has(z, e) == IF z.enc = "skiplist" THEN e \in DOMAIN z.dict ELSE zzlFind(z.zl, e) # {}

\* The score zsetAdd gives to e, or its current one when an option forbids the change.
NewScore(cur, score, flags) ==
  LET s == IF "incr" \in flags THEN cur + score ELSE score
  IN  IF "nx" \in flags \/ ("lt" \in flags /\ s >= cur) \/ ("gt" \in flags /\ s <= cur)
        THEN cur ELSE s

zsetAdd(z, score, e, flags, levels) ==
  IF Has(z, e)
  THEN LET cur == zsetScore(z, e)
           new == NewScore(cur, score, flags)
       IN  IF new = cur THEN z
           ELSE IF z.enc = "ziplist" THEN [z EXCEPT !.zl = zzlInsert(zzlDelete(@, e), e, new)]
           ELSE [z EXCEPT !.zsl = zslUpdateScore(@, cur, e, new, levels[e]), !.dict[e] = new]
  ELSE IF "xx" \in flags THEN z
  ELSE IF z.enc = "ziplist"
  THEN LET longer == [z EXCEPT !.zl = zzlInsert(@, e, score)]
       IN  IF Len(longer.zl) > MaxEntries \/ e \in Long THEN zsetConvert(longer, levels) ELSE longer
  ELSE [z EXCEPT !.zsl = zslInsert(@, score, e, levels[e]),
                 !.dict = [x \in DOMAIN @ \cup {e} |-> IF x = e THEN score ELSE @[x]]]

\* The hash table first, then the skip list by the score found in it.
zsetDel(z, e) ==
  IF ~Has(z, e) THEN z
  ELSE IF z.enc = "ziplist" THEN [z EXCEPT !.zl = zzlDelete(@, e)]
  ELSE [z EXCEPT !.zsl = zslDelete(@, z.dict[e], e), !.dict = [x \in DOMAIN @ \ {e} |-> @[x]]]

\* What is left of the hash table after the skip list dropped a range.
DropRange(z, zsl) == [z EXCEPT !.zsl = zsl, !.dict = [x \in InList(zsl) |-> @[x]]]

-----------------------------------------------------------------------------
(* Commands.                                                               *)

Init == zobj = NoKey /\ ref = <<>>

zaddGenericCommand(e, score, flags, levels) ==
  LET start == IF zobj.enc # "none" THEN zobj
               ELSE IF MaxEntries = 0 \/ e \in Long THEN EmptySkiplist ELSE EmptyZiplist
      new == IF e \in DOMAIN ref THEN NewScore(ref[e], score, flags) ELSE score
  IN  /\ zobj.enc = "none" => "xx" \notin flags
      /\ new \in Scores
      /\ zobj' = zsetAdd(start, score, e, flags, levels)
      /\ ref' = IF e \notin DOMAIN ref /\ "xx" \in flags THEN ref
                ELSE [x \in DOMAIN ref \cup {e} |-> IF x = e THEN new ELSE ref[x]]

Without(S) == [x \in DOMAIN ref \ S |-> ref[x]]

zremCommand(e) ==
  /\ zobj.enc # "none"
  /\ zobj' = Emptied(zsetDel(zobj, e))
  /\ ref' = Without({e})

\* ZREMRANGEBYSCORE, and ZREMRANGEBYLEX, whose result is specified for equal scores only.
ZRemRange(range, bylex) ==
  /\ zobj.enc # "none"
  /\ bylex => \A x, y \in DOMAIN ref : ref[x] = ref[y]
  /\ zobj' = Emptied(IF zobj.enc = "ziplist"
                       THEN [zobj EXCEPT !.zl = zzlDeleteRange(@, range, bylex)]
                       ELSE DropRange(zobj, zslDeleteRange(zobj.zsl, range, bylex)))
  /\ ref' = Without({x \in DOMAIN ref : LET k == IF bylex THEN x ELSE ref[x]
                                       IN  zslValueGteMin(k, range) /\ zslValueLteMax(k, range)})

\* The elements in order.
Ordered ==
  SetToSortSeq(DOMAIN ref, LAMBDA x, y : Before(ref[x], x, ref[y], y))

\* Negative indexes count from the end.
ZRemRangeByRank(start, end) ==
  LET llen == zsetLength(zobj)
      from == Max({0, IF start < 0 THEN llen + start ELSE start})
      last == IF end < 0 THEN llen + end ELSE end
      to == Min({last, llen - 1})
  IN  /\ zobj.enc # "none"
      /\ from <= last /\ from < llen
      /\ zobj' = Emptied(IF zobj.enc = "ziplist"
                           THEN [zobj EXCEPT !.zl = SubSeq(@, 1, from) \o SubSeq(@, to + 2, llen)]
                           ELSE DropRange(zobj, zslDeleteRangeByRank(zobj.zsl, from + 1, to + 1)))
      /\ ref' = Without({Ordered[i + 1] : i \in from..to})

\* ZPOPMIN and ZPOPMAX.
genericZpopCommand(max) ==
  LET e == IF zobj.enc = "ziplist"
             THEN IF max THEN Last(zobj.zl).ele ELSE Head(zobj.zl).ele
             ELSE IF max THEN zobj.zsl.tail ELSE zobj.zsl.node[HEADER].forward[1]
  IN  /\ zobj.enc # "none"
      /\ zobj' = Emptied(zsetDel(zobj, e))
      /\ ref' = Without({IF max THEN Last(Ordered) ELSE Head(Ordered)})

Bounds(bylex) == IF bylex THEN Elements ELSE Scores

Next ==
  \/ \E e \in Elements : zremCommand(e) \/
       \E score \in Scores, flags \in FlagSets, l \in 1..MaxLevel :
       \E m \in IF zobj.enc = "skiplist" THEN {l} ELSE 1..MaxLevel :
         zaddGenericCommand(e, score, flags, [x \in Elements |-> IF x = e THEN l ELSE m])
  \/ \E bylex \in BOOLEAN : \E range \in RangeOver(Bounds(bylex)) : ZRemRange(range, bylex)
  \/ \E start, end \in -2..2 : ZRemRangeByRank(start, end)
  \/ \E max \in BOOLEAN : genericZpopCommand(max)

Spec == Init /\ [][Next]_zsetVars

-----------------------------------------------------------------------------
\* The chain of level i, from the header.
RECURSIVE Level(_, _, _)
Level(zsl, i, x) == IF x = NULL THEN <<>> ELSE <<x>> \o Level(zsl, i, zsl.node[x].forward[i])

\* Level 1 holds every element in order, and each level above is a sublist of it whose
\* spans count the elements passed; backward pointers, tail, length and level agree.
SkiplistWellFormed ==
  zobj.enc = "skiplist" =>
    LET zsl == zobj.zsl
        order == Ordered
        rank(x) == IF x = HEADER THEN 0 ELSE IF x = NULL THEN Len(order)
                   ELSE CHOOSE i \in DOMAIN order : order[i] = x
        n == zsl.node
    IN  /\ Level(zsl, 1, n[HEADER].forward[1]) = order
        /\ \A x \in DOMAIN n, i \in 1..zsl.level :
             i \in DOMAIN n[x].forward =>
               /\ n[x].span[i] = rank(n[x].forward[i]) - rank(x)
               /\ \A y \in InList(zsl) :
                    i \in DOMAIN n[y].forward /\ rank(x) < rank(y) =>
                      n[x].forward[i] # NULL /\ rank(n[x].forward[i]) <= rank(y)
        /\ \A i \in DOMAIN order : n[order[i]].backward = IF i = 1 THEN NULL ELSE order[i - 1]
        /\ zsl.tail = Last(order) /\ zsl.length = Len(order)
        /\ zsl.level = Max({Len(n[x].forward) : x \in InList(zsl)})

\* Both encodings hold exactly the elements and scores that the commands gave, whatever
\* encoding the set went through, and the hash table of a skip list agrees with it.
HoldsTheScores ==
  CASE zobj.enc = "none" -> ref = <<>>
    [] zobj.enc = "ziplist" ->
         /\ zzlElements(zobj.zl) = Ordered
         /\ \A i \in DOMAIN zobj.zl : zobj.zl[i].score = ref[zobj.zl[i].ele]
         /\ Len(zobj.zl) <= MaxEntries /\ ToSet(zzlElements(zobj.zl)) \cap Long = {}
    [] OTHER ->
         /\ zobj.dict = ref
         /\ \A e \in DOMAIN ref : zobj.zsl.node[e].score = ref[e]

\* ZRANK and ZRANGE by rank: an element's rank is its place in the order, and the element
\* of a rank is the one at that place.
RanksAreExact ==
  zobj.enc = "skiplist" =>
    \A i \in DOMAIN Ordered : /\ zslGetRank(zobj.zsl, ref[Ordered[i]], Ordered[i]) = i
                             /\ zslGetElementByRank(zobj.zsl, i) = Ordered[i]

\* ZCOUNT, computed from two ranks, is the number of scores in the range.
CountIsExact ==
  zobj.enc = "skiplist" =>
    \A range \in RangeOver(Scores) :
      zslCount(zobj.zsl, range) =
        Cardinality({e \in DOMAIN ref : /\ zslValueGteMin(ref[e], range)
                                        /\ zslValueLteMax(ref[e], range)})
==============================================================================
