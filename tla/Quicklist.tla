----------------------------- MODULE Quicklist -----------------------------
(***************************************************************************)
(* The Redis list value (quicklist.c and the commands of t_list.c): a       *)
(* doubly linked list of nodes, each a ziplist of at most Fill elements,    *)
(* whose inner nodes are kept LZF compressed.  A node [els, cnt, enc, rec]  *)
(* has the elements of its ziplist, its own count of them, its encoding and *)
(* the recompress flag.  Reading or changing the ziplist of a node that is  *)
(* compressed at that moment is undefined; `ok' records that it never       *)
(* happened.  `want' is the sequence the commands should have produced.     *)
(*                                                                          *)
(* Sizes are counted in elements: a positive list-max-ziplist-size, and     *)
(* MIN_COMPRESS_BYTES reached from MinCompress elements on.  The ziplist    *)
(* itself is module Ziplist.                                                *)
(***************************************************************************)
EXTENDS Integers, Sequences, SequencesExt, FiniteSetsExt

CONSTANTS Values,        \* element values
          Fill,          \* list-max-ziplist-size
          Depth,         \* list-compress-depth
          MinCompress,   \* elements that make a node worth compressing
          Commands,      \* the commands of the workload
          MaxElements    \* bound: elements in the list

VARIABLES ql,            \* [nodes, count, ok]
          want

listVars == <<ql, want>>

Node(els) == [els |-> els, cnt |-> Len(els), enc |-> "raw", rec |-> FALSE]

quicklistCompressNode(nd) ==
  IF nd.enc = "raw" /\ Len(nd.els) >= MinCompress
  THEN [nd EXCEPT !.enc = "lzf", !.rec = FALSE] ELSE nd

quicklistDecompressNode(nd) == [nd EXCEPT !.enc = "raw"]

quicklistDecompressNodeForUse(nd) ==
  IF nd.enc = "lzf" THEN [nd EXCEPT !.enc = "raw", !.rec = TRUE] ELSE nd

\* Decompress the first and the last Depth nodes; compress node k when it is
\* not one of them and, from depth 2 on, the two nodes just inside.  `len' is
\* quicklist->len, which lags behind the nodes during a change; k = 0 is NULL.
__quicklistCompress(nodes, len, k) ==
  LET n == Len(nodes)
      edge == {i \in 1..n : i <= Depth \/ i > n - Depth}
      raw == [i \in 1..n |-> IF i \in edge THEN quicklistDecompressNode(nodes[i])
                             ELSE nodes[i]]
      inner == (IF k \in edge THEN {} ELSE {k})
                 \cup (IF Depth >= 2 THEN {Depth + 1, n - Depth} ELSE {})
  IN IF Depth = 0 \/ len < 2 * Depth THEN nodes
     ELSE IF n < 2 * Depth THEN SubSeq(raw, 1, n)
     ELSE SubSeq([i \in 1..n |-> IF i \in inner THEN quicklistCompressNode(raw[i])
                                ELSE raw[i]], 1, n)

quicklistCompress(nodes, len, k) ==
  IF nodes[k].rec THEN [nodes EXCEPT ![k] = quicklistCompressNode(nodes[k])]
  ELSE __quicklistCompress(nodes, len, k)

quicklistRecompressOnly(nodes, k) ==
  IF nodes[k].rec THEN [nodes EXCEPT ![k] = quicklistCompressNode(nodes[k])] ELSE nodes

\* Link a new node after (or before) node `old'; old = 0: the list is empty.
__quicklistInsertNode(nodes, old, new, after) ==
  IF nodes = <<>> THEN <<new>>
  ELSE LET at == IF after THEN old + 1 ELSE old
           where == IF after THEN old ELSE old + 1
       IN quicklistCompress(InsertAt(nodes, at, new), Len(nodes), where)

__quicklistDelNode(q, k) ==
  [q EXCEPT !.nodes = __quicklistCompress(RemoveAt(q.nodes, k), Len(q.nodes), 0),
            !.count = @ - q.nodes[k].cnt]

_quicklistNodeAllowInsert(nodes, k) ==
  k \in 1..Len(nodes) /\ nodes[k].cnt < Fill

_quicklistNodeAllowMerge(nodes, a, b) ==
  /\ a \in 1..Len(nodes) /\ b \in 1..Len(nodes)
  /\ nodes[a].cnt + nodes[b].cnt <= Fill

\* The ziplist of node k becomes els; it must not be compressed.
SetZiplist(q, k, els, cnt) ==
  [q EXCEPT !.nodes = ReplaceAt(q.nodes, k, [q.nodes[k] EXCEPT !.els = els, !.cnt = cnt]),
            !.ok = @ /\ q.nodes[k].enc = "raw"]

-----------------------------------------------------------------------------
\* quicklistPushHead and quicklistPushTail.
quicklistPush(q, v, head) ==
  LET k == IF head THEN 1 ELSE Len(q.nodes)
      pushed ==
        IF _quicklistNodeAllowInsert(q.nodes, k)
        THEN SetZiplist(q, k, IF head THEN <<v>> \o q.nodes[k].els
                              ELSE Append(q.nodes[k].els, v), q.nodes[k].cnt + 1)
        ELSE [q EXCEPT !.nodes = __quicklistInsertNode(q.nodes, k, Node(<<v>>), ~head)]
  IN [pushed EXCEPT !.count = @ + 1]

\* Delete the element at position i of node k; the node goes with its last one.
quicklistDelIndex(q, k, i) ==
  LET cut == SetZiplist(q, k, RemoveAt(q.nodes[k].els, i), q.nodes[k].cnt - 1)
      left == IF cut.nodes[k].cnt = 0 THEN __quicklistDelNode(cut, k) ELSE cut
  IN [left EXCEPT !.count = @ - 1]

\* quicklistPopCustom.
quicklistPop(q, head) ==
  LET k == IF head THEN 1 ELSE Len(q.nodes)
  IN quicklistDelIndex(q, k, IF head THEN 1 ELSE Len(q.nodes[k].els))

\* The node and the position in it of the element at index idx >= 0, found by
\* the counts of the nodes.
RECURSIVE CountBefore(_, _)
CountBefore(nodes, k) ==
  IF k = 1 THEN 0 ELSE nodes[k - 1].cnt + CountBefore(nodes, k - 1)

quicklistIndex(q, idx) ==
  LET k == CHOOSE j \in 1..Len(q.nodes) :
             /\ CountBefore(q.nodes, j) <= idx
             /\ idx < CountBefore(q.nodes, j) + q.nodes[j].cnt
  IN [k |-> k, i |-> idx - CountBefore(q.nodes, k) + 1]

Use(q, k) == [q EXCEPT !.nodes[k] = quicklistDecompressNodeForUse(q.nodes[k])]

quicklistReplaceAtIndex(q, idx, v) ==
  LET p == quicklistIndex(q, idx)
      used == Use(q, p.k)
      set == SetZiplist(used, p.k, ReplaceAt(used.nodes[p.k].els, p.i, v), used.nodes[p.k].cnt)
  IN [set EXCEPT !.nodes = quicklistCompress(set.nodes, Len(set.nodes), p.k)]

\* Merge node a with the node b = a + 1 after it; the larger one is kept.
_quicklistZiplistMerge(q, a, b) ==
  LET x == quicklistDecompressNode(q.nodes[a])
      y == quicklistDecompressNode(q.nodes[b])
      keepA == Len(x.els) >= Len(y.els)
      both == x.els \o y.els
      keep == [(IF keepA THEN x ELSE y) EXCEPT !.els = both, !.cnt = Len(both)]
      joined == [q EXCEPT !.nodes[a] = IF keepA THEN keep ELSE [x EXCEPT !.cnt = 0],
                          !.nodes[b] = IF keepA THEN [y EXCEPT !.cnt = 0] ELSE keep]
      left == __quicklistDelNode(joined, IF keepA THEN b ELSE a)
  IN [left EXCEPT !.nodes = quicklistCompress(left.nodes, Len(left.nodes), a)]

MergeIfAllowed(q, a) ==
  IF _quicklistNodeAllowMerge(q.nodes, a, a + 1) THEN _quicklistZiplistMerge(q, a, a + 1) ELSE q

\* The centre with the node before it, then with the one after it.
MergeCentre(q, c) ==
  LET joined == MergeIfAllowed(q, c - 1)
  IN MergeIfAllowed(joined, c - (Len(q.nodes) - Len(joined.nodes)))

\* The two nodes before the centre, the two after it, then the centre with
\* each of its neighbours.
_quicklistMergeNodes(q, center) ==
  LET joined == MergeIfAllowed(q, center - 2)
      c == center - (Len(q.nodes) - Len(joined.nodes))
  IN MergeCentre(MergeIfAllowed(joined, c + 1), c)

\* Insert v after or before the element at position i of node k.
_quicklistInsert(q, k, i, v, after) ==
  LET nodes == q.nodes
      full == ~_quicklistNodeAllowInsert(nodes, k)
      at_head == ~after /\ i = 1
      els == nodes[k].els
      cut == IF after THEN i ELSE i - 1
      Put(r, j, s) == LET used == Use(r, j)
                          set == SetZiplist(used, j, s, used.nodes[j].cnt + 1)
                      IN [set EXCEPT !.nodes = quicklistRecompressOnly(set.nodes, j)]
      done ==
        IF ~full THEN Put(q, k, InsertAt(els, cut + 1, v))
        ELSE IF at_head /\ k > 1 /\ _quicklistNodeAllowInsert(nodes, k - 1)
        THEN Put(q, k - 1, Append(nodes[k - 1].els, v))
        ELSE IF at_head /\ k > 1
        THEN [q EXCEPT !.nodes = __quicklistInsertNode(q.nodes, k, Node(<<v>>), FALSE)]
        ELSE LET used == Use(q, k)
                 front == SubSeq(els, 1, cut)
                 back == SubSeq(els, cut + 1, Len(els))
                 split == SetZiplist(used, k, IF after THEN front ELSE back,
                                     Len(IF after THEN front ELSE back))
                 new == Node(IF after THEN <<v>> \o back ELSE Append(front, v))
                 two == [split EXCEPT !.nodes = __quicklistInsertNode(split.nodes, k, new, after)]
             IN _quicklistMergeNodes(two, IF after THEN k ELSE k + 1)
  IN [done EXCEPT !.count = @ + 1]

\* Delete `extent' elements from position i of node k on.  `tail': the caller
\* counted from the end, so the first node loses everything from i on.
RECURSIVE DelFrom(_, _, _, _, _)
DelFrom(q, k, i, extent, tail) ==
  IF extent = 0 THEN q
  ELSE LET cnt == q.nodes[k].cnt
           entire == ~tail /\ i = 1 /\ extent >= cnt
           del == IF entire THEN cnt
                  ELSE IF ~tail /\ extent >= cnt THEN cnt - (i - 1)
                  ELSE IF tail THEN Min({cnt - (i - 1), extent})
                  ELSE extent
           used == Use(q, k)
           els == used.nodes[k].els
           cut == SetZiplist(used, k, SubSeq(els, 1, i - 1) \o SubSeq(els, i + del, Len(els)),
                             cnt - del)
           less == [cut EXCEPT !.count = @ - del]
           empty == less.nodes[k].cnt = 0
       IN IF entire THEN DelFrom(__quicklistDelNode(q, k), k, 1, extent - del, FALSE)
          ELSE IF empty THEN DelFrom(__quicklistDelNode(less, k), k, 1, extent - del, FALSE)
          ELSE DelFrom([less EXCEPT !.nodes = quicklistRecompressOnly(less.nodes, k)],
                       k + 1, 1, extent - del, FALSE)

\* quicklistDelRange(ql, 0, n) and quicklistDelRange(ql, -n, n).
quicklistDelRange(q, n, tail) ==
  IF n <= 0 \/ q.count = 0 THEN q
  ELSE LET m == Min({n, q.count})
           p == quicklistIndex(q, IF tail THEN q.count - m ELSE 0)
       IN DelFrom(Use(q, p.k), p.k, p.i, m, tail)

-----------------------------------------------------------------------------
\* quicklistNext from node a to node b (b on the same side as dir): every node
\* that is left is compressed again, node b stays as the iterator leaves it.
\* listTypeReleaseIterator frees the iterator and compresses nothing.
RECURSIVE Walk(_, _, _, _)
Walk(q, a, b, dir) ==
  LET used == Use(q, a)
      met == [used EXCEPT !.ok = @ /\ used.nodes[a].enc = "raw"]
  IN IF a = b THEN met
     ELSE Walk([met EXCEPT !.nodes = quicklistCompress(met.nodes, Len(met.nodes), a)], a + dir, b, dir)

\* The iterator runs off the end at node b.
WalkOff(q, a, b, dir) ==
  LET w == Walk(q, a, b, dir) IN [w EXCEPT !.nodes = quicklistCompress(w.nodes, Len(w.nodes), b)]

\* LREM: delete up to `left' elements equal to v, walking with dir from
\* position i of node k (left = 0: all of them).
RECURSIVE LremFrom(_, _, _, _, _, _)
LremFrom(q, k, i, dir, v, left) ==
  IF k \notin 1..Len(q.nodes) THEN q
  ELSE LET used == Use(q, k)
           n == Len(used.nodes[k].els)
       IN IF i \notin 1..n
          THEN LET next == [used EXCEPT !.nodes = quicklistCompress(used.nodes, Len(used.nodes), k)]
               IN LremFrom(next, k + dir,
                         IF dir = 1 \/ k = 1 THEN 1 ELSE Len(q.nodes[k - 1].els), dir, v, left)
          ELSE IF used.nodes[k].els[i] # v THEN LremFrom(used, k, i + dir, dir, v, left)
          ELSE LET cut == quicklistDelIndex(used, k, i)
                   gone == n = 1
                   k2 == IF gone /\ dir = -1 THEN k - 1 ELSE k
                   i2 == IF gone THEN (IF dir = 1 \/ k = 1 THEN 1
                                       ELSE Len(cut.nodes[k - 1].els))
                         ELSE IF dir = 1 THEN i ELSE i - 1
               IN IF left = 1 THEN cut
                  ELSE LremFrom(cut, k2, i2, dir, v, IF left = 0 THEN 0 ELSE left - 1)

\* The same on a sequence.
RECURSIVE Without(_, _, _)
Without(s, v, left) ==
  IF s = <<>> THEN s
  ELSE IF Head(s) # v THEN <<Head(s)>> \o Without(Tail(s), v, left)
  ELSE IF left = 1 THEN Tail(s)
  ELSE Without(Tail(s), v, IF left = 0 THEN 0 ELSE left - 1)

\* quicklistDup: every node is copied as it is encoded and appended.
RECURSIVE DupNodes(_, _)
DupNodes(nodes, copied) ==
  IF nodes = <<>> THEN copied
  ELSE DupNodes(Tail(nodes),
                __quicklistInsertNode(copied, Len(copied), [Head(nodes) EXCEPT !.rec = FALSE], TRUE))

quicklistDup(q) == [q EXCEPT !.nodes = DupNodes(q.nodes, <<>>)]

-----------------------------------------------------------------------------
Init == ql = [nodes |-> <<>>, count |-> 0, ok |-> TRUE] /\ want = <<>>

\* LPUSH, RPUSH.
pushGenericCommand(v, head) ==
  /\ "push" \in Commands /\ Len(want) < MaxElements
  /\ ql' = quicklistPush(ql, v, head)
  /\ want' = IF head THEN <<v>> \o want ELSE Append(want, v)

\* LPOP, RPOP, without a count and with one.
popGenericCommand(head) ==
  /\ "pop" \in Commands /\ want # <<>>
  /\ ql' = quicklistPop(ql, head)
  /\ want' = IF head THEN Tail(want) ELSE Front(want)

PopCount(n, head) ==
  /\ "popcount" \in Commands /\ want # <<>>
  /\ LET m == Min({n, Len(want)})
         idx == IF head THEN 0 ELSE Len(want) - m
         from == quicklistIndex(ql, IF head THEN idx ELSE Len(want) - 1)
         to == quicklistIndex(ql, IF head THEN m - 1 ELSE idx)
         read == Walk(ql, from.k, to.k, IF head THEN 1 ELSE -1)
     IN /\ ql' = quicklistDelRange(read, m, ~head)
        /\ want' = IF head THEN SubSeq(want, m + 1, Len(want))
                   ELSE SubSeq(want, 1, Len(want) - m)

\* LTRIM, its arguments already turned into what goes on each side.
ltrimCommand(l, r) ==
  /\ "trim" \in Commands /\ want # <<>> /\ l + r <= Len(want)
  /\ ql' = quicklistDelRange(quicklistDelRange(ql, l, FALSE), r, TRUE)
  /\ want' = SubSeq(want, l + 1, Len(want) - r)

lsetCommand(idx, v) ==
  /\ "set" \in Commands /\ idx < Len(want)
  /\ ql' = quicklistReplaceAtIndex(ql, idx, v)
  /\ want' = ReplaceAt(want, idx + 1, v)

\* LINDEX leaves the node it read decompressed.
lindexCommand(idx) ==
  /\ "index" \in Commands /\ idx < Len(want)
  /\ ql' = Use(ql, quicklistIndex(ql, idx).k)
  /\ UNCHANGED want

\* LRANGE.
lrangeCommand(start, end) ==
  /\ "range" \in Commands /\ start <= end /\ end < Len(want)
  /\ ql' = Walk(ql, quicklistIndex(ql, start).k, quicklistIndex(ql, end).k, 1)
  /\ UNCHANGED want

\* LINSERT.
linsertCommand(pivot, v, after) ==
  /\ "insert" \in Commands /\ want # <<>> /\ Len(want) < MaxElements
  /\ IF pivot \in ToSet(want)
     THEN LET idx == SelectInSeq(want, LAMBDA w : w = pivot)
              p == quicklistIndex(ql, idx - 1)
          IN /\ ql' = _quicklistInsert(Walk(ql, 1, p.k, 1), p.k, p.i, v, after)
             /\ want' = InsertAt(want, IF after THEN idx + 1 ELSE idx, v)
     ELSE /\ ql' = WalkOff(ql, 1, Len(ql.nodes), 1)
          /\ UNCHANGED want

\* LREM.
lremCommand(v, count, dir) ==
  /\ "rem" \in Commands /\ want # <<>>
  /\ LET k == IF dir = 1 THEN 1 ELSE Len(ql.nodes)
     IN ql' = LremFrom(ql, k, IF dir = 1 THEN 1 ELSE Len(ql.nodes[k].els), dir, v, count)
  /\ want' = IF dir = 1 THEN Without(want, v, count)
             ELSE Reverse(Without(Reverse(want), v, count))

\* COPY: go on with the copy.
Copy ==
  /\ "copy" \in Commands /\ want # <<>>
  /\ ql' = quicklistDup(ql)
  /\ UNCHANGED want

Next ==
  \/ \E v \in Values, head \in BOOLEAN : pushGenericCommand(v, head)
  \/ \E head \in BOOLEAN : popGenericCommand(head)
  \/ \E n \in 1..3, head \in BOOLEAN : PopCount(n, head)
  \/ \E l, r \in 0..2 : ltrimCommand(l, r)
  \/ \E idx \in 0..(MaxElements - 1), v \in Values : lsetCommand(idx, v)
  \/ \E idx \in 0..(MaxElements - 1) : lindexCommand(idx)
  \/ \E start, end \in 0..(MaxElements - 1) : lrangeCommand(start, end)
  \/ \E pivot, v \in Values, after \in BOOLEAN : linsertCommand(pivot, v, after)
  \/ \E v \in Values, count \in 0..1, dir \in {1, -1} : lremCommand(v, count, dir)
  \/ Copy

Spec == Init /\ [][Next]_listVars

-----------------------------------------------------------------------------
\* The nodes, read in order, hold exactly the elements the commands should
\* have left, the count of every node and of the list is exact, no node is
\* empty and none holds more than list-max-ziplist-size elements, through
\* splits, merges, range deletions and deletions under an iterator.
HoldsTheList ==
  /\ FlattenSeq([k \in DOMAIN ql.nodes |-> ql.nodes[k].els]) = want
  /\ ql.count = Len(want)
  /\ \A k \in DOMAIN ql.nodes :
       /\ ql.nodes[k].cnt = Len(ql.nodes[k].els)
       /\ ql.nodes[k].cnt \in 1..Fill

\* No command ever reads or changes the ziplist of a node that is compressed
\* at that moment: the iterator, the index and the range deletion decompress
\* first, and pushes and pops rely on the ends being uncompressed.
NeverOnCompressed == ql.ok

\* redis.conf: the head and the tail of the list are always uncompressed.
EndsUncompressed ==
  ql.nodes # <<>> => Head(ql.nodes).enc = "raw" /\ Last(ql.nodes).enc = "raw"
=============================================================================
