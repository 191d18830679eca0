-------------------------------- MODULE Rax --------------------------------
(***************************************************************************)
(* The radix tree of rax.c: the map from byte strings to pointers behind   *)
(* streams, the cluster's slot index, client IDs, tracking tables and the  *)
(* consumer groups' pending lists.                                         *)
(*                                                                         *)
(* A node is a record: `data' holds the edge characters of a normal node,  *)
(* one child for each, or the characters of a compressed node, which has   *)
(* one child.  A pointer to a node is the sequence of child positions that *)
(* leads to it, so that the raxStack of parents is the prefixes of that    *)
(* sequence.  The layout of a node in memory is not modelled.  Redis       *)
(* builds rax.c over zmalloc, which aborts when memory runs out: the paths *)
(* that handle a failed allocation cannot be taken.  Keys are shorter than *)
(* RAX_NODE_MAX_SIZE.                                                      *)
(***************************************************************************)
EXTENDS Naturals, Sequences, SequencesExt, FiniteSets

CONSTANTS Keys,     \* the strings inserted and removed, sequences of numbers
          Probes,   \* the strings iterators are sought at
          Values,   \* the pointers stored, Null possibly among them
          Null      \* the NULL pointer

VARIABLES head,     \* the root node
          numele,
          numnodes,
          stored    \* what the calls so far should have left: key -> value

vars == <<head, numele, numnodes, stored>>

raxNewNode ==
  [iskey |-> FALSE, val |-> Null, iscompr |-> FALSE,
   data |-> <<>>, kids |-> <<>>]

raxSetData(n, v) == [n EXCEPT !.iskey = TRUE, !.val = v]
Size(n) == Len(n.data)
Single(n) == n.iscompr \/ Size(n) = 1

RECURSIVE At(_, _), Put(_, _, _), NodeCount(_)
At(n, path) ==
  IF path = <<>> THEN n ELSE At(n.kids[Head(path)], Tail(path))
Put(n, path, new) ==
  IF path = <<>> THEN new
  ELSE [n EXCEPT !.kids[Head(path)] = Put(n.kids[Head(path)], Tail(path), new)]
NodeCount(n) ==
  1 + FoldLeft(LAMBDA acc, k : acc + NodeCount(k), 0, n.kids)

----------------------------------------------------------------------------
(* Lookup.                                                                 *)

\* How many characters of s after the first i agree with the string d.
Agreeing(d, s, i) ==
  CHOOSE j \in 0..Len(d) :
    /\ i + j <= Len(s)
    /\ \A k \in 1..j : d[k] = s[i + k]
    /\ j = Len(d) \/ i + j = Len(s) \/ d[j + 1] # s[i + j + 1]

\* i characters were consumed and the walk stopped at `path', j characters
\* into it when that node is compressed.
RECURSIVE WalkFrom(_, _, _, _)
WalkFrom(n, s, i, path) ==
  IF n.data = <<>> \/ i = Len(s) THEN [i |-> i, path |-> path, j |-> 0]
  ELSE IF n.iscompr
       THEN LET j == Agreeing(n.data, s, i)
            IN IF j # Size(n) THEN [i |-> i + j, path |-> path, j |-> j]
               ELSE WalkFrom(n.kids[1], s, i + j, Append(path, 1))
       ELSE IF \A k \in 1..Size(n) : n.data[k] # s[i + 1]
            THEN [i |-> i, path |-> path, j |-> 0]
            ELSE LET k == CHOOSE k \in 1..Size(n) : n.data[k] = s[i + 1]
                 IN WalkFrom(n.kids[k], s, i + 1, Append(path, k))

raxLowWalk(t, s) == WalkFrom(t, s, 0, <<>>)

\* The walk ended at a node that stands for the whole string.
Exact(w, s) == w.i = Len(s) /\ w.j = 0

raxFind(t, s) ==
  LET w == raxLowWalk(t, s)
      h == At(t, w.path)
  IN IF Exact(w, s) /\ h.iskey THEN <<h.val>> ELSE <<>>

----------------------------------------------------------------------------
(* Insertion.                                                              *)

raxAddChild(n, c, child) ==
  LET pos == Cardinality({k \in 1..Size(n) : n.data[k] <= c}) + 1
  IN [n EXCEPT !.data = InsertAt(n.data, pos, c),
               !.kids = InsertAt(n.kids, pos, child)]

raxCompressNode(n, s, child) ==
  [n EXCEPT !.iscompr = TRUE, !.data = s, !.kids = <<child>>]

\* The missing nodes for the characters left, below a node without a child
\* for the first of them.
RECURSIVE Grow(_, _, _)
Grow(h, rest, v) ==
  IF rest = <<>> THEN raxSetData(h, v)
  ELSE IF h.data = <<>> /\ Len(rest) > 1
       THEN raxCompressNode(h, rest, raxSetData(raxNewNode, v))
       ELSE raxAddChild(h, Head(rest), Grow(raxNewNode, Tail(rest), v))

\* A piece of a split compressed node: one character alone is a normal edge.
Piece(s, child) ==
  [raxNewNode EXCEPT !.iscompr = Len(s) > 1, !.data = s, !.kids = <<child>>]

KeyOf(n, h) == [n EXCEPT !.iskey = h.iskey, !.val = h.val]

\* Algorithm 1: the string leaves the compressed node h after j characters.
SplitNode(h, j, rest, v) ==
  LET postfix == IF j + 1 = Size(h) THEN h.kids[1]
                 ELSE Piece(SubSeq(h.data, j + 2, Size(h)), h.kids[1])
      split   == Piece(<<h.data[j + 1]>>, postfix)
  IN IF j = 0 THEN Grow(KeyOf(split, h), rest, v)
     ELSE KeyOf(Piece(SubSeq(h.data, 1, j), Grow(split, rest, v)), h)

\* Algorithm 2: the string ends after j characters of the compressed node h.
CutNode(h, j, v) ==
  KeyOf(Piece(SubSeq(h.data, 1, j),
              raxSetData(Piece(SubSeq(h.data, j + 1, Size(h)), h.kids[1]), v)),
        h)

\* The nodes the insertion adds, counted as the code counts them.
NodesAdded(h, w, len) ==
  LET left  == len - w.i
      grown == IF left = 0 THEN 0
               ELSE IF h.data = <<>> /\ left > 1 THEN 1
               ELSE IF left > 2 THEN 2 ELSE left
  IN IF Exact(w, [k \in 1..len |-> 0]) THEN 0
     ELSE IF h.iscompr /\ left > 0
          THEN (IF w.j > 0 THEN 1 ELSE 0)
               + (IF w.j + 1 < Size(h) THEN 1 ELSE 0) + grown
     ELSE IF h.iscompr THEN 1
     ELSE grown

raxGenericInsert(t, s, v, overwrite) ==
  LET w == raxLowWalk(t, s)
      h == At(t, w.path)
      rest == SubSeq(s, w.i + 1, Len(s))
      new == IF Exact(w, s)
             THEN IF h.iskey /\ ~overwrite THEN h ELSE raxSetData(h, v)
             ELSE IF h.iscompr /\ w.i # Len(s) THEN SplitNode(h, w.j, rest, v)
             ELSE IF h.iscompr THEN CutNode(h, w.j, v)
             ELSE Grow(h, rest, v)
  IN [tree |-> Put(t, w.path, new), nodes |-> NodesAdded(h, w, Len(s)),
      inserted |-> ~(Exact(w, s) /\ h.iskey)]

----------------------------------------------------------------------------
(* Removal.                                                                *)

raxRemoveChild(n, k) ==
  IF n.iscompr
  THEN [n EXCEPT !.iscompr = FALSE, !.data = <<>>, !.kids = <<>>]
  ELSE [n EXCEPT !.data = RemoveAt(n.data, k), !.kids = RemoveAt(n.kids, k)]

\* Mutant: only the node of the key is freed, not the chain above it.
FreeOne(t, path) == Front(path)

\* The parent at which freeing the childless nodes above `path' stops.
RECURSIVE FreeUp(_, _)
FreeUp(t, path) ==
  LET up == Front(path)
      h  == At(t, up)
  IN IF up = <<>> \/ h.iskey \/ ~Single(h) THEN up ELSE FreeUp(t, up)

\* The highest node of the compressible chain that `path' is in.
RECURSIVE ChainTop(_, _)
ChainTop(t, path) ==
  IF path = <<>> THEN path
  ELSE LET parent == At(t, Front(path))
       IN IF parent.iskey \/ ~Single(parent) THEN path
          ELSE ChainTop(t, Front(path))

\* The characters of the chain that starts at h, its nodes, and what follows.
RECURSIVE ScanChain(_, _, _)
ScanChain(h, chars, nodes) ==
  LET next == Last(h.kids)
      more == chars \o h.data
  IN IF next.iskey \/ ~Single(next)
     THEN [chars |-> more, nodes |-> nodes + 1, next |-> next]
     ELSE ScanChain(next, more, nodes + 1)

Recompress(t, path) ==
  LET top   == ChainTop(t, path)
      chain == ScanChain(At(t, top), <<>>, 0)
  IN IF chain.nodes > 1
     THEN [tree |-> Put(t, top, raxCompressNode(raxNewNode, chain.chars, chain.next)),
           freed |-> chain.nodes - 1]
     ELSE [tree |-> t, freed |-> 0]


raxRemove(t, s) ==
  LET w == raxLowWalk(t, s)
      h == At(t, w.path)
      unkeyed == Put(t, w.path, [h EXCEPT !.iskey = FALSE, !.val = Null])
      Freed(up) == Len(w.path) - Len(up)
  IN IF ~(Exact(w, s) /\ h.iskey)
     THEN [tree |-> t, freed |-> 0, removed |-> FALSE]
     ELSE IF Size(h) = 0 /\ w.path # <<>>
     THEN LET up   == FreeUp(unkeyed, w.path)
              new  == raxRemoveChild(At(unkeyed, up), w.path[Len(up) + 1])
              cut  == Put(unkeyed, up, new)
              done == Recompress(cut, up)
          IN IF Size(new) = 1 /\ ~new.iskey
             THEN [tree |-> done.tree, freed |-> Freed(up) + done.freed, removed |-> TRUE]
             ELSE [tree |-> cut, freed |-> Freed(up), removed |-> TRUE]
     ELSE IF Size(h) = 1
     THEN LET done == Recompress(unkeyed, w.path)
          IN [tree |-> done.tree, freed |-> done.freed, removed |-> TRUE]
     ELSE [tree |-> unkeyed, freed |-> 0, removed |-> TRUE]

----------------------------------------------------------------------------
(* Iterators: the key spelled so far, the node, and the two flags.         *)

raxStart == [eof |-> TRUE, just |-> FALSE, key |-> <<>>, path |-> <<>>]

Chars(n, k) == IF n.iscompr THEN n.data ELSE <<n.data[k]>>

Enter(t, it, k) ==
  [it EXCEPT !.key = @ \o Chars(At(t, it.path), k), !.path = Append(@, k)]

raxIteratorDelChars(it, n) ==
  [it EXCEPT !.key = SubSeq(@, 1, Len(@) - (IF n.iscompr THEN Size(n) ELSE 1))]

\* The position of the first edge after character c, or 0.
EdgeAfter(n, c) ==
  IF \E k \in 1..Size(n) : n.data[k] > c
  THEN CHOOSE k \in 1..Size(n) :
         n.data[k] > c /\ \A i \in 1..(k - 1) : n.data[i] <= c
  ELSE 0

\* The position of the last edge before character c, or 0.
EdgeBefore(n, c) ==
  IF \E k \in 1..Size(n) : n.data[k] < c
  THEN CHOOSE k \in 1..Size(n) :
         n.data[k] < c /\ \A i \in (k + 1)..Size(n) : n.data[i] >= c
  ELSE 0


RECURSIVE Deeper(_, _, _), NextUp(_, _, _, _), PrevUp(_, _, _, _),
          raxSeekGreatest(_, _)
Deeper(t, it, orig) ==
  IF At(t, it.path).kids = <<>> THEN NextUp(t, it, FALSE, orig)
  ELSE LET in == Enter(t, it, 1)
       IN IF At(t, in.path).iskey THEN in ELSE Deeper(t, in, orig)

\* One turn of either upward loop goes to the parent unless noup is set, drops
\* the characters of the edge left, and looks for another child.
GoUp(t, it, noup) ==
  LET up == IF noup THEN it.path ELSE Front(it.path)
  IN raxIteratorDelChars([it EXCEPT !.path = up], At(t, up))

HasOther(n, noup) == ~n.iscompr /\ Size(n) > (IF noup THEN 0 ELSE 1)

NextUp(t, it, noup, orig) ==
  IF ~noup /\ it.path = <<>> THEN [orig EXCEPT !.eof = TRUE]
  ELSE LET up == GoUp(t, it, noup)
           n  == At(t, up.path)
           k  == EdgeAfter(n, Last(it.key))
           in == Enter(t, up, k)
       IN IF HasOther(n, noup) /\ k # 0
          THEN IF At(t, in.path).iskey THEN in ELSE Deeper(t, in, orig)
          ELSE NextUp(t, up, FALSE, orig)

raxSeekGreatest(t, it) ==
  LET n == At(t, it.path)
  IN IF Size(n) = 0 THEN it
     ELSE raxSeekGreatest(t, Enter(t, it, Len(n.kids)))

PrevUp(t, it, noup, orig) ==
  IF ~noup /\ it.path = <<>> THEN [orig EXCEPT !.eof = TRUE]
  ELSE LET up == GoUp(t, it, noup)
           n  == At(t, up.path)
           k  == EdgeBefore(n, Last(it.key))
           to == IF HasOther(n, noup) /\ k # 0
                 THEN raxSeekGreatest(t, Enter(t, up, k)) ELSE up
       IN IF At(t, to.path).iskey THEN to ELSE PrevUp(t, to, FALSE, orig)

raxIteratorNextStep(t, it, noup) ==
  IF it.eof THEN it
  ELSE IF it.just THEN [it EXCEPT !.just = FALSE]
  ELSE IF noup THEN NextUp(t, it, TRUE, it) ELSE Deeper(t, it, it)

raxIteratorPrevStep(t, it, noup) ==
  IF it.eof THEN it
  ELSE IF it.just THEN [it EXCEPT !.just = FALSE]
  ELSE PrevUp(t, it, noup, it)

\* A seek that found no exact match: the string ele and the walk w for it.
SeekOff(t, gt, ele, w) ==
  LET n  == At(t, w.path)
      it == [eof |-> FALSE, just |-> FALSE, path |-> w.path,
             key |-> SubSeq(ele, 1, w.i - w.j)]
      off(c) == [it EXCEPT !.key = @ \o c]
      Go(i, noup) == IF gt THEN raxIteratorNextStep(t, i, noup)
                     ELSE raxIteratorPrevStep(t, i, noup)
      sought ==
        IF w.i # Len(ele) /\ ~n.iscompr THEN Go(off(<<ele[w.i + 1]>>), TRUE)
        ELSE IF w.i # Len(ele)
        THEN IF gt
             THEN IF n.data[w.j + 1] > ele[w.i + 1] THEN Go(it, FALSE)
                  ELSE Go(off(n.data), TRUE)
             ELSE IF n.data[w.j + 1] < ele[w.i + 1] THEN raxSeekGreatest(t, it)
                  ELSE Go(off(n.data), TRUE)
        ELSE IF n.iscompr /\ n.iskey /\ w.j # 0 /\ ~gt THEN it
        ELSE Go(it, FALSE)
  IN [sought EXCEPT !.just = TRUE]

raxSeek(t, op, s) ==
  LET ele  == IF op = "^" THEN <<>> ELSE s
      eq   == op \in {">=", "<=", "=", "^"}
      w    == raxLowWalk(t, ele)
      h    == At(t, w.path)
      at   == [eof |-> FALSE, just |-> TRUE, key |-> <<>>, path |-> <<>>]
  IN IF NodeCount(t) = 1 /\ ~t.iskey THEN [at EXCEPT !.eof = TRUE]
     ELSE IF op = "$" THEN raxSeekGreatest(t, at)
     ELSE IF eq /\ Exact(w, ele) /\ h.iskey
     THEN [at EXCEPT !.key = ele, !.path = w.path]
     ELSE IF op = "=" THEN [at EXCEPT !.eof = TRUE]
     ELSE SeekOff(t, op \in {">", ">=", "^"}, ele, w)

raxNext(t, it) == raxIteratorNextStep(t, it, FALSE)
raxPrev(t, it) == raxIteratorPrevStep(t, it, FALSE)

----------------------------------------------------------------------------
Init ==
  /\ head = raxNewNode
  /\ numele = 0
  /\ numnodes = 1
  /\ stored = <<>>

InsertKey(s, v, overwrite) ==
  LET r == raxGenericInsert(head, s, v, overwrite)
  IN /\ head' = r.tree
     /\ numnodes' = numnodes + r.nodes
     /\ numele' = IF r.inserted THEN numele + 1 ELSE numele
     /\ stored' = IF s \in DOMAIN stored /\ ~overwrite THEN stored
                  ELSE [k \in DOMAIN stored \cup {s} |->
                          IF k = s THEN v ELSE stored[k]]

RemoveKey(s) ==
  LET r == raxRemove(head, s)
  IN /\ head' = r.tree
     /\ numnodes' = numnodes - r.freed
     /\ numele' = IF r.removed THEN numele - 1 ELSE numele
     /\ stored' = [k \in DOMAIN stored \ {s} |-> stored[k]]

Next ==
  \/ \E s \in Keys, v \in Values, o \in BOOLEAN : InsertKey(s, v, o)
  \/ \E s \in Keys : RemoveKey(s)

Spec == Init /\ [][Next]_vars

----------------------------------------------------------------------------
(* Properties.                                                             *)

\* Whatever splits and merges the calls so far caused, raxFind answers for
\* every string exactly what was stored under it last, and for a string never
\* stored (a prefix inside a compressed node, say) that it is absent.
FindsWhatIsStored ==
  \A s \in Keys \cup Probes :
    raxFind(head, s) = IF s \in DOMAIN stored THEN <<stored[s]>> ELSE <<>>

\* The element and node counters, which raxFree asserts to reach zero and
\* raxSize reports, are the real numbers of keys and of nodes.
NodesAreCounted ==
  /\ numele = Cardinality(DOMAIN stored)
  /\ numnodes = NodeCount(head)

RECURSIVE Shaped(_, _)
Shaped(n, root) ==
  /\ Len(n.kids) = IF n.iscompr THEN 1 ELSE Size(n)
  /\ n.iscompr => Size(n) > 1
  /\ ~n.iscompr => \A i, j \in 1..Size(n) : i < j => n.data[i] < n.data[j]
  /\ ~root /\ n.kids = <<>> => n.iskey
  /\ \A k \in 1..Len(n.kids) : Shaped(n.kids[k], FALSE)

\* The children of a node stay in the order of their characters, a compressed
\* node has at least two characters, and a leaf is a key: no removal leaves a
\* dead branch behind.
WellShaped == Shaped(head, TRUE)

Less(a, b) ==
  \/ Len(a) < Len(b) /\ \A i \in 1..Len(a) : a[i] = b[i]
  \/ \E i \in 1..Len(a) : /\ i <= Len(b)
                          /\ a[i] < b[i]
                          /\ \A k \in 1..(i - 1) : a[k] = b[k]

InRange(op, k, s) ==
  CASE op = ">"  -> Less(s, k)
    [] op = ">=" -> k = s \/ Less(s, k)
    [] op = "<"  -> Less(k, s)
    [] op = "<=" -> k = s \/ Less(k, s)
    [] op = "="  -> k = s
    [] op \in {"^", "$"} -> TRUE

Backward(op) == op \in {"<", "<=", "$"}

\* What an iterator visits when it is stepped until EOF.
RECURSIVE Visited(_, _, _)
Visited(t, it, back) ==
  LET to == IF back THEN raxPrev(t, it) ELSE raxNext(t, it)
  IN IF to.eof THEN <<>> ELSE <<to.key>> \o Visited(t, to, back)

Lists(seq, keys, back) ==
  /\ Len(seq) = Cardinality(keys)
  /\ {seq[i] : i \in 1..Len(seq)} = keys
  /\ \A i \in 1..(Len(seq) - 1) :
       IF back THEN Less(seq[i + 1], seq[i]) ELSE Less(seq[i], seq[i + 1])

\* An iterator sought with any operator at any string, present or not, then
\* stepped to the end, visits exactly the stored keys on its side of the
\* string, each once, in lexicographic order, and its key is that of its node.
SeeksAreTrue ==
  \A op \in {">", ">=", "<", "<=", "^", "$"} :
    \A s \in IF op \in {"^", "$"} THEN {<<>>} ELSE Keys \cup Probes :
      Lists(Visited(head, raxSeek(head, op, s), Backward(op)),
            {k \in DOMAIN stored : InRange(op, k, s)}, Backward(op))

\* A node that could be merged with its child into one compressed node.
RECURSIVE Mergeable(_)
Mergeable(n) ==
  \/ Single(n) /\ ~n.iskey /\ Single(n.kids[1]) /\ ~n.kids[1].iskey
  \/ \E k \in 1..Len(n.kids) : Mergeable(n.kids[k])

\* After a deletion no chain of single-child nodes without keys is left: "if a
\* new chain of nodes having a single child is created ... it must be
\* compressed back into a single node" (rax.h:91-93).
ChainsAreCompressed == ~Mergeable(head)
=============================================================================
