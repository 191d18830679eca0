----------------------------- MODULE StreamLog -----------------------------
(***************************************************************************)
(* Redis: the entries of a stream (t_stream.c).                            *)
(*                                                                         *)
(* A stream is a sequence of nodes in the order of their keys (the radix   *)
(* tree), each a listpack: a flat sequence of integers with a master entry *)
(* (count, deleted, number of fields, the fields, 0) and then entries      *)
(* (flags, ms and seq relative to the key, fields and values, lp-count).   *)
(* A 64-bit number has the width Wide and an int the width Narrow.  A      *)
(* replica executes what XADD, XTRIM, XDEL and XSETID propagate, with its  *)
(* own stream-node-max-entries.                                            *)
(***************************************************************************)
EXTENDS Integers, Sequences, FiniteSets, SequencesExt, FiniteSetsExt

CONSTANTS Wide, Narrow,      \* 2^64 and 2^32
          NodeMax,           \* <<stream-node-max-entries of the master, of the replica>>
          NodeBytes,         \* stream-node-max-bytes, in listpack elements
          Ids,               \* the IDs clients give
          Times,             \* what mstime() returns
          Items,             \* the [f, v] fields and values clients give
          Trims,             \* the trimming options clients give
          Lowers,            \* whether XSETID may go below last_id
          MaxAdds            \* bound: entries added

VARIABLES s, r,      \* the stream of the master, and of the replica
          ref,       \* specification: the entries the stream holds, oldest first
          adds       \* entries added so far

logVars == <<s, r, ref, adds>>

MaxID == <<Wide - 1, Wide - 1>>
streamNew == [rax |-> <<>>, length |-> 0, last_id |-> <<0, 0>>]

Init == s = streamNew /\ r = streamNew /\ ref = <<>> /\ adds = 0

-----------------------------------------------------------------------------
(* IDs.                                                                    *)

streamCompareID(a, b) ==
  CASE a[1] > b[1] -> 1 [] a[1] < b[1] -> -1
    [] a[2] > b[2] -> 1 [] a[2] < b[2] -> -1 [] OTHER -> 0

Leq(a, b) == streamCompareID(a, b) <= 0

streamIncrID(id) ==
  IF id = MaxID THEN [ok |-> FALSE, id |-> <<0, 0>>]
  ELSE [ok |-> TRUE, id |-> IF id[2] = Wide - 1 THEN <<id[1] + 1, 0>> ELSE <<id[1], id[2] + 1>>]

streamDecrID(id) ==
  IF id = <<0, 0>> THEN [ok |-> FALSE, id |-> MaxID]
  ELSE [ok |-> TRUE, id |-> IF id[2] = 0 THEN <<id[1] - 1, Wide - 1>> ELSE <<id[1], id[2] - 1>>]

streamNextID(last, ms) == IF ms > last[1] THEN <<ms, 0>> ELSE streamIncrID(last).id

\* A number of the given width read as a signed one.
Signed(x, width) == ((x + width \div 2) % width) - width \div 2

Delta(id, master) == [i \in 1..2 |-> Signed(id[i] - master[i], Wide)]
Plus(master, delta) == [i \in 1..2 |-> (master[i] + delta[i]) % Wide]

-----------------------------------------------------------------------------
(* The listpack of a node.  SAMEFIELDS is 2 and DELETED is 1 in the flags.  *)

Same(flags) == flags \in {2, 3}
Deleted(flags) == flags \in {1, 3}
Marked(flags) == IF Deleted(flags) THEN flags ELSE flags + 1

MasterFields(lp) == SubSeq(lp, 4, 3 + lp[3])
FirstEntry(lp) == 5 + lp[3]

\* The entry whose flags are at p, as streamIteratorGetID and GetField read it.
EntryAt(node, p) ==
  LET lp == node.lp  same == Same(lp[p])
      n == IF same THEN lp[3] ELSE lp[p + 3]
      data == IF same THEN p + 3 ELSE p + 4
  IN [id |-> Plus(node.key, <<lp[p + 1], lp[p + 2]>>), flags |-> lp[p], at |-> p, key |-> node.key,
      item |-> IF same THEN [f |-> MasterFields(lp), v |-> SubSeq(lp, data, data + n - 1)]
               ELSE [f |-> [i \in 1..n |-> lp[data + 2 * i - 2]],
                     v |-> [i \in 1..n |-> lp[data + 2 * i - 1]]],
      next |-> data + (IF same THEN n ELSE 2 * n) + 1]

\* From the first entry to the last, skipping fields and values.
RECURSIVE Forward(_, _)
Forward(node, p) ==
  IF p > Len(node.lp) THEN <<>>
  ELSE LET e == EntryAt(node, p) IN <<e>> \o Forward(node, e.next)

\* From the lp-count at p back to the master entry's zero.
RECURSIVE Backward(_, _)
Backward(node, p) ==
  LET start == p - node.lp[p]
  IN IF node.lp[p] = 0 THEN <<>> ELSE <<EntryAt(node, start)>> \o Backward(node, start - 1)

NodeEntries(node) == Forward(node, FirstEntry(node.lp))

\* The ID of the first or the last entry, deleted or not.
lpGetEdgeStreamID(node, first) ==
  IF first THEN EntryAt(node, FirstEntry(node.lp)).id
  ELSE EntryAt(node, Len(node.lp) - node.lp[Len(node.lp)]).id

streamGetEdgeID(t, first) ==
  IF t.rax = <<>> THEN IF first THEN MaxID ELSE <<0, 0>>
  ELSE lpGetEdgeStreamID(IF first THEN Head(t.rax) ELSE Last(t.rax), first)

\* raxInsert: a new key goes in its place, an old one gets the new listpack.
raxInsert(rax, node) ==
  LET below == SelectSeq(rax, LAMBDA n : streamCompareID(n.key, node.key) < 0)
      above == SelectSeq(rax, LAMBDA n : streamCompareID(n.key, node.key) > 0)
  IN below \o <<node>> \o above

\* raxSeek "<=": the last node whose key is not above the ID, or the end of the tree.
Seek(rax, id, none) ==
  LET leq == {i \in DOMAIN rax : Leq(rax[i].key, id)} IN IF leq = {} THEN none ELSE Max(leq)

\* The node the iterator starts from, and the entries it walks over, the deleted included.
FirstNode(rax, start, end, rev) ==
  IF ~rev THEN Seek(rax, start, 1)
  ELSE IF end = <<0, 0>> THEN Len(rax) ELSE Seek(rax, end, Len(rax))

Walk(rax, from, rev) ==
  IF rev THEN FlattenSeq([i \in 1..from |-> Backward(rax[from - i + 1], Len(rax[from - i + 1].lp))])
  ELSE FlattenSeq([i \in 1..Len(rax) - from + 1 |-> NodeEntries(rax[from + i - 1])])

\* Those before the first one past the end.
UntilPast(es, start, end, rev) ==
  LET out == {i \in DOMAIN es : IF rev THEN ~Leq(start, es[i].id) ELSE ~Leq(es[i].id, end)}
  IN SubSeq(es, 1, Min(out \cup {Len(es) + 1}) - 1)

\* The entries the iterator returns: live, from start on, until one is past the end.
streamIterator(t, start, end, rev) ==
  IF t.rax = <<>> THEN <<>>
  ELSE UntilPast(SelectSeq(Walk(t.rax, FirstNode(t.rax, start, end, rev), rev),
                           LAMBDA e : /\ ~Deleted(e.flags)
                                      /\ IF rev THEN Leq(e.id, end) ELSE Leq(start, e.id)),
                 start, end, rev)

streamLastValidID(t) == Head(streamIterator(t, <<0, 0>>, MaxID, TRUE)).id

-----------------------------------------------------------------------------
(* Changing the entries.                                                   *)

\* The tail node is full: by bytes, or by entries, the deleted ones included.
Full(node, max) == Len(node.lp) >= NodeBytes \/ node.lp[1] + node.lp[2] >= max

Encoded(item, same) ==
  IF same THEN item.v
  ELSE <<Len(item.f)>> \o FlattenSeq([i \in 1..Len(item.f) |-> <<item.f[i], item.v[i]>>])

Entry(id, key, item, same) ==
  LET n == Len(item.f)  d == Delta(id, key)
  IN <<IF same THEN 2 ELSE 0, d[1], d[2]>> \o Encoded(item, same)
       \o <<n + 3 + IF same THEN 0 ELSE n + 1>>

streamAppendItem(t, max, item, id) ==
  LET fresh == t.rax = <<>> \/ Full(Last(t.rax), max)
      key == IF fresh THEN id ELSE Last(t.rax).key
      lp == IF fresh THEN <<1, 0, Len(item.f)>> \o item.f \o <<0>>
            ELSE [Last(t.rax).lp EXCEPT ![1] = @ + 1]
  IN [t EXCEPT !.rax = raxInsert(t.rax, [key |-> key,
                                         lp |-> lp \o Entry(id, key, item, MasterFields(lp) = item.f)]),
               !.length = @ + 1, !.last_id = id]

raxRemove(rax, key) == SelectSeq(rax, LAMBDA n : n.key # key)

\* Flags the entry; the node goes with its last live entry.
streamIteratorRemoveEntry(t, e) ==
  LET lp == (CHOOSE n \in ToSet(t.rax) : n.key = e.key).lp
  IN [t EXCEPT !.length = @ - 1,
               !.rax = IF lp[1] = 1 THEN raxRemove(t.rax, e.key)
                       ELSE raxInsert(t.rax, [key |-> e.key,
                              lp |-> [lp EXCEPT ![e.at] = Marked(@), ![1] = @ - 1, ![2] = @ + 1]])]

RemoveFound(t, es) == IF es = <<>> THEN t ELSE streamIteratorRemoveEntry(t, Head(es))

streamDeleteItem(t, id) == RemoveFound(t, streamIterator(t, id, id, FALSE))

\* currid in streamTrim: the deltas are read into ints.
TrimID(key, e, lp) ==
  Plus(key, <<Signed(lp[e.at + 1], Narrow), Signed(lp[e.at + 2], Narrow)>>)

LiveAmong(es, k) == Cardinality({i \in 1..k : ~Deleted(es[i].flags)})

\* How many entries of the first node, es, an exact trim goes over.
TrimCount(t, es, args) ==
  LET node == Head(t.rax)
      Stop(i) == IF args.by = "maxlen" THEN t.length - LiveAmong(es, i - 1) <= args.maxlen
                 ELSE Leq(args.minid, TrimID(node.key, es[i], node.lp))
  IN Min({i \in DOMAIN es : Stop(i)} \cup {Len(es) + 1}) - 1

\* The first node with the first k of its entries es marked deleted.
MarkFirst(t, es, k) ==
  LET node == Head(t.rax)  n == LiveAmong(es, k)  marked == {es[i].at : i \in 1..k}
      lp == [p \in DOMAIN node.lp |-> IF p \in marked THEN Marked(node.lp[p]) ELSE node.lp[p]]
  IN [t EXCEPT !.length = @ - n,
               !.rax = raxInsert(t.rax, [key |-> node.key,
                                         lp |-> [lp EXCEPT ![1] = @ - n, ![2] = @ + n]])]

TrimEntries(t, es, args) == MarkFirst(t, es, TrimCount(t, es, args))

TrimNode(t, args) == TrimEntries(t, NodeEntries(Head(t.rax)), args)

\* remove_node.
WholeNode(t, args) ==
  LET node == Head(t.rax)
  IN IF args.by = "maxlen" THEN t.length - node.lp[1] >= args.maxlen
     ELSE streamCompareID(lpGetEdgeStreamID(node, FALSE), args.minid) < 0

RECURSIVE TrimNodes(_, _, _)
TrimNodes(t, args, deleted) ==
  IF \/ t.rax = <<>>
     \/ args.limit # 0 /\ deleted >= args.limit
     \/ args.by = "maxlen" /\ t.length <= args.maxlen
    THEN t
  ELSE IF WholeNode(t, args)
    THEN LET n == Head(t.rax).lp[1]
         IN TrimNodes([t EXCEPT !.rax = Tail(@), !.length = @ - n], args, deleted + n)
  ELSE IF args.approx THEN t ELSE TrimNode(t, args)

streamTrim(t, args) == IF args.by = "none" THEN t ELSE TrimNodes(t, args, 0)

-----------------------------------------------------------------------------
(* The commands.  A result is the stream and what is propagated.           *)

\* The options as given; limit is -1 without LIMIT.
NoTrim == [by |-> "none", maxlen |-> 0, minid |-> <<0, 0>>, approx |-> FALSE, limit |-> -1]

\* A command of the master or of the AOF is not limited; a client's is when it trims
\* approximately.
streamParseAddOrTrimArgs(given, max, trusted) ==
  [ok |-> /\ given.limit > 0 => given.by # "none"
          /\ given.limit >= 0 /\ ~trusted => given.approx,
   args |-> [given EXCEPT !.limit = IF trusted THEN 0
                                    ELSE IF given.limit >= 0 THEN given.limit
                                    ELSE IF given.approx THEN 100 * max ELSE 0]]

\* streamRewriteApproxSpecifier and streamRewriteTrimArgument.
RewriteTrim(t, args) ==
  IF ~args.approx THEN args
  ELSE [args EXCEPT !.approx = FALSE,
                    !.maxlen = IF args.by = "maxlen" THEN t.length ELSE 0,
                    !.minid = IF args.by = "minid" THEN streamGetEdgeID(t, TRUE) ELSE <<0, 0>>]

\* The results: nothing was done, or t became u.
Unchanged(t) == [t |-> t, prop |-> <<>>]

Added(u, id, item, given) ==
  [t |-> u, prop |-> <<[op |-> "xadd", id |-> id, item |-> item, trim |-> RewriteTrim(u, given)]>>]

Shortened(t, u, given) ==
  [t |-> u, prop |-> IF u.length = t.length THEN <<>>
                     ELSE <<[op |-> "xtrim", trim |-> RewriteTrim(u, given)]>>]

Without(t, u, id) == [t |-> u, prop |-> IF u = t THEN <<>> ELSE <<[op |-> "xdel", id |-> id]>>]

\* id is <<0,0>> in error, and the ID made from the time for "*".
xaddCommand(t, max, id, item, given, trusted) ==
  LET parsed == streamParseAddOrTrimArgs(given, max, trusted)
  IN IF ~parsed.ok \/ id = <<0, 0>> \/ t.last_id = MaxID \/ Leq(id, t.last_id)
       THEN Unchanged(t)
     ELSE Added(streamTrim(streamAppendItem(t, max, item, id), parsed.args), id, item, given)

xtrimCommand(t, max, given, trusted) ==
  LET parsed == streamParseAddOrTrimArgs(given, max, trusted)
  IN IF parsed.ok THEN Shortened(t, streamTrim(t, parsed.args), given) ELSE Unchanged(t)

xdelCommand(t, id) == Without(t, streamDeleteItem(t, id), id)

xsetidCommand(t, id) ==
  IF t.length > 0 /\ ~Leq(streamLastValidID(t), id) THEN Unchanged(t)
  ELSE [t |-> [t EXCEPT !.last_id = id], prop |-> <<[op |-> "xsetid", id |-> id]>>]

\* The replica executes a command of its master.
Replayed(t, max, c) ==
  CASE c.op = "xadd"   -> xaddCommand(t, max, c.id, c.item, c.trim, TRUE).t
    [] c.op = "xtrim"  -> xtrimCommand(t, max, c.trim, TRUE).t
    [] c.op = "xdel"   -> xdelCommand(t, c.id).t
    [] c.op = "xsetid" -> xsetidCommand(t, c.id).t

\* streamReplyWithRange: the first count entries, or all when it is 0.
Shown(es, count) ==
  [i \in 1..(IF count = 0 THEN Len(es) ELSE Min({count, Len(es)})) |->
     [id |-> es[i].id, item |-> es[i].item]]

xrangeGenericCommand(t, start, startex, end, endex, rev, count) ==
  LET a == IF startex THEN streamIncrID(start) ELSE [ok |-> TRUE, id |-> start]
      b == IF endex THEN streamDecrID(end) ELSE [ok |-> TRUE, id |-> end]
  IN IF a.ok /\ b.ok THEN Shown(streamIterator(t, a.id, b.id, rev), count) ELSE <<>>

-----------------------------------------------------------------------------
(* What the commands promise, on the sequence of the entries.              *)

NewestOf(seq, n) == SubSeq(seq, Len(seq) - n + 1, Len(seq))

\* After trimming: the newest MAXLEN, or those from MINID on.  An approximate trim
\* may leave more: as many as the stream u has.
Trimmed(seq, args, u) ==
  LET want == CASE args.by = "none" -> Len(seq)
                [] args.by = "maxlen" -> Min({Len(seq), args.maxlen})
                [] args.by = "minid" -> Cardinality({i \in DOMAIN seq : Leq(args.minid, seq[i].id)})
  IN NewestOf(seq, IF args.approx THEN Min({Len(seq), Max({want, u.length})}) ELSE want)

Become(result, entries) ==
  /\ s' = result.t /\ ref' = entries
  /\ r' = FoldLeft(LAMBDA t, c : Replayed(t, NodeMax[2], c), r, result.prop)

Xadd ==
  /\ adds < MaxAdds /\ adds' = adds + 1
  /\ \E id \in Ids \cup {streamNextID(s.last_id, ms) : ms \in Times}, item \in Items, args \in Trims \cup {NoTrim} :
       \E res \in {xaddCommand(s, NodeMax[1], id, item, args, FALSE)} :
         /\ res.prop # <<>>
         /\ Become(res, Trimmed(Append(ref, [id |-> id, item |-> item]), args, res.t))

Xtrim ==
  /\ \E args \in Trims : \E res \in {xtrimCommand(s, NodeMax[1], args, FALSE)} :
       Become(res, IF args.limit >= 0 /\ ~args.approx THEN ref ELSE Trimmed(ref, args, res.t))
  /\ UNCHANGED adds

Xdel ==
  /\ \E id \in Ids : Become(xdelCommand(s, id), SelectSeq(ref, LAMBDA e : e.id # id))
  /\ UNCHANGED adds

Xsetid ==
  /\ \E id \in Ids : (Lowers \/ Leq(s.last_id, id)) /\ Become(xsetidCommand(s, id), ref)
  /\ UNCHANGED adds

Next == Xadd \/ Xtrim \/ Xdel \/ Xsetid

Spec == Init /\ [][Next]_logVars

-----------------------------------------------------------------------------
(* Saving and checking.                                                    *)

\* rewriteStreamObject, and the stream its commands make.
Rebuilt(t) ==
  LET full == FoldLeft(LAMBDA u, e : xaddCommand(u, NodeMax[2], e.id, e.item, NoTrim, TRUE).t,
                       streamNew, streamIterator(t, <<0, 0>>, MaxID, FALSE))
      empty == xaddCommand(streamNew, NodeMax[2], <<0, 1>>, CHOOSE i \in Items : TRUE,
                           [NoTrim EXCEPT !.by = "maxlen"], TRUE).t
  IN xsetidCommand(IF t.length > 0 THEN full ELSE empty, t.last_id).t

\* The walk of streamValidateListpackIntegrity from the flags at p over n entries: it
\* must end at the end of the listpack.
RECURSIVE ValidEntries(_, _, _)
ValidEntries(node, p, n) ==
  IF n = 0 THEN p = Len(node.lp) + 1
  ELSE /\ p <= Len(node.lp)
       /\ LET e == EntryAt(node, p)
          IN /\ e.next <= Len(node.lp) + 1 /\ node.lp[e.next - 1] = e.next - 1 - p
             /\ ValidEntries(node, e.next, n - 1)

streamValidateListpackIntegrity(node) ==
  /\ FirstEntry(node.lp) - 1 <= Len(node.lp) /\ node.lp[FirstEntry(node.lp) - 1] = 0
  /\ ValidEntries(node, FirstEntry(node.lp), node.lp[1])

-----------------------------------------------------------------------------
(* Properties.                                                             *)

AllIds == Ids \cup {<<0, 0>>, MaxID}

\* XRANGE and XREVRANGE return exactly the entries the commands left, with their fields
\* and values, between any two IDs, inclusive or exclusive, in either direction
\* (streamIteratorGetID, over nodes, deleted entries and both field encodings).
XrangesAreTrue ==
  \A a, b \in AllIds, ex, rev \in {TRUE, FALSE} :
    LET in == SelectSeq(ref, LAMBDA e : IF ex THEN ~Leq(e.id, a) /\ ~Leq(b, e.id)
                                        ELSE Leq(a, e.id) /\ Leq(e.id, b))
    IN xrangeGenericCommand(s, a, ex, b, ex, rev, 0) = IF rev THEN Reverse(in) ELSE in

\* s->length, which XLEN reports and trimming counts with, is the number of entries,
\* and the live and deleted counts of every listpack are those of its entries.
EntriesAreCounted ==
  /\ s.length = Len(ref)
  /\ \A i \in DOMAIN s.rax :
       LET es == NodeEntries(s.rax[i])
           dead == {j \in DOMAIN es : Deleted(es[j].flags)}
       IN s.rax[i].lp[1] = Len(es) - Cardinality(dead) /\ s.rax[i].lp[2] = Cardinality(dead)

\* A replica whose nodes have another size holds the same entries and the same last_id:
\* an approximate or limited trim is propagated as an exact one that removes the same
\* entries (xaddCommand and xtrimCommand, "to make sure there will be no inconsistencies").
ReplicaFollows ==
  /\ r.last_id = s.last_id /\ r.length = s.length
  /\ xrangeGenericCommand(r, <<0, 0>>, FALSE, MaxID, FALSE, FALSE, 0)
       = xrangeGenericCommand(s, <<0, 0>>, FALSE, MaxID, FALSE, FALSE, 0)

\* The commands an AOF rewrite emits make a stream with the same entries and last_id,
\* when it is empty and when its last entries were deleted (rewriteStreamObject).
RewriteRebuilds ==
  \E t \in {Rebuilt(s)} :
     /\ t.last_id = s.last_id /\ t.length = s.length
     /\ xrangeGenericCommand(t, <<0, 0>>, FALSE, MaxID, FALSE, FALSE, 0) = ref

\* The listpacks the commands make are valid ("return 1 if valid 0 if not valid",
\* t_stream.c:3550): RESTORE accepts the payload DUMP made of them.
DumpedIsValid == \A i \in DOMAIN s.rax : streamValidateListpackIntegrity(s.rax[i])
=============================================================================
