------------------------------ MODULE Ziplist ------------------------------
(***************************************************************************)
(* The ziplist of Redis (ziplist.c): a list packed in one block of bytes.   *)
(* Every entry starts with the length of the entry before it, in 1 byte     *)
(* when that length is below ZIP_BIG_PREVLEN and in 5 bytes otherwise, so   *)
(* changing one entry may change the size of the next one, and so on down   *)
(* the list (the cascade update).  The header keeps the total size, the     *)
(* offset of the last entry and the number of entries, each maintained by   *)
(* arithmetic of its own.                                                   *)
(*                                                                          *)
(* An entry is [e, psize, plen]: its element, the bytes its prevlen field   *)
(* takes and the value in it.  What an element takes after that field (its  *)
(* encoding bytes and data, zipStoreEntryEncoding and zipIntSize) is        *)
(* Body[e].  Two lists are kept, as quicklist.c does when it splits a node  *)
(* and merges it again; `content' is what a plain sequence would hold.      *)
(***************************************************************************)
EXTENDS Integers, Sequences, SequencesExt, FiniteSetsExt

CONSTANTS Elems,     \* the elements
          Body,      \* Body[e]: bytes of e after the prevlen field
          BigPrev,   \* ZIP_BIG_PREVLEN
          LenCap,    \* UINT16_MAX: a length field that says "count me"
          MaxLen     \* bound: entries in the two lists together

VARIABLES zls,       \* zls[i]: the i-th ziplist
          content    \* content[i]: the sequence it should hold

zipVars == <<zls, content>>

HeaderSize == 10     \* ZIPLIST_HEADER_SIZE
EndSize == 1         \* ZIPLIST_END_SIZE
Delta == 4           \* a prevlen field grows from 1 byte to 5

\* Bytes that a prevlen field for an entry of n bytes takes.
zipStorePrevEntryLength(n) == IF n < BigPrev THEN 1 ELSE 5

\* zipRawEntryLength: the bytes an entry takes.
RawLen(x) == x.psize + Body[x.e]

\* The offset of entry k, or of the end byte when k is past the last entry.
Offset(es, k) ==
  HeaderSize + FoldSeq(LAMBDA x, sum : RawLen(x) + sum, 0, SubSeq(es, 1, k - 1))

EntryAt(zl, off) == CHOOSE k \in DOMAIN zl.es : Offset(zl.es, k) = off

ziplistNew ==
  [es |-> <<>>, bytes |-> HeaderSize + EndSize, tail |-> HeaderSize,
   len |-> 0, ok |-> TRUE]

\* ZIPLIST_INCR_LENGTH: a saturated count stays saturated.
IncrLength(zl, n) ==
  [zl EXCEPT !.len = IF @ < LenCap THEN @ + n ELSE @]

-----------------------------------------------------------------------------
\* The value the prevlen field of entry j must hold when every entry after
\* `first' and before j has grown by Delta.
DuePrevLen(es, first, j) ==
  RawLen(es[j - 1]) + (IF j - 1 > first THEN Delta ELSE 0)

\* The first entry after `first' that does not have to grow.
CascadeEnd(es, first) ==
  Min({j \in (first + 1)..(Len(es) + 1) :
         j <= Len(es) => LET due == DuePrevLen(es, first, j)
                         IN \/ es[j].plen = due
                            \/ es[j].psize >= zipStorePrevEntryLength(due)})

\* An entry in the cascade gets the old length of its predecessor plus Delta,
\* or the length of the first entry when it used to be the head.
Grow(es, first, j) ==
  LET v == IF es[j].plen = 0 THEN RawLen(es[first]) ELSE es[j].plen + Delta
  IN [es[j] EXCEPT !.plen = v, !.psize = zipStorePrevEntryLength(v)]

\* Mutant: the entry after the cascade keeps the length it had.
CascadeStopsShort(zl, first) ==
  IF first > Len(zl.es) THEN zl
  ELSE LET es == zl.es
           end == CascadeEnd(es, first)
           extra == Delta * (end - first - 1)
       IN [zl EXCEPT
             !.es = [j \in DOMAIN es |->
                       IF j > first /\ j < end THEN Grow(es, first, j) ELSE es[j]],
             !.bytes = @ + extra,
             !.tail = IF extra = 0 THEN @
                      ELSE IF @ = Offset(es, end - 1) THEN @ + extra - Delta
                      ELSE @ + extra]

\* Entry `first' has a new length: let the entries after it hold it, up to
\* the first whose field is large enough.  Fields never shrink.
__ziplistCascadeUpdate(zl, first) ==
  IF first > Len(zl.es) THEN zl
  ELSE LET es == zl.es
           end == CascadeEnd(es, first)
           extra == Delta * (end - first - 1)
       IN [zl EXCEPT
             !.es = [j \in DOMAIN es |->
                       IF j > first /\ j < end THEN Grow(es, first, j)
                       ELSE IF j = end THEN [es[j] EXCEPT !.plen = DuePrevLen(es, first, j)]
                       ELSE es[j]],
             !.bytes = @ + extra,
             !.tail = IF extra = 0 THEN @
                      ELSE IF @ = Offset(es, end - 1) THEN @ + extra - Delta
                      ELSE @ + extra,
             !.ok = @ /\ \A j \in (first + 1)..(end - 1) :
                           es[j].plen \in {0, DuePrevLen(es, first, j) - Delta}]

\* Insert e so that it becomes entry i.  The block is resized before its bytes
\* are moved, so it must not become smaller; hence forcelarge.
__ziplistInsert(zl, i, e) ==
  LET es == zl.es
      last == i > Len(es)
      prevlen == IF ~last THEN es[i].plen
                 ELSE IF es = <<>> THEN 0 ELSE RawLen(es[EntryAt(zl, zl.tail)])
      reqlen == Body[e] + zipStorePrevEntryLength(prevlen)
      diff == IF last THEN 0 ELSE zipStorePrevEntryLength(reqlen) - es[i].psize
      forcelarge == diff = -4 /\ reqlen < 4
      nextdiff == IF forcelarge THEN 0 ELSE diff
      new == [e |-> e, psize |-> zipStorePrevEntryLength(prevlen), plen |-> prevlen]
      after == IF last THEN es
               ELSE [es EXCEPT ![i].plen = reqlen, ![i].psize = @ + nextdiff]
      grown == [zl EXCEPT
                  !.es = InsertAt(after, i, new),
                  !.bytes = @ + reqlen + nextdiff,
                  !.tail = IF last THEN zl.bytes - EndSize
                           ELSE @ + reqlen + (IF i # Len(es) THEN nextdiff ELSE 0),
                  !.ok = @ /\ reqlen + nextdiff >= 0]
  IN IncrLength(IF nextdiff # 0 THEN __ziplistCascadeUpdate(grown, i + 1) ELSE grown, 1)

\* Delete up to num entries starting with entry i.
__ziplistDelete(zl, i, num) ==
  LET es == zl.es
      next == Min({i + num, Len(es) + 1})
      totlen == Offset(es, next) - Offset(es, i)
      last == next > Len(es)
      nextdiff == IF last THEN 0
                  ELSE zipStorePrevEntryLength(es[i].plen) - es[next].psize
      after == IF last THEN es
               ELSE [es EXCEPT ![next].plen = es[i].plen, ![next].psize = @ + nextdiff]
      shrunk == [zl EXCEPT
                   !.es = SubSeq(es, 1, i - 1) \o SubSeq(after, next, Len(es)),
                   !.bytes = @ - (totlen - nextdiff),
                   !.tail = IF last THEN Offset(es, i) - es[i].plen
                            ELSE @ - totlen + (IF next # Len(es) THEN nextdiff ELSE 0),
                   !.ok = @ /\ (last \/ totlen >= nextdiff)]
      counted == IncrLength(shrunk, -(next - i))
  IN IF nextdiff # 0 THEN __ziplistCascadeUpdate(counted, i) ELSE counted

\* Append `second' to `first' in the larger of the two blocks, then mend the
\* prevlen at the seam.
ziplistMerge(first, second) ==
  LET joined == [es    |-> first.es \o second.es,
                 bytes |-> first.bytes + second.bytes - HeaderSize - EndSize,
                 tail  |-> (first.bytes - EndSize) + (second.tail - HeaderSize),
                 len   |-> Min({first.len + second.len, LenCap}),
                 ok    |-> first.ok /\ second.ok]
  IN __ziplistCascadeUpdate(joined, EntryAt(first, first.tail))

\* Overwrite in place when the size allows it, else delete and insert.
ziplistReplace(zl, i, e) ==
  IF Body[e] = Body[zl.es[i].e] THEN [zl EXCEPT !.es[i].e = e]
  ELSE __ziplistInsert(__ziplistDelete(zl, i, 1), i, e)

\* ziplistLen counts when the field is saturated, and stores a count that fits.
ziplistLen(zl) ==
  IF zl.len < LenCap THEN zl.len ELSE Len(zl.es)

\* ziplistIndex(zl, -1), ziplistPrev, ...: the elements met when walking from
\* the tail offset by the prevlen fields, as long as they lead to an entry.
RECURSIVE WalkBack(_, _)
WalkBack(zl, off) ==
  IF \A k \in DOMAIN zl.es : Offset(zl.es, k) # off THEN <<>>
  ELSE LET x == zl.es[EntryAt(zl, off)]
       IN <<x.e>> \o IF x.plen = 0 THEN <<>> ELSE WalkBack(zl, off - x.plen)

-----------------------------------------------------------------------------
Init == /\ zls = [i \in {1, 2} |-> ziplistNew]
        /\ content = [i \in {1, 2} |-> <<>>]

Total == Len(content[1]) + Len(content[2])

Set(i, zl, s) == /\ zls' = [zls EXCEPT ![i] = zl]
                 /\ content' = [content EXCEPT ![i] = s]

\* ziplistPush and ziplistInsert.
Insert(e, i) ==
  /\ Total < MaxLen
  /\ Set(1, __ziplistInsert(zls[1], i, e), InsertAt(content[1], i, e))

\* ziplistDelete and ziplistDeleteRange.
Delete(i, num) ==
  /\ Set(1, __ziplistDelete(zls[1], i, num),
         SubSeq(content[1], 1, i - 1) \o SubSeq(content[1], i + num, Len(content[1])))

Replace(i, e) ==
  Set(1, ziplistReplace(zls[1], i, e), ReplaceAt(content[1], i, e))

\* _quicklistSplitNode: a copy of the whole block, then one range deleted
\* from each.
Split(n) ==
  /\ content[2] = <<>>
  /\ zls' = <<__ziplistDelete(zls[1], n + 1, Len(zls[1].es)),
              __ziplistDelete(zls[1], 1, n)>>
  /\ content' = <<SubSeq(content[1], 1, n), SubSeq(content[1], n + 1, Len(content[1]))>>

\* _quicklistZiplistMerge: nodes are never empty.
Merge(a, b) ==
  /\ content[1] # <<>> /\ content[2] # <<>>
  /\ zls' = <<ziplistMerge(zls[a], zls[b]), ziplistNew>>
  /\ content' = <<content[a] \o content[b], <<>>>>

\* ziplistLen stores the count it had to make when it fits again.
Count ==
  /\ zls[1].len = LenCap /\ Len(zls[1].es) < LenCap
  /\ zls' = [zls EXCEPT ![1].len = Len(zls[1].es)]
  /\ UNCHANGED content

Next ==
  \/ \E e \in Elems, i \in 1..(Len(content[1]) + 1) : Insert(e, i)
  \/ \E i \in 1..Len(content[1]), num \in 1..2 : Delete(i, num)
  \/ \E i \in 1..Len(content[1]), e \in Elems : Replace(i, e)
  \/ \E n \in 1..(Len(content[1]) - 1) : Split(n)
  \/ Merge(1, 2)
  \/ Merge(2, 1)
  \/ Count

Spec == Init /\ [][Next]_zipVars

-----------------------------------------------------------------------------
\* The deep check of ziplistValidateIntegrity passes on every list the
\* operations leave behind: each prevlen field holds the length of the entry
\* before it and is wide enough for it, the total size and the tail offset of
\* the header are those of the entries, and the count is exact unless it is
\* saturated.
ZiplistValid ==
  \A i \in {1, 2} :
    LET zl == zls[i] es == zls[i].es
    IN /\ zl.bytes = Offset(es, Len(es) + 1) + EndSize
       /\ zl.tail = IF es = <<>> THEN HeaderSize ELSE Offset(es, Len(es))
       /\ zl.len # LenCap => zl.len = Len(es)
       /\ \A k \in DOMAIN es :
            /\ es[k].plen = IF k = 1 THEN 0 ELSE RawLen(es[k - 1])
            /\ es[k].psize \in {zipStorePrevEntryLength(es[k].plen), 5}

\* Read forward by entry lengths, or backward from the tail offset by the
\* prevlen fields, a list holds the elements that the same operations leave in
\* a plain sequence, and ziplistLen says how many they are.
ReadsBothWays ==
  \A i \in {1, 2} :
    LET zl == zls[i]
    IN /\ [k \in DOMAIN zl.es |-> zl.es[k].e] = content[i]
       /\ content[i] # <<>> => WalkBack(zl, zl.tail) = Reverse(content[i])
       /\ ziplistLen(zl) = Len(content[i])

\* The assertions of ziplist.c hold: an entry in a cascade was the head or held
\* its predecessor's length before it grew, and the bytes of the deleted
\* entries leave room for a wider prevlen in the entry that follows them.  An
\* insertion never shrinks the block before it moves the bytes in it.
AssertionsHold == \A i \in {1, 2} : zls[i].ok
=============================================================================
