------------------------------ MODULE RdbCodec ------------------------------
(***************************************************************************)
(* Redis persistence: the RDB format (rdb.c), from a data set to a file    *)
(* and back: lengths and integers byte by byte, strings, every object type *)
(* in each of its encodings, the attributes of a key, the file as a whole. *)
(*                                                                         *)
(* A file is a sequence of cells: a byte, or a run of bytes that no code   *)
(* here looks into (a text, a blob, a 128 bit ID, a time, a double).  A 64 *)
(* bit number is the sequence of its 8 bytes, most significant first.  The *)
(* file can be cut anywhere before it is loaded; bytes are not altered.    *)
(***************************************************************************)
EXTENDS Integers, Sequences, SequencesExt, FiniteSets

CONSTANTS DataSets,   \* what is saved: functions from dbs to sequences of keys
          Configs,    \* the limits of the compact encodings, when loading
          None

VARIABLES data, conf, file, loaded

rdbVars == <<data, conf, file, loaded>>

B(n) == [b |-> n, x |-> None]
X(p) == [b |-> 256, x |-> p]
N8(n) == <<0, 0, 0, 0, 0, 0, 0, n>>

\* A string is an integer in its canonical form, or text.
Whole(v) == [k |-> "int", v |-> v, len |-> 1, z |-> FALSE]
Text(v, len, z) == [k |-> "text", v |-> v, len |-> len, z |-> z]

-----------------------------------------------------------------------------
(* Lengths, integers and strings.                                          *)

Zero(n, i) == \A j \in 1..i : n[j] = 0

rdbSaveLen(n) ==
  IF Zero(n, 7) /\ n[8] < 64 THEN <<B(n[8])>>
  ELSE IF Zero(n, 6) /\ n[7] < 64 THEN <<B(64 + n[7]), B(n[8])>>
  ELSE IF Zero(n, 4) THEN <<B(128)>> \o [i \in 1..4 |-> B(n[4 + i])]
  ELSE <<B(129)>> \o [i \in 1..8 |-> B(n[i])]

\* The value is negative when its first byte has its high bit set; it fits in w bytes when the
\* bytes before them repeat the sign.
FitsIn(v, w) ==
  LET sign == IF v[9 - w] >= 128 THEN 255 ELSE 0 IN \A j \in 1..(8 - w) : v[j] = sign

\* rdbEncodeInteger: empty when no form is wide enough.
rdbEncodeInteger(v) ==
  IF FitsIn(v, 1) THEN <<B(192), B(v[8])>>
  ELSE IF FitsIn(v, 2) THEN <<B(193), B(v[8]), B(v[7])>>
  ELSE IF FitsIn(v, 4) THEN <<B(194), B(v[8]), B(v[7]), B(v[6]), B(v[5])>>
  ELSE <<>>

\* rdbSaveLzfStringObject and rdbSaveLzfBlob: the length compressed, then the original one.
rdbSaveLzfBlob(s) == <<B(195)>> \o rdbSaveLen(N8(s.len - 5)) \o rdbSaveLen(N8(s.len)) \o <<X(s)>>

\* rdbSaveRawString, rdbTryIntegerEncoding and rdbSaveStringObject.
rdbSaveRawString(s) ==
  IF s.k = "int" /\ rdbEncodeInteger(s.v) # <<>> THEN rdbEncodeInteger(s.v)
  ELSE IF s.len > 20 /\ s.z THEN rdbSaveLzfBlob(s)
  ELSE rdbSaveLen(N8(s.len)) \o (IF s.len > 0 THEN <<X(s)>> ELSE <<>>)

\* What a reader returns: the rest of the input, and a value.
Read(in, val, enc) == [ok |-> TRUE, in |-> in, val |-> val, enc |-> enc]
Failed == [ok |-> FALSE, in |-> <<>>, val |-> None, enc |-> FALSE]
Rest(in, n) == SubSeq(in, n + 1, Len(in))
ByteAt(in, i) == in[i].b

\* Goes on with what was read, or fails.
Then(r, Go(_)) == IF r.ok THEN Go(r) ELSE Failed

\* One opaque cell.
ReadRaw(in) == IF Len(in) < 1 THEN Failed ELSE Read(Rest(in, 1), in[1].x, FALSE)

rdbLoadLen(in) ==
  LET t == in[1].b IN
  CASE Len(in) = 0 -> Failed
    [] Len(in) > 0 /\ t >= 192 -> Read(Rest(in, 1), N8(t - 192), TRUE)
    [] Len(in) > 0 /\ t < 64 -> Read(Rest(in, 1), N8(t), FALSE)
    [] Len(in) > 0 /\ t \in 64..127 ->
         IF Len(in) < 2 THEN Failed
         ELSE Read(Rest(in, 2), <<0, 0, 0, 0, 0, 0, t - 64, ByteAt(in, 2)>>, FALSE)
    [] Len(in) > 0 /\ t = 128 ->
         IF Len(in) < 5 THEN Failed
         ELSE Read(Rest(in, 5), <<0, 0, 0, 0>> \o [i \in 1..4 |-> ByteAt(in, i + 1)], FALSE)
    [] Len(in) > 0 /\ t = 129 ->
         IF Len(in) < 9 THEN Failed
         ELSE Read(Rest(in, 9), [i \in 1..8 |-> ByteAt(in, i + 1)], FALSE)

\* rdbLoadIntegerObject: w bytes, least significant first, with their sign.
rdbLoadIntegerObject(in, w) ==
  IF Len(in) < w THEN Failed
  ELSE LET sign == IF ByteAt(in, w) >= 128 THEN 255 ELSE 0
       IN Read(Rest(in, w),
               Whole([i \in 1..8 |-> IF i <= 8 - w THEN sign ELSE ByteAt(in, 9 - i)]), FALSE)

\* rdbLoadLzfStringObject
rdbLoadLzfStringObject(in) ==
  Then(rdbLoadLen(in), LAMBDA c : Then(rdbLoadLen(c.in), LAMBDA l : ReadRaw(l.in)))

\* The string after its length or encoding l.
StringOf(l) ==
  IF l.enc THEN (IF l.val[8] = 3 THEN rdbLoadLzfStringObject(l.in)
                 ELSE rdbLoadIntegerObject(l.in, 2 ^ l.val[8]))
  ELSE IF l.val = N8(0) THEN Read(l.in, Text(<<>>, 0, FALSE), FALSE)
  ELSE ReadRaw(l.in)

\* rdbGenericLoadStringObject
rdbGenericLoadStringObject(in) == Then(rdbLoadLen(in), StringOf)

-----------------------------------------------------------------------------
(* Saving objects.                                                         *)

Each(s, Op(_)) == FlattenSeq([i \in DOMAIN s |-> Op(s[i])])

\* rdbSaveObjectType
rdbSaveObjectType(o) ==
  CASE o.t = "string" -> B(0)
    [] o.t = "list"   -> B(14)
    [] o.t = "set"    -> IF o.enc = "intset" THEN B(11) ELSE B(2)
    [] o.t = "zset"   -> IF o.enc = "ziplist" THEN B(12) ELSE B(5)
    [] o.t = "hash"   -> IF o.enc = "ziplist" THEN B(13) ELSE B(4)
    [] o.t = "stream" -> B(15)

\* A ziplist, intset or listpack is saved as it is.
Blob(x) == [k |-> "blob", v |-> x, len |-> 21, z |-> FALSE]

\* rdbSaveStreamPEL
rdbSaveStreamPEL(pel, nacks) ==
  LET Entry(e) == <<X(e.id)>> \o (IF nacks THEN <<X(e.time)>> \o rdbSaveLen(N8(e.count)) ELSE <<>>)
  IN rdbSaveLen(N8(Len(pel))) \o Each(pel, Entry)

\* rdbSaveStreamConsumers
rdbSaveStreamConsumers(g) ==
  LET Consumer(c) == rdbSaveRawString(c.name) \o <<X(c.seen)>>
                     \o rdbSaveStreamPEL(SelectSeq(g.pel, LAMBDA e : e.owner = c.name), FALSE)
  IN rdbSaveLen(N8(Len(g.consumers))) \o Each(g.consumers, Consumer)

SaveStream(o) ==
  LET Pack(p) == rdbSaveRawString(Text(p.key, 16, FALSE)) \o rdbSaveRawString(Blob(p.entries))
      Group(g) == rdbSaveRawString(g.name) \o rdbSaveLen(N8(g.last[1])) \o rdbSaveLen(N8(g.last[2]))
                  \o rdbSaveStreamPEL(g.pel, TRUE) \o rdbSaveStreamConsumers(g)
  IN rdbSaveLen(N8(Len(o.packs))) \o Each(o.packs, Pack)
     \o rdbSaveLen(N8(o.length)) \o rdbSaveLen(N8(o.last[1])) \o rdbSaveLen(N8(o.last[2]))
     \o rdbSaveLen(N8(Len(o.groups))) \o Each(o.groups, Group)

SaveList(o) ==
  LET Node(n) == IF n.lzf THEN rdbSaveLzfBlob(Blob(n.entries))
                 ELSE rdbSaveRawString(Blob(n.entries))
  IN rdbSaveLen(N8(Len(o.nodes))) \o Each(o.nodes, Node)

SavePairs(o) ==
  LET Scored(e) == rdbSaveRawString(e[1]) \o <<X(e[2])>>
      Field(e) == rdbSaveRawString(e[1]) \o rdbSaveRawString(e[2])
  IN rdbSaveLen(N8(Len(o.els)))
     \o (IF o.t = "zset" THEN Each(Reverse(o.els), Scored) ELSE Each(o.els, Field))

\* rdbSaveObject
rdbSaveObject(o) ==
  CASE o.t = "string" -> rdbSaveRawString(o.s)
    [] o.t = "list"   -> SaveList(o)
    [] o.t = "set" /\ o.enc = "ht" -> rdbSaveLen(N8(Len(o.els))) \o Each(o.els, rdbSaveRawString)
    [] o.t \in {"zset", "hash"} /\ o.enc # "ziplist" -> SavePairs(o)
    [] o.t = "stream" -> SaveStream(o)
    [] OTHER -> rdbSaveRawString(Blob(o.els))

\* rdbSaveKeyValuePair
rdbSaveKeyValuePair(k) ==
  (IF k.expire = None THEN <<>> ELSE <<B(252), X(k.expire)>>)
  \o (IF k.idle = None THEN <<>> ELSE <<B(248)>> \o rdbSaveLen(k.idle))
  \o (IF k.freq = None THEN <<>> ELSE <<B(249), B(k.freq)>>)
  \o <<rdbSaveObjectType(k.val)>> \o rdbSaveRawString(k.key) \o rdbSaveObject(k.val)

\* rdbSaveAuxField
rdbSaveAuxField(k, v) == <<B(250)>> \o rdbSaveRawString(k) \o rdbSaveRawString(v)

\* rdbSaveRio: the file of a server with the replication information rsi, or None.
rdbSaveRio(d, rsi) ==
  LET SaveDb(db) == IF d[db] = <<>> THEN <<>>
                    ELSE <<B(254)>> \o rdbSaveLen(N8(db - 1))
                         \o <<B(251)>> \o rdbSaveLen(N8(Len(d[db])))
                         \o rdbSaveLen(N8(Len(SelectSeq(d[db], LAMBDA k : k.expire # None))))
                         \o Each(d[db], rdbSaveKeyValuePair)
      dbs == [db \in 1..Len(d) |-> SaveDb(db)]
  IN <<X("REDIS")>>
     \o (IF rsi = None THEN <<>> ELSE rdbSaveAuxField(Text(<<"repl">>, 7, FALSE), rsi))
     \o FlattenSeq(dbs) \o <<B(255), X("cksum")>>

-----------------------------------------------------------------------------
(* Loading objects.  A kind of field is read by Item; a counted list of    *)
(* records by the kinds of their fields.                                   *)

FieldsOf(kind) ==
  CASE kind = "strings"   -> <<"str">>
    [] kind = "scored"    -> <<"str", "raw">>
    [] kind = "pairs"     -> <<"str", "str">>
    [] kind = "pel"       -> <<"raw", "raw", "len">>
    [] kind = "ids"       -> <<"raw">>
    [] kind = "consumers" -> <<"str", "raw", "ids">>
    [] kind = "groups"    -> <<"str", "len", "len", "pel", "consumers">>

RECURSIVE Item(_, _), Fields(_, _), Records(_, _, _)

\* The fields of one record.
Fields(kinds, in) ==
  IF kinds = <<>> THEN Read(in, <<>>, FALSE)
  ELSE Then(Item(Head(kinds), in), LAMBDA f :
         Then(Fields(Tail(kinds), f.in), LAMBDA r : Read(r.in, <<f.val>> \o r.val, FALSE)))

\* n records.
Records(n, kinds, in) ==
  IF n = 0 THEN Read(in, <<>>, FALSE)
  ELSE Then(Fields(kinds, in), LAMBDA f :
         Then(Records(n - 1, kinds, f.in), LAMBDA r : Read(r.in, <<f.val>> \o r.val, FALSE)))

Item(kind, in) ==
  CASE kind = "len" -> Then(rdbLoadLen(in), LAMBDA l : Read(l.in, l.val[8], FALSE))
    [] kind = "str" -> rdbGenericLoadStringObject(in)
    [] kind = "raw" -> ReadRaw(in)
    [] OTHER -> Then(rdbLoadLen(in), LAMBDA l : Records(l.val[8], FieldsOf(kind), l.in))

Distinct(s) == \A i, j \in DOMAIN s : s[i] = s[j] => i = j
Firsts(s) == [i \in DOMAIN s |-> s[i][1]]

\* The RDB_TYPE_LIST_QUICKLIST branch.
LoadList(nodes) ==
  [t |-> "list", nodes |-> [i \in DOMAIN nodes |-> [lzf |-> FALSE, entries |-> nodes[i][1].v]]]

\* The RDB_TYPE_SET branch: an intset until a string comes that is not an integer.
LoadSet(els, c) ==
  [t |-> "set", els |-> els,
   enc |-> IF Len(els) <= c.intset /\ \A i \in DOMAIN els : els[i].k = "int"
             THEN "intset" ELSE "ht"]

Longest(els, n) == \A i \in DOMAIN els : \A j \in 1..n : els[i][j].len <= 20

\* The RDB_TYPE_ZSET_2 branch: converted after loading.
LoadZset(els, c) ==
  [t |-> "zset", els |-> Reverse(els),
   enc |-> IF Len(els) <= c.ziplist /\ Longest(els, 1) THEN "ziplist" ELSE "ht"]

\* The RDB_TYPE_HASH branch.
LoadHash(els, c) ==
  [t |-> "hash", els |-> els,
   enc |-> IF Len(els) > c.ziplist \/ ~Longest(els, 2) THEN "ht" ELSE "ziplist"]

\* The stream branch: each consumer owns the entries it lists, which the group must have.
LoadGroup(g) ==
  LET owner(id) == CHOOSE i \in DOMAIN g[5] : \E j \in DOMAIN g[5][i][3] : g[5][i][3][j][1] = id
  IN [name |-> g[1], last |-> <<g[2], g[3]>>,
      pel |-> [i \in DOMAIN g[4] |->
                 [id |-> g[4][i][1], time |-> g[4][i][2], count |-> g[4][i][3],
                  owner |-> g[5][owner(g[4][i][1])][1]]],
      consumers |-> [i \in DOMAIN g[5] |-> [name |-> g[5][i][1], seen |-> g[5][i][2]]]]

LoadStream(f) ==
  [t |-> "stream", packs |-> [i \in DOMAIN f[1] |-> [key |-> f[1][i][1].v, entries |-> f[1][i][2].v]],
   length |-> f[2], last |-> <<f[3], f[4]>>,
   groups |-> [i \in DOMAIN f[5] |-> LoadGroup(f[5][i])]]

\* The branches for blobs: only the number of elements is checked.
LoadBlob(t, els, c) ==
  [t |-> t, els |-> els,
   enc |-> IF t = "set" THEN (IF Len(els) > c.intset THEN "ht" ELSE "intset")
           ELSE (IF Len(els) > c.ziplist THEN "ht" ELSE "ziplist")]

\* The object, or none when a member comes twice.
Unless(twice, r, o) == IF twice THEN Failed ELSE Read(r.in, o, FALSE)

\* rdbLoadObject
rdbLoadObject(type, in, c) ==
  CASE type = 0 -> Then(Item("str", in), LAMBDA r : Read(r.in, [t |-> "string", s |-> r.val], FALSE))
    [] type \in {11, 12, 13} ->
         Then(Item("str", in), LAMBDA r :
           Read(r.in, LoadBlob((11 :> "set" @@ 12 :> "zset" @@ 13 :> "hash")[type], r.val.v, c), FALSE))
    [] type = 15 -> Then(Fields(<<"pairs", "len", "len", "len", "groups">>, in), LAMBDA r :
                      Read(r.in, LoadStream(r.val), FALSE))
    [] OTHER ->
         Then(Item((14 :> "strings" @@ 2 :> "strings" @@ 5 :> "scored" @@ 4 :> "pairs")[type], in), LAMBDA r :
         CASE type = 14 -> Read(r.in, LoadList(r.val), FALSE)
           [] type = 2  -> Unless(~Distinct(r.val), r, LoadSet(Firsts(r.val), c))
           [] type = 5  -> Unless(~Distinct(Firsts(r.val)), r, LoadZset(r.val, c))
           [] type = 4  -> Unless(~Distinct(Firsts(r.val)), r, LoadHash(r.val, c)))

\* The state that is key specific starts from scratch.
NextKey(s) == [s EXCEPT !.expire = None, !.idle = None, !.freq = None]

\* A key that is past its time is dropped by a master, unless the log of operations follows.
Dropped(s, c) == c.master /\ ~c.preamble /\ s.expire # None /\ s.expire < c.now

\* Mutant: the end of the file is accepted in place of the checksum.
CksumOrEnd(in) == Read(Rest(in, 1), None, FALSE)

\* The checksum after RDB_OPCODE_EOF.
LoadCksum(in) == Item("raw", in)

Refused(s) == [s EXCEPT !.ok = FALSE, !.done = TRUE]

\* A key that is not dropped is added to the selected db; a file has each key once.
AddKey(s, in, key, val) ==
  IF \E i \in DOMAIN s.dbs[s.db] : s.dbs[s.db][i].key = key THEN Refused(s)
  ELSE NextKey([s EXCEPT !.in = in,
         !.dbs[s.db] = Append(@, [key |-> key, val |-> val, expire |-> s.expire,
                                  idle |-> s.idle, freq |-> s.freq])])

\* The key and the value after the type.
LoadPair(type, in, c) ==
  Then(rdbGenericLoadStringObject(in), LAMBDA k :
    Then(rdbLoadObject(type, k.in, c), LAMBDA o : Read(o.in, <<k.val, o.val>>, FALSE)))

StorePair(s, r, c) ==
  IF ~r.ok THEN Refused(s)
  ELSE IF Dropped(s, c) THEN NextKey([s EXCEPT !.in = r.in])
  ELSE AddKey(s, r.in, r.val[1], r.val[2])

\* What was read is noted.
Note(s, r, With(_)) == IF r.ok THEN [With(r.val) EXCEPT !.in = r.in] ELSE Refused(s)

\* An AUX field: here the replication information.
LoadAux(s, in) == Note(s, Fields(<<"str", "str">>, in), LAMBDA v : [s EXCEPT !.rsi = v[2]])

SelectDb(s, n) == IF n >= Len(s.dbs) THEN Refused(s) ELSE [s EXCEPT !.db = n + 1]

\* One turn of the loop of rdbLoadRio, on the opcode or type at the head of the input.
rdbLoadStep(s, c) ==
  LET type == s.in[1].b
      in == Rest(s.in, 1)
  IN IF s.in = <<>> THEN Refused(s)
     ELSE CASE type = 252 -> Note(s, Item("raw", in), LAMBDA v : [s EXCEPT !.expire = v])
       [] type = 248 -> Note(s, rdbLoadLen(in), LAMBDA v : [s EXCEPT !.idle = v])
       [] type = 249 -> IF in = <<>> THEN Refused(s)
                        ELSE [s EXCEPT !.freq = ByteAt(in, 1), !.in = Rest(in, 1)]
       [] type = 254 -> Note(s, Item("len", in), LAMBDA v : SelectDb(s, v))
       [] type = 251 -> Note(s, Fields(<<"len", "len">>, in), LAMBDA v : s)
       [] type = 250 -> LoadAux(s, in)
       [] type = 255 -> Note(s, LoadCksum(in), LAMBDA v : [s EXCEPT !.done = TRUE])
       [] OTHER -> StorePair(s, LoadPair(type, in, c), c)

RECURSIVE rdbLoadLoop(_, _)
rdbLoadLoop(s, c) == IF s.done THEN s ELSE rdbLoadLoop(rdbLoadStep(s, c), c)

\* rdbLoadRio
rdbLoadRio(in, dbnum, c) ==
  LET start == [in |-> Rest(in, 1), ok |-> in # <<>>, done |-> in = <<>>, db |-> 1, rsi |-> None,
                dbs |-> [i \in 1..dbnum |-> <<>>], expire |-> None, idle |-> None, freq |-> None]
  IN rdbLoadLoop(start, c)

-----------------------------------------------------------------------------
Init ==
  /\ data \in DataSets /\ conf \in Configs
  /\ file = <<>> /\ loaded = None

\* rdbSave, of a whole data set.
rdbSave ==
  /\ file = <<>>
  /\ \E rsi \in {None, Text(<<"id">>, 40, FALSE)} : file' = rdbSaveRio(data, rsi)
  /\ UNCHANGED <<data, conf, loaded>>

\* rdbLoad, of the first n cells of the file.
rdbLoad(n) ==
  /\ loaded = None /\ file # <<>>
  /\ loaded' = [cut |-> n < Len(file),
                res |-> rdbLoadRio(SubSeq(file, 1, n), Len(data), conf)]
  /\ UNCHANGED <<data, conf, file>>

Next == rdbSave \/ \E n \in 0..Len(file) : rdbLoad(n)

Spec == Init /\ [][Next]_rdbVars

-----------------------------------------------------------------------------
\* What a value holds, whatever its encoding.
Holds(o) ==
  CASE o.t = "string" -> <<o.s>>
    [] o.t = "list"   -> FlattenSeq([i \in DOMAIN o.nodes |-> o.nodes[i].entries])
    [] o.t = "stream" -> <<o>>
    [] OTHER -> o.els

Kept(k) == ~(conf.master /\ ~conf.preamble /\ k.expire # None /\ k.expire < conf.now)

\* A whole file gives the data set back: each key in its db, with its value and its own expire,
\* idle time and frequency, integers and lengths of every width included; a master leaves out
\* the keys whose time has passed.
RoundTrip ==
  loaded # None /\ ~loaded.cut =>
    /\ loaded.res.ok /\ loaded.res.in = <<>>
    /\ \A db \in 1..Len(data) :
         LET want == SelectSeq(data[db], Kept)
             got == loaded.res.dbs[db]
         IN /\ Len(got) = Len(want)
            /\ \A i \in DOMAIN want :
                 /\ got[i].key = want[i].key /\ got[i].expire = want[i].expire
                 /\ got[i].idle = want[i].idle /\ got[i].freq = want[i].freq
                 /\ got[i].val.t = want[i].val.t /\ Holds(got[i].val) = Holds(want[i].val)

\* "Unexpected EOF reading RDB file": a file that ends anywhere before its end is refused; it is
\* never taken for a smaller data set.
CutIsRefused == loaded # None /\ loaded.cut => ~loaded.res.ok

\* "convert the encoded data type into the base type if accordingly to the current configuration
\* there are too many elements": a loaded value in a compact encoding respects the limits of the
\* server that loads it.
EncodingFits ==
  loaded # None /\ loaded.res.ok =>
    \A db \in 1..Len(data) : \A i \in DOMAIN loaded.res.dbs[db] :
      LET o == loaded.res.dbs[db][i].val IN
      /\ o.t = "set" /\ o.enc = "intset" =>
           Len(o.els) <= conf.intset /\ \A j \in DOMAIN o.els : o.els[j].k = "int"
      /\ o.t \in {"zset", "hash"} /\ o.enc = "ziplist" => Len(o.els) <= conf.ziplist
=============================================================================
