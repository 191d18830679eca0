---------------------------- MODULE MCStructures ----------------------------
(***************************************************************************)
(* The data structures of Redis and the pure algorithms on them, on small   *)
(* instances.  They share no state: each behaviour is one of a single       *)
(* instance, picked by `focus', and the others keep their initial values or *)
(* none at all ("off").                                                     *)
(***************************************************************************)
EXTENDS Integers, Sequences

CONSTANTS None, Null

VARIABLES focus, dD, canResize, cursor, due, iter, zobj, zRef, zls, content, ql, want, head,
          numele, numnodes, stored, db, data, conf, file, loaded, slS, slR, slRef, adds

dict == <<dD, canResize, cursor, due, iter>>
zset == <<zobj, zRef>>
zip == <<zls, content>>
list == <<ql, want>>
radix == <<head, numele, numnodes, stored>>
zcommands == <<db>>
rdb == <<data, conf, file, loaded>>
slog == <<slS, slR, slRef, adds>>

\* Strings and integers as rdb.c saves them, and data sets of one or two databases made of them.
Text(n, len, lzf) == [k |-> "text", v |-> <<n>>, len |-> len, z |-> lzf]
Int8(n) == <<0, 0, 0, 0, 0, 0, 0, n>>
Whole(v) == [k |-> "int", v |-> v, len |-> 1, z |-> FALSE]
Short(n) == Text(n, 3, FALSE)
Packed(n) == Text(n, 30, TRUE)
Small(n) == Whole(Int8(n))
KeyRow(n, o, e, i, f) == [key |-> Short(n), val |-> o, expire |-> e, idle |-> i, freq |-> f]
Str(s) == [t |-> "string", s |-> s]
Coll(t, enc, els) == [t |-> t, enc |-> enc, els |-> els]
ListObject ==
  [t |-> "list", nodes |-> <<[lzf |-> FALSE, entries |-> <<Small(1), Short(2)>>],
                             [lzf |-> TRUE, entries |-> <<Packed(1)>>]>>]
Pending(id, o) == [id |-> <<id>>, time |-> <<"t", id>>, count |-> id, owner |-> o]
StreamObject ==
  [t |-> "stream", packs |-> <<[key |-> <<1>>, entries |-> <<"p">>]>>, length |-> 2,
   last |-> <<3, 70>>,
   groups |-> <<[name |-> Short(1), last |-> <<2, 0>>,
                 pel |-> <<Pending(1, Short(2)), Pending(2, Short(1)), Pending(3, Short(2))>>,
                 consumers |-> <<[name |-> Short(1), seen |-> <<1>>],
                                 [name |-> Short(2), seen |-> <<2>>],
                                 [name |-> Short(3), seen |-> <<2>>]>>],
                [name |-> Short(2), last |-> <<0, 0>>, pel |-> <<>>, consumers |-> <<>>]>>]
Objects ==
  {Str(Short(1)), Str(Packed(2)), Str(Small(5)), Str([Text(0, 0, FALSE) EXCEPT !.v = <<>>]),
   ListObject, StreamObject,
   Coll("set", "intset", <<Small(1), Small(2)>>), Coll("set", "ht", <<Small(1), Short(1)>>),
   Coll("set", "ht", <<Small(1), Small(2)>>),
   Coll("zset", "ziplist", <<<<Short(1), 1>>, <<Short(2), 1>>>>),
   Coll("zset", "ht", <<<<Short(1), 1>>, <<Packed(2), 2>>>>),
   Coll("zset", "ht", <<<<Short(1), 1>>>>),
   Coll("hash", "ziplist", <<<<Short(1), Small(1)>>, <<Short(2), Short(1)>>>>),
   Coll("hash", "ht", <<<<Short(1), Packed(1)>>, <<Short(2), Short(1)>>>>),
   Coll("hash", "ht", <<<<Short(1), Small(9)>>>>)}

\* Integers at the borders of the encodings of a length and of an integer.
Borders ==
  {Int8(n) : n \in {0, 63, 64, 127, 128, 255}}
  \cup {<<0, 0, 0, 0, 0, 0, a, b>> : a \in {1, 63, 64, 128}, b \in {0, 255}}
  \cup {<<0, 0, 0, 0, a, 255, 255, 255>> : a \in {127, 255}}
  \cup {<<0, 0, 0, 0, 128, 0, 0, 0>>, <<0, 0, 0, 1, 0, 0, 0, 0>>, <<128, 0, 0, 0, 0, 0, 0, 0>>}
  \cup {<<255, 255, 255, 255, 255, 255, 255, a>> : a \in {127, 128, 255}}
  \cup {<<255, 255, 255, 255, 255, 255, 128, 0>>, <<255, 255, 255, 255, 128, 0, 0, 0>>,
        <<255, 255, 255, 255, 127, 255, 255, 255>>}
Files ==
  {<<<<KeyRow(1, o, None, None, None)>>, <<>>>> : o \in Objects}
  \cup {<<<<>>, <<KeyRow(1, Str(Whole(n)), e, None, f), KeyRow(2, Str(Short(1)), None, n, None)>>>> :
          e \in {None, 1, 9}, n \in Borders, f \in {None, 200}}
Usual == [intset |-> 2, ziplist |-> 2, master |-> TRUE, preamble |-> FALSE, now |-> 5]

Trim(by, maxlen, minid, approx, limit) ==
  [by |-> by, maxlen |-> maxlen, minid |-> minid, approx |-> approx, limit |-> limit]
StreamTrims ==
  {Trim("maxlen", 0, <<0, 0>>, FALSE, 1), Trim("maxlen", 1, <<0, 0>>, FALSE, -1),
   Trim("maxlen", 0, <<0, 0>>, TRUE, 1), Trim("maxlen", 1, <<0, 0>>, TRUE, -1),
   Trim("minid", 0, <<1, 1>>, FALSE, -1), Trim("minid", 0, <<1, 2>>, TRUE, -1)}

D == INSTANCE Dict WITH Keys <- {0, 3, 4}, WordBits <- 3, InitialSize <- 1, ForceRatio <- 1,
       MinFill <- 50, EmptyVisits <- 2, MaxCount <- 2, d <- dD

Z == INSTANCE SortedSet WITH Elements <- 1..4, Long <- {4}, Scores <- 0..1, MaxLevel <- 2,
       MaxEntries <- 2, FlagSets <- {{}, {"nx"}, {"xx", "gt"}, {"lt"}, {"incr"}},
       ref <- zRef

P == INSTANCE Ziplist WITH Elems <- {"tiny", "edge", "other", "big"},
       Body <- [tiny |-> 2, edge |-> 250, other |-> 250, big |-> 300], BigPrev <- 254,
       LenCap <- 3, MaxLen <- 4

\* Every command, without compression.
Q == INSTANCE Quicklist WITH Values <- {1, 2}, Fill <- 3, Depth <- 0, MinCompress <- 2,
       Commands <- {"push", "pop", "popcount", "trim", "set", "index", "range", "insert",
       "rem", "copy"}, MaxElements <- 6

\* A queue with compressed inner nodes.
C == INSTANCE Quicklist WITH Values <- {1, 2}, Fill <- 2, Depth <- 1, MinCompress <- 2,
       Commands <- {"push", "pop", "set"}, MaxElements <- 7

\* Keys that share prefixes, and probes beside them.
R == INSTANCE Rax WITH Keys <- {<<>>, <<1>>, <<1, 2>>, <<1, 2, 3>>, <<1, 2, 3, 1, 2>>,
       <<1, 3>>}, Probes <- {<<1, 1>>, <<1, 2, 1>>, <<1, 2, 3, 1>>, <<1, 2, 3, 2>>, <<2>>},
       Values <- {"v", Null}

\* The ranges of one sorted set ...
ZA == INSTANCE ZsetCommands WITH Keys <- {"a"}, Elements <- {1, 2, 3}, LongNames <- {3},
        IntNames <- {1}, MaxEntries <- 2, Scores <- {0, 2}, Weights <- {1},
        Aggregates <- {"sum"}, Inputs <- 1, RangeScores <- {0, 1, 2}, MaxScore <- 1

\* ... and the unions, intersections and differences of two, with infinite scores.
ZB == INSTANCE ZsetCommands WITH Keys <- {"a", "b"}, Elements <- {1, 2}, LongNames <- {2},
        IntNames <- {1}, MaxEntries <- 1, Scores <- {1, -1000, 1000}, Weights <- {0, 1},
        Aggregates <- {"sum", "min"}, Inputs <- 2, RangeScores <- {0}, MaxScore <- 1

B == INSTANCE RdbCodec WITH DataSets <- Files, Configs <- {Usual, [Usual EXCEPT !.intset =
       1, !.ziplist = 1], [Usual EXCEPT !.master = FALSE], [Usual EXCEPT !.preamble = TRUE]}

SL == INSTANCE StreamLog WITH Wide <- 16, Narrow <- 8, NodeMax <- <<2, 3>>, NodeBytes <- 14,
        Ids <- {<<0, 1>>, <<1, 0>>, <<1, 2>>, <<2, 0>>}, Times <- {1},
        Items <- {[f |-> <<5>>, v |-> <<6>>], [f |-> <<5, 7>>, v |-> <<8, 9>>]},
        Trims <- StreamTrims, Lowers <- FALSE, MaxAdds <- 3, s <- slS, r <- slR,
        ref <- slRef

zsetOff == zobj = "off" /\ zRef = "off"
zipOff == zls = "off" /\ content = "off"
listOff == ql = "off" /\ want = "off"
radixOff == head = "off" /\ numele = "off" /\ numnodes = "off" /\ stored = "off"
zcommandsOff == db = "off"
rdbOff == data = "off" /\ conf = "off" /\ file = "off" /\ loaded = "off"
slogOff == slS = "off" /\ slR = "off" /\ slRef = "off" /\ adds = "off"

Init ==
  /\ focus \in {"dict", "zset", "zip", "list", "clist", "rax", "zranges", "zalgebra", "rdb",
                 "stream"}
  /\ D!Init
  /\ IF focus = "zset" THEN Z!Init ELSE zsetOff
  /\ IF focus = "zip" THEN P!Init ELSE zipOff
  /\ IF focus = "list" THEN Q!Init
     ELSE IF focus = "clist" THEN C!Init ELSE listOff
  /\ IF focus = "rax" THEN R!Init ELSE radixOff
  /\ IF focus = "zranges" THEN ZA!Init
     ELSE IF focus = "zalgebra" THEN ZB!Init ELSE zcommandsOff
  /\ IF focus = "rdb" THEN B!Init ELSE rdbOff
  /\ IF focus = "stream" THEN SL!Init ELSE slogOff

\* The components out of focus stay as they are.
Still ==
  /\ UNCHANGED focus
  /\ focus # "dict" => UNCHANGED dict
  /\ focus # "zset" => UNCHANGED zset
  /\ focus # "zip" => UNCHANGED zip
  /\ focus \notin {"list", "clist"} => UNCHANGED list
  /\ focus # "rax" => UNCHANGED radix
  /\ focus \notin {"zranges", "zalgebra"} => UNCHANGED zcommands
  /\ focus # "rdb" => UNCHANGED rdb
  /\ focus # "stream" => UNCHANGED slog

Next ==
  \/ focus = "dict" /\ Still /\ D!Next
  \/ focus = "zset" /\ Still /\ Z!Next
  \/ focus = "zip" /\ Still /\ P!Next
  \/ focus = "list" /\ Still /\ Q!Next
  \/ focus = "clist" /\ Still /\ C!Next
  \/ focus = "rax" /\ Still /\ R!Next
  \/ focus = "zranges" /\ Still /\ ZA!Next
  \/ focus = "zalgebra" /\ Still /\ ZB!Next
  \/ focus = "rdb" /\ Still /\ B!Next
  \/ focus = "stream" /\ Still /\ SL!Next

Spec == Init /\ [][Next]_<<focus, dict, zset, zip, list, radix, zcommands, rdb, slog>>

-----------------------------------------------------------------------------
(* The properties, each made of those stated in the modules of its components. *)

\* Hash tables, whatever part of them is rehashed: both tables agree with the keys stored,
\* any key can be drawn at random, SCAN meets every key that stays, and a safe iterator
\* meets each key once.
HashTablesHold ==
  focus = "dict" => /\ D!TablesConsistent /\ D!RandomKeyReachesAll
                    /\ D!ScanComplete /\ D!IteratedOnce

\* Radix trees: exactly the keys stored are found, the counters count, no node is left that
\* raxRemove should have freed, and iterators seek where they are told to.  Streams, which are
\* radix trees of listpacks: ranges and counts are right on the master, on its replica, and
\* after the stream is rebuilt from a rewritten append-only file.
RadixTreesHold ==
  /\ focus = "rax" => R!FindsWhatIsStored /\ R!NodesAreCounted /\ R!WellShaped /\ R!SeeksAreTrue
  /\ focus = "stream" => /\ SL!XrangesAreTrue /\ SL!EntriesAreCounted
                         /\ SL!ReplicaFollows /\ SL!RewriteRebuilds

\* Lists: a ziplist can be read both ways after any cascade of updates, and a quicklist holds
\* the list although its nodes are split, merged and compressed.
ListsHold ==
  /\ focus = "zip" => P!ZiplistValid /\ P!ReadsBothWays /\ P!AssertionsHold
  /\ focus = "list" => Q!HoldsTheList
  /\ focus = "clist" => C!HoldsTheList /\ C!NeverOnCompressed

\* Sorted sets: the skip list and the dictionary hold the same scores with exact ranks, and
\* the commands on ranges, counts, unions, intersections and differences reply as defined.
SortedSetsHold ==
  /\ focus = "zset" => /\ Z!SkiplistWellFormed /\ Z!HoldsTheScores
                       /\ Z!RanksAreExact /\ Z!CountIsExact
  /\ focus = "zranges" => ZA!ZrangesAreTrue /\ ZA!ZcountsAreTrue /\ ZA!RandomRepliesFit
  /\ focus = "zalgebra" => ZB!ScoresAreOrdered /\ ZB!AlgebraIsTrue /\ ZB!ZiplistsAreSmall

\* RDB files: what is saved is what is loaded, in an encoding that fits the limits in force,
\* and a file that was cut anywhere is refused.
FilesReadBack ==
  focus = "rdb" => B!RoundTrip /\ B!CutIsRefused /\ B!EncodingFits
=============================================================================
