----------------------------- MODULE AppendOnly -----------------------------
(***************************************************************************)
(* Redis persistence: the append only file (aof.c: feeding, flushing and   *)
(* fsyncing it, rewriting it in a child with the differences sent through  *)
(* a pipe, switching it on and off, loading it after a crash).             *)
(*                                                                         *)
(* The data set is the sequence of the writes <<db, n>> executed so far. A *)
(* command in the file is two bytes long, so that it can be cut; the dump  *)
(* that begins a rewritten file is one command.  Time only decides whether *)
(* a second, or two, have passed.                                          *)
(***************************************************************************)
EXTENDS Naturals, Sequences, SequencesExt, FiniteSets

CONSTANTS DB, Policies, Lazy, None,
          MaxWrites, MaxRewrites, MaxCrashes, MaxErrors, MaxSwitches   \* bounds

VARIABLES data, owed, replied,   \* executed; the writes whose reply is buffered, or was sent
          policy,             \* appendfsync, and no-appendfsync-on-rewrite
          aof,                \* the append only state of the server
          file, synced,       \* the file, and how much of it is on the disk for sure
          job,                \* the fsync in the bio thread, or None
          child, rw,          \* the child; the rewrite buffer, the pipe and the handshake
          pairs,              \* the transactions, as pairs of writes
          used

aofVars == <<data, owed, replied, policy, aof, file, synced, job, child, rw, pairs, used>>

Bytes(cmd) == <<[cmd |-> cmd, half |-> 1], [cmd |-> cmd, half |-> 2]>>
Sel(db) == [op |-> "select", db |-> db]
Put(n) == [op |-> "put", n |-> n]
Dump(d) == [op |-> "dump", data |-> d]
Multi == [op |-> "multi"]
Exec == [op |-> "exec"]

NoChild == [type |-> None, snap |-> <<>>, diff |-> <<>>, file |-> <<>>, stage |-> "none"]
NoRw == [buf |-> <<>>, pipe |-> <<>>, stop |-> FALSE]

Init ==
  /\ data = <<>> /\ owed = {} /\ replied = {} /\ policy \in [fsync : Policies, lazy : Lazy]
  /\ aof = [state |-> "on", buf |-> <<>>, sel |-> None, ok |-> TRUE, postponed |-> FALSE,
            scheduled |-> FALSE, size |-> 0]
  /\ file = <<>> /\ synced = 0 /\ job = None /\ child = NoChild /\ rw = NoRw /\ pairs = {}
  /\ used = [writes |-> 0, rewrites |-> 0, crashes |-> 0, errors |-> 0, switches |-> 0]

-----------------------------------------------------------------------------
(* loadAppendOnlyFile: what the bytes rebuild, and how many of them are    *)
(* valid: an incomplete command or transaction at the end is cut off.      *)

\* queueMultiCommand, of the fake client.
Queued(s, put) == [s EXCEPT !.queue = Append(@, put)]

RECURSIVE Replay(_, _, _)
Replay(bytes, at, s) ==
  IF at + 1 > Len(bytes) THEN s
  ELSE LET c == bytes[at].cmd
           t == CASE c.op = "select" -> [s EXCEPT !.db = c.db]
                  [] c.op = "dump"   -> [s EXCEPT !.data = c.data, !.db = 0]
                  [] c.op = "multi"  -> [s EXCEPT !.multi = TRUE, !.before = s.valid]
                  [] c.op = "exec"   -> [s EXCEPT !.data = @ \o s.queue, !.queue = <<>>,
                                                  !.multi = FALSE]
                  [] c.op = "put" /\ s.multi  -> Queued(s, <<s.db, c.n>>)
                  [] c.op = "put" /\ ~s.multi -> [s EXCEPT !.data = Append(@, <<s.db, c.n>>)]
       IN Replay(bytes, at + 2, [t EXCEPT !.valid = at + 1])

Parsed(bytes) == Replay(bytes, 1, [data |-> <<>>, db |-> 0, multi |-> FALSE, queue |-> <<>>,
                                   valid |-> 0, before |-> 0])

Rebuilt(bytes) == Parsed(bytes).data

Numbers(d) == {d[i][2] : i \in DOMAIN d}


\* valid_up_to
ValidUpTo(bytes) ==
  LET p == Parsed(bytes) IN IF p.multi THEN p.before ELSE p.valid

-----------------------------------------------------------------------------
(* Executing and feeding.                                                  *)

\* feedAppendOnlyFile, of some commands for db.
feedAppendOnlyFile(db, cmds) ==
  LET all == (IF aof.sel = db THEN <<>> ELSE <<Sel(db)>>) \o cmds
      bytes == FlattenSeq([i \in DOMAIN all |-> Bytes(all[i])])
  IN IF aof.state = "off" THEN UNCHANGED <<aof, rw>>
     ELSE /\ aof' = [aof EXCEPT !.sel = db,
                                !.buf = IF aof.state = "on" THEN @ \o bytes ELSE @]
          /\ rw' = IF child.type = "aof" THEN [rw EXCEPT !.buf = @ \o bytes] ELSE rw

\* A write, or a transaction of two.  Writes are refused while the file cannot be written.
Execute(db, n) ==
  LET m == used.writes IN
  /\ m + n <= MaxWrites /\ (aof.state # "off" => aof.ok)
  /\ owed' = owed \cup (m + 1)..(m + n)
  /\ data' = data \o [i \in 1..n |-> <<db, m + i>>]
  /\ feedAppendOnlyFile(db, IF n = 1 THEN <<Put(m + 1)>>
                            ELSE <<Multi, Put(m + 1), Put(m + 2), Exec>>)
  /\ pairs' = IF n = 2 THEN pairs \cup {<<m + 1, m + 2>>} ELSE pairs
  /\ used' = [used EXCEPT !.writes = m + n]
  /\ UNCHANGED <<replied, policy, file, synced, job, child>>

-----------------------------------------------------------------------------
(* flushAppendOnlyFile.                                                    *)


\* sdsrange(aof_buf, nwritten, -1): what is left after a short write that could not be undone.
Rest(buf, n) == SubSeq(buf, n + 1, Len(buf))

\* The outcome of a flush: w is the state of the file side.  n bytes are written; `undo': the
\* short write was removed with ftruncate; `late': a second has passed since the last fsync.
\* The result says whether the server goes on (with appendfsync always an error ends it).
Written(w, n, undo, late) ==
  LET len == Len(w.aof.buf)
      all == [w EXCEPT !.file = @ \o w.aof.buf, !.aof.buf = <<>>, !.aof.ok = TRUE,
                       !.aof.postponed = FALSE, !.aof.size = @ + len]
      short == [w EXCEPT !.aof.ok = FALSE, !.aof.postponed = FALSE,
                         !.file = IF undo THEN @ ELSE @ \o SubSeq(w.aof.buf, 1, n),
                         !.aof.buf = IF undo THEN @ ELSE Rest(@, n),
                         !.aof.size = IF undo THEN @ ELSE @ + n]
  IN IF n < len THEN [short EXCEPT !.up = policy.fsync # "always"]
     ELSE IF policy.lazy /\ child.type # None THEN all
     ELSE IF policy.fsync = "always" THEN [all EXCEPT !.synced = Len(all.file)]
     ELSE IF policy.fsync = "everysec" /\ late /\ w.job = None
       THEN [all EXCEPT !.job = Len(all.file)]
     ELSE all

FileSide == [aof |-> aof, file |-> file, synced |-> synced, job |-> job, up |-> TRUE]

\* aof_flush_postponed_start
PutOff == [FileSide EXCEPT !.aof.postponed = TRUE]

\* flushAppendOnlyFile(force): it may be put off while an fsync is in progress.
Flushed(force, n, undo, late, waited) ==
  IF aof.buf = <<>> THEN
    (IF policy.fsync = "everysec" /\ job = None /\ late /\ synced < aof.size
        /\ ~(policy.lazy /\ child.type # None)
       THEN [FileSide EXCEPT !.job = Len(file)] ELSE FileSide)
  ELSE IF policy.fsync = "everysec" /\ ~force /\ job # None /\ ~(aof.postponed /\ waited)
    THEN PutOff
  ELSE Written(FileSide, n, undo, late)

\* What flushAppendOnlyFile may be given by the system.
Outcomes ==
  {o \in [n : 0..Len(aof.buf), undo : BOOLEAN, late : BOOLEAN, waited : BOOLEAN] :
     /\ o.n < Len(aof.buf) => used.errors < MaxErrors /\ ~o.late
     /\ o.n = Len(aof.buf) \/ o.n = 0 => o.undo}

\* The process ends; what the system has written is kept.  With a power failure only what was
\* synced is sure to be there.  The server starts again and loads the file.
Restart(power) ==
  /\ used.crashes < MaxCrashes /\ aof.state = "on"
  /\ \E n \in (IF power THEN synced..Len(file) ELSE {Len(file)}) :
       LET left == SubSeq(file, 1, n)
           valid == SubSeq(left, 1, ValidUpTo(left))
       IN /\ data' = Rebuilt(left) /\ owed' = {}
          /\ replied' = replied \cap Numbers(Rebuilt(left))
          /\ file' = valid
          /\ synced' = IF power \/ synced > Len(valid) THEN Len(valid) ELSE synced
          /\ aof' = [state |-> "on", buf |-> <<>>, sel |-> None, ok |-> TRUE,
                     postponed |-> FALSE, scheduled |-> FALSE, size |-> Len(valid)]
  /\ job' = None /\ child' = NoChild /\ rw' = NoRw
  /\ used' = [used EXCEPT !.crashes = @ + 1]
  /\ UNCHANGED <<policy, pairs>>

\* beforeSleep: the file is written before the replies are.
beforeSleep ==
  \E o \in Outcomes :
    LET w == IF aof.state = "on" THEN Flushed(FALSE, o.n, o.undo, o.late, o.waited) ELSE FileSide
    IN IF w.up
         THEN /\ aof' = w.aof /\ file' = w.file /\ synced' = w.synced /\ job' = w.job
              /\ replied' = replied \cup owed /\ owed' = {}
              /\ used' = [used EXCEPT !.errors = IF o.n < Len(aof.buf) THEN @ + 1 ELSE @]
              /\ UNCHANGED <<data, policy, child, rw, pairs>>
         ELSE Restart(FALSE)

\* The bio thread has finished.
FsyncDone ==
  /\ job # None
  /\ synced' = IF job > synced THEN job ELSE synced
  /\ job' = None
  /\ UNCHANGED <<data, owed, replied, policy, aof, file, child, rw, pairs, used>>

-----------------------------------------------------------------------------
(* The rewrite.                                                            *)

\* rewriteAppendOnlyFileBackground
rewriteAppendOnlyFileBackground ==
  /\ child' = [NoChild EXCEPT !.type = "aof", !.snap = data, !.stage = "dump"]
  /\ rw' = NoRw
  /\ aof' = [aof EXCEPT !.scheduled = FALSE, !.sel = None]

\* bgrewriteaofCommand, and serverCron for a rewrite that was scheduled.
bgrewriteaofCommand ==
  /\ used.rewrites < MaxRewrites
  /\ IF child.type = None THEN rewriteAppendOnlyFileBackground
     ELSE child.type # "aof" /\ aof' = [aof EXCEPT !.scheduled = TRUE] /\ UNCHANGED <<child, rw>>
  /\ used' = [used EXCEPT !.rewrites = @ + 1]
  /\ UNCHANGED <<data, owed, replied, policy, file, synced, job, pairs>>

Scheduled ==
  /\ child.type = None /\ aof.scheduled /\ rewriteAppendOnlyFileBackground
  /\ UNCHANGED <<data, owed, replied, policy, file, synced, job, pairs, used>>

\* A save in another child.
BgSave ==
  /\ child.type = None /\ used.rewrites < MaxRewrites
  /\ child' = [NoChild EXCEPT !.type = "rdb"]
  /\ used' = [used EXCEPT !.rewrites = @ + 1]
  /\ UNCHANGED <<data, owed, replied, policy, aof, file, synced, job, rw, pairs>>

\* aofChildWriteDiffData
aofChildWriteDiffData ==
  /\ child.type = "aof" /\ ~rw.stop /\ rw.buf # <<>>
  /\ \E n \in 1..Len(rw.buf) :
       rw' = [rw EXCEPT !.pipe = @ \o SubSeq(rw.buf, 1, n), !.buf = SubSeq(@, n + 1, Len(@))]
  /\ UNCHANGED <<data, owed, replied, policy, aof, file, synced, job, child, pairs, used>>

\* aofReadDiffFromParent
aofReadDiffFromParent ==
  /\ child.stage = "dump" /\ rw.pipe # <<>>
  /\ child' = [child EXCEPT !.diff = @ \o rw.pipe] /\ rw' = [rw EXCEPT !.pipe = <<>>]
  /\ UNCHANGED <<data, owed, replied, policy, aof, file, synced, job, pairs, used>>

\* The child asks the parent to stop; the parent agrees; the child reads what is left, writes
\* everything and syncs it.
ChildAsks ==
  /\ child.stage = "dump" /\ child' = [child EXCEPT !.stage = "asks"]
  /\ UNCHANGED <<data, owed, replied, policy, aof, file, synced, job, rw, pairs, used>>

aofChildPipeReadable ==
  /\ child.stage = "asks" /\ ~rw.stop
  /\ rw' = [rw EXCEPT !.stop = TRUE]
  /\ UNCHANGED <<data, owed, replied, policy, aof, file, synced, job, child, pairs, used>>


\* The last aofReadDiffFromParent of rewriteAppendOnlyFile.
LastDiff == child.diff \o rw.pipe

rewriteAppendOnlyFile ==
  /\ child.stage = "asks" /\ rw.stop
  /\ child' = [child EXCEPT !.stage = "ok", !.file = Bytes(Dump(child.snap)) \o LastDiff]
  /\ rw' = [rw EXCEPT !.pipe = <<>>]
  /\ UNCHANGED <<data, owed, replied, policy, aof, file, synced, job, pairs, used>>

\* An error or a signal ends the child; a saving child ends.
ChildFails ==
  /\ child.type # None /\ child.stage # "ok" /\ child.stage # "failed"
  /\ child.type = "aof" => used.errors < MaxErrors
  /\ child' = [child EXCEPT !.stage = "failed"]
  /\ used' = [used EXCEPT !.errors = IF child.type = "aof" THEN @ + 1 ELSE @]
  /\ UNCHANGED <<data, owed, replied, policy, aof, file, synced, job, rw, pairs>>

\* Mutant: the new file is not synced before it is used.
SwitchUnsynced(new) == Len(child.file)

\* The child synced what it wrote; with appendfsync always the rest is synced too.
SwitchSynced(new) == IF policy.fsync = "always" THEN Len(new) ELSE Len(child.file)

\* backgroundRewriteDoneHandler and checkChildrenDone.  `good' is false when opening, writing,
\* syncing or renaming the new file fails.
backgroundRewriteDoneHandler(good) ==
  LET new == child.file \o rw.buf
      again == [aof EXCEPT !.scheduled = @ \/ (child.type = "aof" /\ aof.state = "wait")]
  IN
  /\ child.stage \in {"ok", "failed"}
  /\ good => child.stage = "ok"
  /\ ~good /\ child.stage = "ok" => used.errors < MaxErrors
  /\ IF good
       THEN /\ file' = new
            /\ synced' = SwitchSynced(new)
            /\ job' = IF policy.fsync = "everysec" THEN Len(new) ELSE None
            /\ aof' = IF aof.state = "off" THEN aof
                      ELSE [aof EXCEPT !.sel = None, !.buf = <<>>, !.size = Len(new),
                                       !.state = "on"]
            /\ UNCHANGED used
       ELSE /\ aof' = again
            /\ used' = [used EXCEPT !.errors = IF child.stage = "ok" THEN @ + 1 ELSE @]
            /\ UNCHANGED <<file, synced, job>>
  /\ child' = NoChild /\ rw' = NoRw
  /\ UNCHANGED <<data, owed, replied, policy, pairs>>

-----------------------------------------------------------------------------
(* CONFIG SET appendonly.                                                  *)

\* The buffer is written, or lost if that fails; a rewriting child is killed.
stopAppendOnly ==
  /\ aof.state # "off" /\ used.switches < MaxSwitches
  /\ \E n \in {0, Len(aof.buf)} :
       LET w == IF aof.buf = <<>> THEN FileSide ELSE Written(FileSide, n, TRUE, FALSE) IN
       /\ n = 0 /\ aof.buf # <<>> => used.errors < MaxErrors /\ policy.fsync # "always"
       /\ file' = w.file /\ synced' = Len(w.file) /\ job' = w.job
       /\ aof' = [w.aof EXCEPT !.state = "off", !.buf = <<>>, !.sel = None, !.scheduled = FALSE]
  /\ IF child.type = "aof" THEN child' = NoChild /\ rw' = NoRw ELSE UNCHANGED <<child, rw>>
  /\ used' = [used EXCEPT !.switches = @ + 1]
  /\ UNCHANGED <<data, owed, replied, policy, pairs>>

startAppendOnly ==
  /\ aof.state = "off" /\ used.switches < MaxSwitches
  /\ IF child.type = "rdb"
       THEN aof' = [aof EXCEPT !.state = "wait", !.scheduled = TRUE, !.ok = TRUE] /\ UNCHANGED <<child, rw>>
       ELSE /\ child' = [NoChild EXCEPT !.type = "aof", !.snap = data, !.stage = "dump"]
            /\ rw' = NoRw
            /\ aof' = [aof EXCEPT !.state = "wait", !.scheduled = FALSE, !.sel = None, !.ok = TRUE]
  /\ used' = [used EXCEPT !.switches = @ + 1]
  /\ UNCHANGED <<data, owed, replied, policy, file, synced, job, pairs>>

Next ==
  \/ \E db \in DB, n \in 1..2 : Execute(db, n)
  \/ beforeSleep \/ FsyncDone \/ bgrewriteaofCommand \/ Scheduled \/ BgSave
  \/ aofChildWriteDiffData \/ aofReadDiffFromParent \/ ChildAsks \/ aofChildPipeReadable
  \/ rewriteAppendOnlyFile \/ ChildFails \/ stopAppendOnly \/ startAppendOnly
  \/ \E good \in BOOLEAN : backgroundRewriteDoneHandler(good)
  \/ \E power \in BOOLEAN : Restart(power)

Spec == Init /\ [][Next]_aofVars

-----------------------------------------------------------------------------
\* The file and the buffer together rebuild the data set, each write in its db: through short
\* writes, rewrites with their differences, restarts from files that were cut, and while the
\* file is switched off and on.
FileMatchesData == aof.state = "on" => Rebuilt(file \o aof.buf) = data

\* "we have a contract with the user that on acknowledged or observed writes are is synced on
\* disk": with appendfsync always (and no-appendfsync-on-rewrite no) a write that was replied to
\* survives a power failure, also across the change to a rewritten file.
AlwaysIsSafe ==
  policy.fsync = "always" /\ ~policy.lazy /\ aof.state = "on" =>
    replied \subseteq Numbers(Rebuilt(SubSeq(file, 1, synced)))

\* Under every policy a write that was replied to survives the end of the process, unless the
\* flush was put off for a slow fsync or the file could not be written.
KillIsSafe ==
  aof.state = "on" /\ aof.ok /\ ~aof.postponed => replied \subseteq Numbers(Rebuilt(file))

\* A transaction is in the data set as a whole or not at all, also after a restart from a file
\* that was cut in the middle of it.
TransactionsWhole ==
  \A p \in pairs : p[1] \in Numbers(data) <=> p[2] \in Numbers(data)

\* aof.c:472 "set an error to stop accepting writes as long as the error condition is not
\* cleared": writes are refused only while something waits in the buffer, for then serverCron
\* retries, and clears the error when it is written.
RefusalHasReason == aof.state = "on" /\ ~aof.ok => aof.buf # <<>>
=============================================================================
