--------------------------- MODULE PlannedFailover ---------------------------
(***************************************************************************)
(* Redis replication: acknowledged offsets and what rests on them, the     *)
(* WAIT command and the FAILOVER command (replication.c: REPLCONF ACK,     *)
(* waitCommand, processClientsWaitingReplicas, failoverCommand,            *)
(* updateFailoverStatus, abortFailover, the PSYNC FAILOVER request).       *)
(*                                                                         *)
(* One server, the old master, and its replicas.  A log is the sequence of *)
(* the commands a server has executed; an offset is a length.              *)
(***************************************************************************)
EXTENDS Naturals, Sequences, FiniteSets

CONSTANTS Replica, Client, NoOne,
          MaxWrites,      \* bound: writes of clients
          MaxTroubles,    \* bound: PINGs, and replicas that are lost
          MaxFailovers,   \* bound: FAILOVER commands
          MaxWaits        \* bound: WAIT commands

ASSUME PlannedAssumption ==
  /\ IsFiniteSet(Replica) /\ NoOne \notin Replica
  /\ {MaxWrites, MaxTroubles, MaxFailovers, MaxWaits} \subseteq Nat

VARIABLES old,     \* the old master: role, failover state, pause
          log,     \* its commands
          rp,      \* Replica -> role, log, connection and acknowledgements
          cl,      \* Client -> its last offset, and what it waits for
          said,    \* the last reply to a WAIT
          atTurn,  \* the log of the old master when a replica took over on its request
          used

plannedVars == <<old, log, rp, cl, said, atTurn, used>>

Idle == [waits |-> FALSE, off |-> 0, n |-> 0, turn |-> 0]
NoFailover == [state |-> "none", target |-> NoOne, timed |-> FALSE, force |-> FALSE]

PlannedInit ==
  /\ old = [master |-> NoOne, fo |-> NoFailover, paused |-> FALSE, link |-> "none"]
  /\ log = <<>>
  /\ rp = [r \in Replica |-> [master |-> FALSE, same |-> TRUE, log |-> <<>>, up |-> TRUE,
                              ack |-> 0, sent |-> NoOne]]
  /\ cl = [c \in Client |-> [woff |-> 0, wait |-> Idle]]
  /\ said = [n |-> 0, off |-> 0] /\ atTurn = NoOne
  /\ used = [writes |-> 0, troubles |-> 0, failovers |-> 0, waits |-> 0]

Off == Len(log)
Begins(s, t) == Len(s) <= Len(t) /\ \A i \in 1..Len(s) : t[i] = s[i]
StillMaster == old.master = NoOne

-----------------------------------------------------------------------------
(* Writes and acknowledgements.                                            *)

\* A command of a client, and the offset it leaves behind (processCommand).
ClientWrite(c) ==
  /\ StillMaster /\ ~old.paused /\ ~cl[c].wait.waits /\ used.writes < MaxWrites
  /\ log' = Append(log, used.writes + 1)
  /\ cl' = [cl EXCEPT ![c].woff = Off + 1]
  /\ used' = [used EXCEPT !.writes = @ + 1]
  /\ UNCHANGED <<old, rp, said, atTurn>>

\* A replica that was promoted takes writes of its own.
WriteThere(r) ==
  /\ rp[r].master /\ used.writes < MaxWrites
  /\ rp' = [rp EXCEPT ![r].log = Append(@, used.writes + 1)]
  /\ used' = [used EXCEPT !.writes = @ + 1]
  /\ UNCHANGED <<old, log, cl, said, atTurn>>

\* replicationCron: not while a failover that has a timeout holds the clients back.
Ping ==
  /\ StillMaster /\ used.troubles < MaxTroubles /\ (\E r \in Replica : rp[r].up)
  /\ ~(old.fo.timed /\ old.paused)
  /\ log' = Append(log, 0) /\ used' = [used EXCEPT !.troubles = @ + 1]
  /\ UNCHANGED <<old, rp, cl, said, atTurn>>

\* A replica executes what comes next; it sends its offset from time to time.
Apply(r) ==
  /\ rp[r].up /\ ~rp[r].master /\ StillMaster /\ Len(rp[r].log) < Off
  /\ rp' = [rp EXCEPT ![r].log = Append(@, log[Len(@) + 1])]
  /\ UNCHANGED <<old, log, cl, said, atTurn, used>>

replicationSendAck(r) ==
  /\ rp[r].up /\ ~rp[r].master /\ rp[r].sent = NoOne
  /\ rp' = [rp EXCEPT ![r].sent = Len(rp[r].log)]
  /\ UNCHANGED <<old, log, cl, said, atTurn, used>>

\* REPLCONF ACK
replconfAck(r) ==
  /\ rp[r].sent # NoOne
  /\ rp' = [rp EXCEPT ![r].ack = IF rp[r].sent > @ THEN rp[r].sent ELSE @, ![r].sent = NoOne]
  /\ UNCHANGED <<old, log, cl, said, atTurn, used>>

\* The connection of a replica ends; later it continues where it was, as a new client.
Drop(r) ==
  /\ rp[r].up /\ used.troubles < MaxTroubles
  /\ rp' = [rp EXCEPT ![r].up = FALSE, ![r].ack = 0, ![r].sent = NoOne]
  /\ used' = [used EXCEPT !.troubles = @ + 1]
  /\ UNCHANGED <<old, log, cl, said, atTurn>>

\* syncCommand: "Don't let replicas sync with us while we're failing over".
Reconnect(r) ==
  /\ ~rp[r].up /\ ~rp[r].master /\ StillMaster /\ old.fo.state = "none"
  /\ rp' = [rp EXCEPT ![r].up = TRUE, ![r].same = TRUE]
  /\ UNCHANGED <<old, log, cl, said, atTurn, used>>

-----------------------------------------------------------------------------
(* WAIT.                                                                   *)

replicationCountAcksByOffset(off) == Cardinality({r \in Replica : rp[r].up /\ rp[r].ack >= off})

waitCommand(c, n) ==
  LET acks == replicationCountAcksByOffset(cl[c].woff) IN
  /\ StillMaster /\ ~cl[c].wait.waits /\ used.waits < MaxWaits
  /\ used' = [used EXCEPT !.waits = @ + 1]
  /\ IF acks >= n THEN said' = [n |-> acks, off |-> cl[c].woff] /\ UNCHANGED cl
     ELSE /\ cl' = [cl EXCEPT ![c].wait = [waits |-> TRUE, off |-> cl[c].woff, n |-> n,
                                            turn |-> used.waits + 1]]
          /\ UNCHANGED said
  /\ UNCHANGED <<old, log, rp, atTurn>>

\* clients_waiting_acks has the latest client first: d is met before c.
Met(d, c) == cl[d].wait.turn > cl[c].wait.turn

Acks(c) == replicationCountAcksByOffset(cl[c].wait.off)

\* What last_offset and last_numreplicas hold when c is met, as the client whose count they
\* are: the last one met before c of those, `counted', that a count of their own satisfied.
LastCounted(counted, c) ==
  {d \in counted : Met(d, c) /\ \A e \in counted : Met(e, c) => ~Met(d, e)}

\* The count of d is good for c.
Reused(counted, c) ==
  {d \in LastCounted(counted, c) : /\ cl[d].wait.off > 0 /\ cl[d].wait.off >= cl[c].wait.off
                                   /\ Acks(d) >= cl[c].wait.n}

\* In beforeSleep: those who are satisfied are told a count, which may be that of an earlier
\* client with an offset as high.
processClientsWaitingReplicas ==
  LET waiting == {c \in Client : cl[c].wait.waits} IN
  \E counted \in (SUBSET waiting) \ {{}} :
    LET done == counted \cup {c \in waiting : Reused(counted, c) # {}} IN
    /\ counted = {c \in waiting : Reused(counted, c) = {} /\ Acks(c) >= cl[c].wait.n}
    /\ \E c \in done : \E d \in IF c \in counted THEN {c} ELSE Reused(counted, c) :
         said' = [n |-> Acks(d), off |-> cl[c].wait.off]
    /\ cl' = [c \in Client |-> IF c \in done THEN [cl[c] EXCEPT !.wait = Idle] ELSE cl[c]]
    /\ UNCHANGED <<old, log, rp, atTurn, used>>

\* replyToBlockedClientTimedOut
WaitTimesOut(c) ==
  /\ cl[c].wait.waits
  /\ said' = [n |-> replicationCountAcksByOffset(cl[c].wait.off), off |-> cl[c].wait.off]
  /\ cl' = [cl EXCEPT ![c].wait = Idle]
  /\ UNCHANGED <<old, log, rp, atTurn, used>>

-----------------------------------------------------------------------------
(* FAILOVER.                                                               *)

failoverCommand(target, timed, force) ==
  /\ StillMaster /\ old.fo.state = "none" /\ used.failovers < MaxFailovers
  /\ \E r \in Replica : rp[r].up
  /\ force => timed /\ target # NoOne
  /\ target # NoOne => rp[target].up
  /\ old' = [old EXCEPT !.paused = TRUE, !.fo = [state |-> "wait", target |-> target,
                                                  timed |-> timed, force |-> force]]
  /\ used' = [used EXCEPT !.failovers = @ + 1]
  /\ UNCHANGED <<log, rp, cl, said, atTurn>>

\* CLIENT UNPAUSE by a user.
Unpause ==
  /\ old.paused /\ old' = [old EXCEPT !.paused = FALSE]
  /\ UNCHANGED <<log, rp, cl, said, atTurn, used>>

\* replicationSetMaster: the old master becomes a replica; its blocked clients and its replicas
\* are disconnected.
SetMaster(r) ==
  /\ old' = [old EXCEPT !.master = r, !.fo.state = "progress", !.fo.target = r, !.link = "connect"]
  /\ cl' = [c \in Client |-> [cl[c] EXCEPT !.wait = Idle]]
  /\ rp' = [q \in Replica |-> [rp[q] EXCEPT !.up = FALSE, !.ack = 0, !.sent = NoOne]]

\* clearFailoverState
clearFailoverState(x) == [x EXCEPT !.fo = NoFailover, !.paused = FALSE]

abortFailover(x) ==
  clearFailoverState(IF x.fo.state = "progress" THEN [x EXCEPT !.master = NoOne, !.link = "none"]
                     ELSE x)

\* Mutant: a replica that has the writes of all clients is good enough.
CaughtUpWithWoff(r) == rp[r].up /\ \A c \in Client : rp[r].ack >= cl[c].woff

CaughtUp(r) == rp[r].up /\ rp[r].ack = Off

\* updateFailoverStatus, in replicationCron.  `late': failover_end_time has passed.
updateFailoverStatus(late) ==
  /\ old.fo.state = "wait" /\ (late => old.fo.timed)
  /\ \/ /\ late /\ old.fo.force /\ SetMaster(old.fo.target)
     \/ /\ late /\ ~old.fo.force /\ old' = abortFailover(old) /\ UNCHANGED <<cl, rp>>
     \/ /\ ~late
        /\ \E r \in Replica : CaughtUp(r) /\ old.fo.target \in {NoOne, r} /\ SetMaster(r)
  /\ UNCHANGED <<log, said, atTurn, used>>

FailoverAbort ==
  /\ old.fo.state # "none" /\ old' = abortFailover(old)
  /\ UNCHANGED <<log, rp, cl, said, atTurn, used>>

\* The replica gets PSYNC <id> <offset> FAILOVER: it must be a replica, of the same history.
\* What it answers may be lost.
PsyncFailover(lost) ==
  LET r == old.master IN
  /\ old.link = "connect" /\ old.fo.state = "progress"
  /\ IF rp[r].master \/ ~rp[r].same
       THEN /\ old' = [old EXCEPT !.link = IF lost THEN "connect" ELSE "refused"]
            /\ UNCHANGED <<rp, atTurn>>
       ELSE /\ rp' = [rp EXCEPT ![r].master = TRUE]
            /\ atTurn' = IF old.fo.force THEN atTurn ELSE log
            /\ old' = [old EXCEPT !.link = IF lost THEN "connect" ELSE "accepted"]
  /\ UNCHANGED <<log, cl, said, used>>

\* syncWithMaster: the answer.  A full resynchronization gives the data of the new master.
PsyncReply ==
  /\ old.link \in {"refused", "accepted"} /\ old.fo.state = "progress"
  /\ old' = IF old.link = "refused" THEN abortFailover(old)
            ELSE [clearFailoverState(old) EXCEPT !.link = "online"]
  /\ log' = IF old.link = "accepted" THEN rp[old.master].log ELSE log
  /\ UNCHANGED <<rp, cl, said, atTurn, used>>

\* Another replica is moved elsewhere and gets another history.
Elsewhere(r) ==
  /\ ~rp[r].up /\ ~rp[r].master /\ rp[r].same /\ used.troubles < MaxTroubles
  /\ rp' = [rp EXCEPT ![r].same = FALSE]
  /\ used' = [used EXCEPT !.troubles = @ + 1]
  /\ UNCHANGED <<old, log, cl, said, atTurn>>

PlannedNext ==
  \/ \E c \in Client : \/ ClientWrite(c) \/ WaitTimesOut(c)
                       \/ \E n \in 1..Cardinality(Replica) : waitCommand(c, n)
  \/ \E r \in Replica : \/ WriteThere(r) \/ Apply(r) \/ replicationSendAck(r) \/ replconfAck(r)
                        \/ Drop(r) \/ Reconnect(r) \/ Elsewhere(r)
  \/ Ping \/ processClientsWaitingReplicas \/ Unpause \/ FailoverAbort \/ PsyncReply
  \/ \E t \in Replica \cup {NoOne}, timed, force \in BOOLEAN : failoverCommand(t, timed, force)
  \/ \E late \in BOOLEAN : updateFailoverStatus(late)
  \/ \E lost \in BOOLEAN : PsyncFailover(lost)

PlannedSpec == PlannedInit /\ [][PlannedNext]_plannedVars

-----------------------------------------------------------------------------
\* "returns the number of replicas that processed the query": at least as many replicas as
\* WAIT answers have executed everything up to the offset of the client, also when the answer
\* was computed for another client or a replica was reconnected.
WaitIsTrue == said.n <= Cardinality({r \in Replica : Len(rp[r].log) >= said.off})

\* A failover that was not forced loses nothing: whatever the old master had executed when the
\* replica took over, the replica has, even if a user lets the clients write in between.
FailoverLosesNothing ==
  atTurn # NoOne => \E r \in Replica : rp[r].master /\ Begins(atTurn, rp[r].log)

\* "unpause": the clients that FAILOVER paused are not left paused when it has ended, in
\* whichever way.
NoPauseLeft == old.fo.state = "none" => ~old.paused

\* FAILOVER and WAIT: the number WAIT replies is true, a failover loses no write, and writes
\* are paused only while one is going on.
HandoverIsSafe == WaitIsTrue /\ FailoverLosesNothing /\ NoPauseLeft
=============================================================================
