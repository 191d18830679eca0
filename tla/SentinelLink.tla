---------------------------- MODULE SentinelLink ----------------------------
(***************************************************************************)
(* Redis Sentinel: the links to a monitored instance, the PINGs on them    *)
(* and the decision that the instance is subjectively down (sentinel.c).   *)
(*                                                                         *)
(* The clock is discrete.  Every time stamp is held as its age, counted up *)
(* to MaxAge, from where no comparison of the code tells ages apart; Unset  *)
(* stands for act_ping_time = 0.  The timer runs once per tick.  The       *)
(* instance is a replica: a master that reports to be a replica is flagged *)
(* as well (module SentinelFailover).                                      *)
(***************************************************************************)
EXTENDS Integers

CONSTANTS PingPeriod,       \* SENTINEL_PING_PERIOD
          DownAfter,        \* down_after_period
          ReconnectPeriod,  \* SENTINEL_MIN_LINK_RECONNECT_PERIOD
          PubSubPeriod,     \* SENTINEL_PUBLISH_PERIOD * 3
          TiltTrigger,      \* SENTINEL_TILT_TRIGGER
          TiltPeriod,       \* SENTINEL_TILT_PERIOD
          MaxPending,       \* SENTINEL_MAX_PENDING_COMMANDS * refcount
          MaxAge            \* bound: ages

ASSUME LinkAssumption ==
  /\ {PingPeriod, DownAfter, ReconnectPeriod, PubSubPeriod, TiltTrigger, TiltPeriod} \subseteq Nat
  /\ MaxPending \in Nat /\ MaxAge \in Nat

Unset == -1

VARIABLES cc,        \* the command connection: "closed", "opening" or "open"
          pc,        \* there is a Pub/Sub connection
          disconnected,
          pending,   \* pending_commands
          age,       \* ages of the time stamps of the link
          pings,     \* PINGs the instance has not answered on this connection
          flags,     \* SRI_S_DOWN and SRI_SCRIPT_KILL_SENT
          tilt,      \* age of tilt_start_time, Unset when not in TILT
          unanswered, \* history: age of the first PING since the last acceptable reply
          ticked     \* the timer is due; how long the last tick was

conn == <<cc, pc, disconnected, pending, pings>>
linkVars == <<conn, age, flags, tilt, unanswered, ticked>>

Stamps == {"actPing", "lastPing", "lastPong", "lastAvail", "reconn", "ccConn", "pcConn",
           "pcActivity"}

Older(a, d) == IF a = Unset THEN Unset ELSE IF a + d > MaxAge THEN MaxAge ELSE a + d

\* createInstanceLink: the pending PING counts from the creation of the link.
LinkInit ==
  /\ cc = "closed" /\ pc = FALSE /\ disconnected = TRUE /\ pending = 0 /\ pings = 0
  /\ age = [actPing |-> 0, lastPing |-> MaxAge, lastPong |-> 0, lastAvail |-> 0,
            reconn |-> MaxAge, ccConn |-> MaxAge, pcConn |-> MaxAge,
            pcActivity |-> MaxAge]
  /\ flags = {} /\ tilt = Unset /\ unanswered = 0 /\ ticked = 0

-----------------------------------------------------------------------------
(* The timer.  A link is the record of its variables while the steps of    *)
(* sentinelHandleRedisInstance change it one after the other.              *)

Link == [cc |-> cc, pc |-> pc, disc |-> disconnected, pending |-> pending, pings |-> pings,
         age |-> age]

\* Mutant: every PING restarts the wait for the PONG.
SendPingRestarts(l) ==
  [l EXCEPT !.pending = @ + 1, !.pings = @ + 1, !.age.lastPing = 0, !.age.actPing = 0]

\* act_ping_time is that of the first PING without an answer.
sentinelSendPing(l) ==
  [l EXCEPT !.pending = @ + 1, !.pings = @ + 1, !.age.lastPing = 0,
            !.age.actPing = IF @ = Unset THEN 0 ELSE @]

CloseCommand(l) == [l EXCEPT !.cc = "closed", !.pending = 0, !.pings = 0, !.disc = TRUE]
ClosePubSub(l)  == [l EXCEPT !.pc = FALSE, !.disc = TRUE]

\* Either connection may fail at once (`ok' does not name it); a command connection that
\* does not is still being established, and a PING is queued on it.
sentinelReconnectInstance(l, ok) ==
  IF ~l.disc \/ l.age.reconn < PingPeriod THEN l ELSE
  LET l0 == [l EXCEPT !.age.reconn = 0]
      l1 == IF l0.cc # "closed" THEN l0
            ELSE IF "cc" \in ok
              THEN sentinelSendPing([l0 EXCEPT !.cc = "opening", !.pending = 0, !.pings = 0,
                                               !.age.ccConn = 0])
              ELSE CloseCommand(l0)
      l2 == IF l1.pc THEN l1
            ELSE IF "pc" \in ok THEN [l1 EXCEPT !.pc = TRUE, !.age.pcConn = 0] ELSE l1
  IN [l2 EXCEPT !.disc = ~(l2.cc # "closed" /\ l2.pc)]

\* INFO and PUBLISH (`extra' of them are due) and PING, unless too much is pending.
sentinelSendPeriodicCommands(l, extra) ==
  IF l.disc \/ l.pending >= MaxPending THEN l ELSE
  LET l1 == [l EXCEPT !.pending = @ + extra] IN
  IF l.age.lastPong > PingPeriod /\ 2 * l.age.lastPing > PingPeriod
    THEN sentinelSendPing(l1) ELSE l1

Elapsed(l) ==
  IF l.age.actPing # Unset THEN l.age.actPing ELSE IF l.disc THEN l.age.lastAvail ELSE 0

\* A link that shows no activity is closed, to be opened again.
CloseIdle(l) ==
  LET l1 == IF /\ l.cc # "closed" /\ l.age.ccConn > ReconnectPeriod
               /\ l.age.actPing # Unset /\ 2 * l.age.actPing > DownAfter
               /\ 2 * l.age.lastPong > DownAfter
              THEN CloseCommand(l) ELSE l
  IN IF l1.pc /\ l1.age.pcConn > ReconnectPeriod /\ l1.age.pcActivity > PubSubPeriod THEN ClosePubSub(l1) ELSE l1

sentinelCheckSubjectivelyDown(l) ==
  flags' = IF Elapsed(l) > DownAfter
             THEN flags \cup {"sdown"}
             ELSE flags \ {"sdown", "killSent"}

sentinelCheckTiltCondition ==
  IF ticked > TiltTrigger THEN 0 ELSE tilt

\* What the timer does for this instance.
sentinelTimer(ok, extra) ==
  LET l1 == sentinelSendPeriodicCommands(sentinelReconnectInstance(Link, ok), extra)
      t  == sentinelCheckTiltCondition
      acts == t = Unset \/ t >= TiltPeriod
      l2 == IF acts THEN CloseIdle(l1) ELSE l1
  IN /\ ticked > 0
     /\ ticked' = 0
     /\ tilt' = IF acts THEN Unset ELSE t
     /\ IF acts THEN sentinelCheckSubjectivelyDown(l1) ELSE UNCHANGED flags
     /\ cc' = l2.cc /\ pc' = l2.pc /\ disconnected' = l2.disc
     /\ pending' = l2.pending /\ pings' = l2.pings /\ age' = l2.age
     /\ unanswered' = IF unanswered = Unset /\ l1.pings > pings THEN 0 ELSE unanswered

-----------------------------------------------------------------------------
(* The callbacks of hiredis.                                               *)

Established ==
  /\ cc = "opening"
  /\ cc' = "open"
  /\ UNCHANGED <<pc, disconnected, pending, pings, age, flags, tilt, unanswered, ticked>>

\* The connection breaks, or is refused: pending_commands is reset by the next connection.
instanceLinkConnectionError ==
  /\ \/ cc # "closed" /\ cc' = "closed" /\ pings' = 0 /\ UNCHANGED pc
     \/ pc /\ pc' = FALSE /\ UNCHANGED <<cc, pings>>
  /\ disconnected' = TRUE
  /\ UNCHANGED <<pending, age, flags, tilt, unanswered, ticked>>

Answered(a, reply) ==
  IF reply = "good" THEN [a EXCEPT !.lastAvail = 0, !.actPing = Unset, !.lastPong = 0]
  ELSE [a EXCEPT !.lastPong = 0]

\* "+PONG", "-LOADING" and "-MASTERDOWN" are acceptable; "-BUSY" has the script killed.
sentinelPingReplyCallback(reply) ==
  /\ cc = "open" /\ pings > 0
  /\ pings' = pings - 1
  /\ LET kills == reply = "busy" /\ "sdown" \in flags /\ "killSent" \notin flags IN
       /\ flags' = IF kills THEN flags \cup {"killSent"} ELSE flags
       /\ pending' = IF kills THEN pending ELSE pending - 1
  /\ age' = Answered(age, reply)
  /\ unanswered' = IF reply = "good" THEN Unset ELSE unanswered
  /\ UNCHANGED <<cc, pc, disconnected, tilt, ticked>>

\* The reply to a command that is not a PING.
OtherReply ==
  /\ cc = "open" /\ pending > pings
  /\ pending' = pending - 1
  /\ UNCHANGED <<cc, pc, disconnected, pings, age, flags, tilt, unanswered, ticked>>

\* A message on the Pub/Sub connection, our own hello included.
sentinelReceiveHelloMessages ==
  /\ pc
  /\ age' = [age EXCEPT !.pcActivity = 0]
  /\ UNCHANGED <<conn, flags, tilt, unanswered, ticked>>

\* Time passes; the process may be stopped for long.
LinkTick(d) ==
  /\ ticked = 0
  /\ ticked' = d
  /\ age' = [f \in DOMAIN age |-> Older(age[f], d)]
  /\ tilt' = Older(tilt, d) /\ unanswered' = Older(unanswered, d)
  /\ UNCHANGED <<conn, flags>>

LinkNext ==
  \/ \E ok \in SUBSET {"cc", "pc"}, extra \in 0..1 :
       sentinelTimer(ok, extra)
  \/ Established \/ instanceLinkConnectionError \/ OtherReply \/ sentinelReceiveHelloMessages
  \/ \E reply \in {"good", "busy"} : sentinelPingReplyCallback(reply)
  \/ \E d \in {1, TiltTrigger + 1} : LinkTick(d)

LinkSpec == LinkInit /\ [][LinkNext]_linkVars

-----------------------------------------------------------------------------
LinkTypeOK ==
  /\ cc \in {"closed", "opening", "open"} /\ pc \in BOOLEAN /\ disconnected \in BOOLEAN
  /\ pending \in Nat /\ pings \in Nat /\ ticked \in Nat
  /\ age \in [Stamps -> Nat \cup {Unset}]
  /\ flags \subseteq {"sdown", "killSent"}
  /\ tilt \in Nat \cup {Unset} /\ unanswered \in Nat \cup {Unset}

\* Once a PING was sent without an acceptable answer for longer than down_after_period,
\* the instance is flagged by the next timer, however often its connections are closed,
\* break and are opened again in between.
SilenceIsNoticed ==
  ticked = 0 /\ tilt = Unset /\ unanswered > DownAfter => "sdown" \in flags

\* An instance is flagged only after a silence longer than its down_after_period, and not
\* while the Sentinel is in TILT, where its own clock is to blame.
FlaggedAfterSilence ==
  [][ "sdown" \in flags' /\ "sdown" \notin flags =>
        tilt' = Unset /\ age.lastAvail > DownAfter ]_linkVars

\* A PING that waits for its answer keeps pending_commands above zero, and commands are
\* sent only below the limit, however the replies and the reconnections fall.
PendingBounded == pings <= pending /\ pending <= MaxPending + 1

\* Both: an instance that stays silent is flagged, whatever becomes of its connections
\* (act_ping_time survives later PINGs and reconnections), and only so many commands wait
\* for their reply.
SilenceIsSeen == SilenceIsNoticed /\ PendingBounded
=============================================================================
