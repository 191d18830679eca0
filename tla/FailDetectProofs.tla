--------------------------- MODULE FailDetectProofs ---------------------------
(***************************************************************************)
(* Proofs about the two failure detectors.                                 *)
(*                                                                         *)
(* ClusterFailDetect, for any number of observers and masters and any      *)
(* number of cuts, restarts and losses.  A master that has the target      *)
(* flagged, or had it in a late packet, or is reported by somebody, had    *)
(* the target flagged at most one tick earlier than the age of that report *)
(* says; reports are dropped at the end of their validity.  So the reports *)
(* that markNodeAsFailingIfNeeded counts, and the observer itself, are     *)
(* masters that had the target flagged recently, and no master counts      *)
(* twice.                                                                  *)
(*                                                                         *)
(* SentinelLink, for any periods.  act_ping_time is always the age of the  *)
(* oldest unanswered PING and never older than the last acceptable reply;  *)
(* every way to open, close or reuse the link keeps that.                  *)
(***************************************************************************)
EXTENDS ClusterFailDetect, SentinelLink, FiniteSetTheorems, TLAPS

(* The detector of the cluster. *)

Flags == {"ok", "pfail", "fail"}
Reports == [Masters -> Nat \cup {None}]

\* The masters reported in r had the target flagged as recently as that, if d says when.
Recent(r, d) == \A m \in Masters : r[m] # None => d[m] <= r[m] + 1

Valid(r) == \A m \in Masters : r[m] # None => r[m] <= ReportValidity

\* The inductive invariant.
DetectInv ==
  /\ flag \in [Observer -> Flags] /\ disk \in [Observer -> Flags]
  /\ before \in [Masters -> Flags]
  /\ down \in [Masters -> Nat]
  /\ reports \in [Observer -> Reports]
  /\ DOMAIN size = Observer
  /\ \A m \in Masters : Flagged(flag[m]) => down[m] = 0
  /\ \A m \in Masters : Flagged(before[m]) => down[m] <= 1
  /\ \A n \in Observer : Recent(reports[n], down) /\ Valid(reports[n])
  /\ \A n \in Masters : reports[n][n] = None
  /\ \A n \in Observer \ young : size[n] = TrueSize
  /\ \A n \in Observer : disk[n] = "fail" => flag[n] = "fail"

-----------------------------------------------------------------------------
(* Reports.                                                                *)

\* Dropping reports that are too old.
LEMMA CleanupKeeps ==
  ASSUME NEW r \in Reports, NEW d, Recent(r, d)
  PROVE  /\ clusterNodeCleanupFailureReports(r) \in Reports
         /\ Recent(clusterNodeCleanupFailureReports(r), d)
         /\ Valid(clusterNodeCleanupFailureReports(r))
         /\ \A m \in Masters : clusterNodeCleanupFailureReports(r)[m] \in {r[m], None}
<1> DEFINE c == clusterNodeCleanupFailureReports(r)
<1>1. c = [m \in Masters |-> IF r[m] # None /\ r[m] > ReportValidity THEN None ELSE r[m]]
  BY Zenon DEF clusterNodeCleanupFailureReports
<1> HIDE DEF c
<1>2. c \in Reports /\ \A m \in Masters : c[m] \in {r[m], None}
  BY <1>1, Zenon DEF Reports
<1>3. Recent(c, d)
  BY <1>2 DEF Recent
<1>4. Valid(c)
  BY <1>1 DEF Valid, Reports, ReportValidity
<1> QED
  BY <1>2, <1>3, <1>4, Zenon DEF c

\* Reports stay recent when masters had the target flagged later than before.
LEMMA RecentLater ==
  ASSUME NEW r \in Reports, NEW d \in [Masters -> Nat], NEW e \in [Masters -> Nat],
         \A m \in Masters : e[m] <= d[m], Recent(r, d)
  PROVE  Recent(r, e)
BY DEF Recent, Reports

\* What the history notes of new flags f.
LEMMA NoteLater ==
  ASSUME DetectInv, NEW f \in [Observer -> Flags], NEW e, e = Note(f)
  PROVE  /\ e \in [Masters -> Nat]
         /\ \A m \in Masters : Flagged(f[m]) => e[m] = 0
         /\ \A m \in Masters : e[m] <= down[m]
         /\ \A m \in Masters : Flagged(before[m]) => e[m] <= 1
         /\ \A n \in Observer : Recent(reports[n], e)
<1>1. /\ e \in [Masters -> Nat]
      /\ \A m \in Masters : Flagged(f[m]) => e[m] = 0
      /\ \A m \in Masters : e[m] <= down[m]
  BY DEF DetectInv, Note
<1>2. \A m \in Masters : Flagged(before[m]) => e[m] <= 1
  BY <1>1 DEF DetectInv
<1>3. \A n \in Observer : Recent(reports[n], e)
  BY <1>1, RecentLater, Zenon DEF DetectInv
<1> QED
  BY <1>1, <1>2, <1>3, Zenon

-----------------------------------------------------------------------------
(* Gossip.                                                                 *)

\* What n makes of a packet of m that speaks of the target as f.
Heeded(m, n, f) ==
  IF Flagged(f) THEN clusterNodeAddFailureReport(reports[n], m)
  ELSE clusterNodeDelFailureReport(reports[n], m)

LEMMA HeededIsRecent ==
  ASSUME DetectInv, NEW m \in Masters, NEW n \in Observer, m # n,
         NEW f \in {flag[m], before[m]}
  PROVE  /\ Heeded(m, n, f) \in Reports
         /\ Recent(Heeded(m, n, f), down)
         /\ n \in Masters => Heeded(m, n, f)[n] = None
<1> DEFINE r == reports[n]
<1>1. r \in Reports /\ Recent(r, down) /\ down \in [Masters -> Nat]
      /\ (n \in Masters => r[n] = None)
  BY Zenon DEF DetectInv
<1>2. CASE Flagged(f)
  <2>1. Heeded(m, n, f) = [r EXCEPT ![m] = 0]
    BY <1>2, Zenon DEF Heeded, clusterNodeAddFailureReport
  <2>2. down[m] <= 1
    <3>1. f = flag[m] => down[m] = 0
      BY <1>2, Zenon DEF DetectInv
    <3>2. f = before[m] => down[m] <= 1
      BY <1>2, Zenon DEF DetectInv
    <3> QED
      BY <3>1, <3>2
  <2> HIDE DEF r
  <2> QED
    BY <1>1, <2>1, <2>2 DEF Reports, Recent
<1>3. CASE ~Flagged(f)
  <2> DEFINE q == [r EXCEPT ![m] = None]
  <2>1. Heeded(m, n, f) = IF r[m] = None THEN r ELSE clusterNodeCleanupFailureReports(q)
    BY <1>3, Zenon DEF Heeded, clusterNodeDelFailureReport
  <2> HIDE DEF r
  <2>2. q \in Reports /\ Recent(q, down) /\ (n \in Masters => q[n] = None)
    BY <1>1, Zenon DEF Reports, Recent
  <2> HIDE DEF q
  <2>3. /\ clusterNodeCleanupFailureReports(q) \in Reports
        /\ Recent(clusterNodeCleanupFailureReports(q), down)
        /\ n \in Masters => clusterNodeCleanupFailureReports(q)[n] = None
    BY <2>2, CleanupKeeps, Zenon
  <2> QED
    BY <1>1, <2>1, <2>3, Zenon
<1> QED
  BY <1>2, <1>3, Zenon

\* Whoever marks the target FAIL on the reports r has a majority of recent masters.
LEMMA MarkedHasMajority ==
  ASSUME DetectInv, NEW n \in Observer \ young, NEW r \in Reports, Recent(r, down),
         n \in Masters => r[n] = None, markNodeAsFailingIfNeeded(n, r)
  PROVE  Cardinality({m \in Masters : down[m] <= ReportValidity + 1}) >= NeededQuorum(TrueSize)
<1> DEFINE c == clusterNodeCleanupFailureReports(r)
           A == {m \in Masters : c[m] # None}
           B == {m \in Masters : down[m] <= ReportValidity + 1}
           x == IF n \in Masters THEN 1 ELSE 0
<1>1. /\ c \in Reports /\ Recent(c, down) /\ Valid(c)
      /\ \A m \in Masters : c[m] \in {r[m], None}
  BY CleanupKeeps, Zenon
<1>2. Cardinality(A) + x >= NeededQuorum(TrueSize) /\ flag[n] = "pfail"
  BY Zenon DEF markNodeAsFailingIfNeeded, clusterNodeFailureReportsCount, DetectInv
<1>3. n \in Masters => n \notin A
  BY <1>1, Zenon
<1> HIDE DEF c
<1>4. A \subseteq B
  BY <1>1 DEF Recent, Valid, Reports, DetectInv, ReportValidity
<1>5. n \in Masters => n \in B
  BY <1>2 DEF DetectInv, Flagged, ReportValidity
<1>6. IsFiniteSet(A) /\ IsFiniteSet(B) /\ IsFiniteSet(Masters)
  BY DetectAssumption, FS_Subset, Zenon
<1>7. Cardinality(A) \in Nat /\ Cardinality(B) \in Nat /\ Cardinality(Masters) \in Nat
  BY <1>6, FS_CardinalityType, Zenon
<1>8. NeededQuorum(TrueSize) \in Int
  BY <1>7 DEF NeededQuorum, TrueSize
<1> HIDE DEF A, B
<1>9. Cardinality(B) >= Cardinality(A) + x
  <2>1. CASE n \in Masters
    <3>1. A \cup {n} \subseteq B /\ Cardinality(A \cup {n}) = Cardinality(A) + 1
      BY <1>3, <1>4, <1>5, <1>6, <2>1, FS_AddElement, Zenon
    <3>2. Cardinality(A \cup {n}) <= Cardinality(B)
      BY <1>6, <3>1, FS_Subset, Zenon
    <3> QED
      BY <1>7, <2>1, <3>1, <3>2, Zenon
  <2>2. CASE n \notin Masters
    <3>1. Cardinality(A) <= Cardinality(B)
      BY <1>4, <1>6, FS_Subset, Zenon
    <3> QED
      BY <1>7, <2>2, <3>1
  <2> QED
    BY <2>1, <2>2, Zenon
<1>10. x \in {0, 1}
  BY Zenon
<1> HIDE DEF x
<1>11. Cardinality(B) >= NeededQuorum(TrueSize)
  BY <1>2, <1>7, <1>8, <1>9, <1>10
<1> QED
  BY <1>11, Zenon DEF B

-----------------------------------------------------------------------------
(* The steps.                                                              *)

\* A step that changes flags and reports but neither late packets nor sizes.
LEMMA FlagsKeep ==
  ASSUME DetectInv, NEW f \in [Observer -> Flags], NEW d \in [Observer -> Flags],
         NEW q \in [Observer -> Reports],
         \A n \in Observer : Recent(q[n], down) /\ Valid(q[n]),
         \A n \in Masters : q[n][n] = None,
         \A n \in Observer : d[n] = "fail" => f[n] = "fail",
         flag' = f, disk' = d, reports' = q, down' = Note(f),
         UNCHANGED <<kind, size, young, before>>
  PROVE  DetectInv'
<1>1. PICK e : e = Note(f)
  BY Zenon
<1>2. /\ e \in [Masters -> Nat]
      /\ \A m \in Masters : Flagged(f[m]) => e[m] = 0
      /\ \A m \in Masters : e[m] <= down[m]
      /\ \A m \in Masters : Flagged(before[m]) => e[m] <= 1
  BY <1>1, NoteLater, Zenon
<1>3. ASSUME NEW n \in Observer
      PROVE  Recent(q[n], e)
  <2>1. q[n] \in Reports /\ down \in [Masters -> Nat] /\ Recent(q[n], down)
    BY <1>3, Zenon DEF DetectInv
  <2> QED
    BY <1>2, <2>1, RecentLater, Zenon
<1>4. TrueSize' = TrueSize
  BY Zenon DEF TrueSize
<1> QED
  BY <1>1, <1>2, <1>3, <1>4, Zenon DEF DetectInv

\* What the reports say in a state of the invariant.
LEMMA ReportsHold ==
  ASSUME DetectInv
  PROVE  /\ reports \in [Observer -> Reports]
         /\ \A n \in Observer : Recent(reports[n], down) /\ Valid(reports[n])
         /\ \A n \in Masters : reports[n][n] = None
BY Zenon DEF DetectInv

LEMMA PongKeeps ==
  ASSUME DetectInv, NEW n \in Observer, Pong(n)
  PROVE  DetectInv' /\ MarkedByMajority(n)
<1>1. PICK f : /\ f \in {"ok", "fail"} /\ (f = "fail" => flag[n] = "fail")
               /\ flag' = [flag EXCEPT ![n] = f]
               /\ disk' = [disk EXCEPT ![n] = IF f # flag[n] THEN f ELSE disk[n]]
               /\ down' = Note(flag')
  <2> DEFINE f == CASE flag[n] = "pfail" -> "ok"
                    [] flag[n] = "fail" -> IF clearNodeFailureIfNeeded(n) THEN "ok" ELSE "fail"
                    [] OTHER -> "ok"
  <2>1. f \in {"ok", "fail"} /\ (f = "fail" => flag[n] = "fail")
    BY Zenon
  <2>2. /\ flag' = [flag EXCEPT ![n] = f]
        /\ disk' = [disk EXCEPT ![n] = IF f # flag[n] THEN f ELSE disk[n]]
        /\ down' = Note(flag')
    BY Zenon DEF Pong
  <2> HIDE DEF f
  <2> QED
    BY <2>1, <2>2, Zenon
<1>2. /\ flag' \in [Observer -> Flags] /\ disk' \in [Observer -> Flags]
      /\ \A k \in Observer : disk'[k] = "fail" => flag'[k] = "fail"
  BY <1>1, Zenon DEF DetectInv, Flags
<1>3. PICK g \in [Observer -> Flags], d \in [Observer -> Flags] : g = flag' /\ d = disk'
  BY <1>2, Zenon
<1>4. UNCHANGED <<kind, size, young, before, reports>>
  BY Zenon DEF Pong
<1>5. PICK q : q = reports
  BY Zenon
<1>6. DetectInv'
  <2>1. /\ q \in [Observer -> Reports]
        /\ \A k \in Observer : Recent(q[k], down) /\ Valid(q[k])
        /\ \A k \in Masters : q[k][k] = None
        /\ \A k \in Observer : d[k] = "fail" => g[k] = "fail"
    BY <1>2, <1>3, <1>5, ReportsHold, Zenon
  <2>2. /\ flag' = g /\ disk' = d /\ reports' = q /\ down' = Note(g)
        /\ UNCHANGED <<kind, size, young, before>>
    BY <1>1, <1>3, <1>4, <1>5, Zenon
  <2> QED
    BY <2>1, <2>2, FlagsKeep, Zenon
<1>7. MarkedByMajority(n)
  BY <1>1, Zenon DEF MarkedByMajority, DetectInv
<1> QED
  BY <1>6, <1>7, Zenon

LEMMA PossiblyKeeps ==
  ASSUME DetectInv, NEW n \in Observer, PossiblyFailing(n)
  PROVE  DetectInv'
<1>1. /\ flag' = [flag EXCEPT ![n] = "pfail"] /\ disk' = disk /\ flag[n] = "ok"
      /\ down' = Note(flag') /\ UNCHANGED <<kind, size, young, before, reports>>
  BY Zenon DEF PossiblyFailing
<1>2. /\ flag' \in [Observer -> Flags] /\ disk' \in [Observer -> Flags]
      /\ \A k \in Observer : disk'[k] = "fail" => flag'[k] = "fail"
  BY <1>1, Zenon DEF DetectInv, Flags
<1>3. PICK g \in [Observer -> Flags], d \in [Observer -> Flags] : g = flag' /\ d = disk'
  BY <1>2, Zenon
<1>4. PICK q : q = reports
  BY Zenon
<1> QED
  BY <1>1, <1>2, <1>3, <1>4, ReportsHold, FlagsKeep, ZenonT(60)

LEMMA HearKeeps ==
  ASSUME DetectInv, NEW n \in Observer, HearFail(n)
  PROVE  DetectInv'
<1>1. /\ flag' = [flag EXCEPT ![n] = "fail"]
      /\ disk' = [disk EXCEPT ![n] = IF flag[n] = "fail" THEN disk[n] ELSE "fail"]
      /\ down' = Note(flag') /\ UNCHANGED <<kind, size, young, before, reports>>
  BY Zenon DEF HearFail
<1>2. /\ flag' \in [Observer -> Flags] /\ disk' \in [Observer -> Flags]
      /\ \A k \in Observer : disk'[k] = "fail" => flag'[k] = "fail"
  BY <1>1, Zenon DEF DetectInv, Flags
<1>3. PICK g \in [Observer -> Flags], d \in [Observer -> Flags] : g = flag' /\ d = disk'
  BY <1>2, Zenon
<1>4. PICK q : q = reports
  BY Zenon
<1>5. /\ q \in [Observer -> Reports]
      /\ \A k \in Observer : Recent(q[k], down) /\ Valid(q[k])
      /\ \A k \in Masters : q[k][k] = None
  BY <1>4, ReportsHold, Zenon
<1>6. /\ flag' = g /\ disk' = d /\ reports' = q /\ down' = Note(g)
      /\ UNCHANGED <<kind, size, young, before>>
      /\ \A k \in Observer : d[k] = "fail" => g[k] = "fail"
  BY <1>1, <1>2, <1>3, <1>4, Zenon
<1> QED
  BY <1>3, <1>5, <1>6, FlagsKeep, Zenon

LEMMA GossipKeeps ==
  ASSUME DetectInv, NEW m \in Masters, NEW n \in Observer, m # n,
         clusterProcessGossipSection(m, n)
  PROVE  DetectInv' /\ (n \notin young => MarkedByMajority(n))
<1>1. PICK f \in {flag[m], before[m]}, marked \in BOOLEAN :
        /\ marked => markNodeAsFailingIfNeeded(n, Heeded(m, n, f))
        /\ reports' = [reports EXCEPT ![n] =
                         clusterNodeCleanupFailureReports(Heeded(m, n, f))]
        /\ flag' = [flag EXCEPT ![n] = IF marked THEN "fail" ELSE flag[n]]
        /\ disk' = [disk EXCEPT ![n] = IF marked THEN "fail" ELSE disk[n]]
        /\ down' = Note(flag')
        /\ UNCHANGED <<kind, size, young, before>>
  <2>1. PICK f \in {flag[m], before[m]} :
          LET marked == Flagged(f) /\ markNodeAsFailingIfNeeded(n, Heeded(m, n, f)) IN
          /\ reports' = [reports EXCEPT ![n] =
                           clusterNodeCleanupFailureReports(Heeded(m, n, f))]
          /\ flag' = [flag EXCEPT ![n] = IF marked THEN "fail" ELSE flag[n]]
          /\ disk' = [disk EXCEPT ![n] = IF marked THEN "fail" ELSE disk[n]]
          /\ down' = Note(flag')
          /\ UNCHANGED <<kind, size, young, before>>
    BY Zenon DEF clusterProcessGossipSection, Heeded
  <2>2. PICK marked \in BOOLEAN :
          marked = (Flagged(f) /\ markNodeAsFailingIfNeeded(n, Heeded(m, n, f)))
    BY Zenon DEF Flagged
  <2> QED
    BY <2>1, <2>2, Zenon
<1>2. PICK r \in Reports : r = Heeded(m, n, f)
  BY HeededIsRecent, Zenon
<1>3. Recent(r, down) /\ (n \in Masters => r[n] = None)
  BY <1>2, HeededIsRecent, Zenon
<1>4. PICK c : c = clusterNodeCleanupFailureReports(r)
  BY Zenon
<1>5. c \in Reports /\ Recent(c, down) /\ Valid(c) /\ (n \in Masters => c[n] = None)
  BY <1>3, <1>4, CleanupKeeps, Zenon
<1>6. PICK q : q = [reports EXCEPT ![n] = c]
  BY Zenon
<1>7. /\ q \in [Observer -> Reports]
      /\ \A k \in Observer : Recent(q[k], down) /\ Valid(q[k])
      /\ \A k \in Masters : q[k][k] = None
  BY <1>5, <1>6, ReportsHold, DetectAssumption, Zenon
<1>8. /\ flag' \in [Observer -> Flags] /\ disk' \in [Observer -> Flags]
      /\ \A k \in Observer : disk'[k] = "fail" => flag'[k] = "fail"
  BY <1>1, Zenon DEF DetectInv, Flags
<1>9. PICK g \in [Observer -> Flags], d \in [Observer -> Flags] : g = flag' /\ d = disk'
  BY <1>8, Zenon
<1>10. DetectInv'
  <2>1. \A k \in Observer : d[k] = "fail" => g[k] = "fail"
    BY <1>8, <1>9, Zenon
  <2>2. /\ flag' = g /\ disk' = d /\ reports' = q /\ down' = Note(g)
        /\ UNCHANGED <<kind, size, young, before>>
    BY <1>1, <1>2, <1>4, <1>6, <1>9, Zenon
  <2> QED
    BY <1>7, <2>1, <2>2, FlagsKeep, Zenon
<1>11. ASSUME n \notin young
       PROVE  MarkedByMajority(n)
  <2>1. CASE marked
    BY <1>1, <1>2, <1>3, <1>11, <2>1, MarkedHasMajority, Zenon DEF MarkedByMajority
  <2>2. CASE ~marked
    BY <1>1, <2>2, Zenon DEF MarkedByMajority, DetectInv
  <2> QED
    BY <2>1, <2>2, Zenon
<1> QED
  BY <1>10, <1>11, Zenon

LEMMA TickKeeps ==
  ASSUME DetectInv, Tick
  PROVE  DetectInv'
<1>1. PICK e : e = [m \in Masters |-> IF Flagged(flag[m]) THEN 0 ELSE Sooner(down[m])]
  BY Zenon
<1>2. /\ e \in [Masters -> Nat]
      /\ \A m \in Masters : e[m] <= down[m] + 1 /\ (Flagged(flag[m]) => e[m] = 0)
  BY <1>1 DEF DetectInv, Sooner, Old
<1>3. ASSUME NEW n \in Observer
      PROVE  /\ reports'[n] \in Reports /\ Recent(reports'[n], e) /\ Valid(reports'[n])
             /\ n \in Masters => reports'[n][n] = None
  <2>1. PICK r \in Reports : r = reports[n]
    BY <1>3, Zenon DEF DetectInv
  <2>2. Recent(r, down) /\ Valid(r) /\ (n \in Masters => r[n] = None)
    BY <1>3, <2>1, Zenon DEF DetectInv
  <2>3. PICK q : q = [m \in Masters |-> IF r[m] = None THEN None ELSE Sooner(r[m])]
    BY ZenonT(60)
  <2>4. q \in Reports /\ (n \in Masters => q[n] = None)
    BY <2>2, <2>3 DEF Reports, Sooner, Old
  <2>5. Recent(q, e)
    <3> SUFFICES ASSUME NEW m \in Masters, q[m] # None
                 PROVE  e[m] <= q[m] + 1
      BY Zenon DEF Recent
    <3>1. r[m] # None /\ r[m] \in Nat /\ q[m] = Sooner(r[m]) /\ down[m] \in Nat /\ e[m] \in Nat
      BY <1>2, <2>3, Zenon DEF Reports, DetectInv
    <3>2. down[m] <= r[m] + 1 /\ r[m] <= 2
      BY <2>2, <3>1, Zenon DEF Recent, Valid, ReportValidity
    <3>3. e[m] <= down[m] + 1
      BY <1>2, Zenon
    <3> QED
      BY <3>1, <3>2, <3>3 DEF Sooner, Old
  <2>6. reports'[n] = clusterNodeCleanupFailureReports(q)
    BY <1>3, <2>1, <2>3, Zenon DEF Tick
  <2> QED
    BY <2>4, <2>5, <2>6, CleanupKeeps, ZenonT(60)
<1>4. DOMAIN reports' = Observer /\ reports' = [n \in Observer |-> reports'[n]]
  BY Zenon DEF Tick
<1>5. reports' \in [Observer -> Reports]
  BY <1>3, <1>4, Zenon
<1>6. /\ down' = e /\ before' = [m \in Masters |-> flag[m]]
      /\ UNCHANGED <<kind, flag, size, young, disk>>
  BY <1>1, Zenon DEF Tick
<1>7. before' \in [Masters -> Flags] /\ \A m \in Masters : Flagged(before'[m]) => e[m] <= 1
  BY <1>2, <1>6, DetectAssumption DEF DetectInv
<1>8. TrueSize' = TrueSize
  BY <1>6, Zenon DEF TrueSize
<1> QED
  BY <1>2, <1>3, <1>5, <1>6, <1>7, <1>8, DetectAssumption, Zenon DEF DetectInv

LEMMA RestartKeeps ==
  ASSUME DetectInv, NEW n \in Observer, Restart(n)
  PROVE  DetectInv' /\ MarkedByMajority(n)
<1>1. PICK f \in [Observer -> Flags] : f = [flag EXCEPT ![n] = disk[n]]
  BY ZenonT(60) DEF DetectInv
<1>2. PICK e : e = Note(f)
  BY Zenon
<1>3. /\ e \in [Masters -> Nat]
      /\ \A m \in Masters : Flagged(f[m]) => e[m] = 0
      /\ \A m \in Masters : Flagged(before[m]) => e[m] <= 1
      /\ \A k \in Observer : Recent(reports[k], e)
  BY <1>2, NoteLater, Zenon
<1>4. /\ flag' = f /\ down' = e
      /\ reports' = [reports EXCEPT ![n] = [m \in Masters |-> None]]
      /\ size' = [size EXCEPT ![n] = 1] /\ young' = young \cup {n}
      /\ before' = [m \in Masters |-> IF m = n THEN disk[n] ELSE before[m]]
      /\ UNCHANGED <<kind, disk>>
  BY <1>1, <1>2, Zenon DEF Restart
<1>5. before' \in [Masters -> Flags] /\ \A m \in Masters : Flagged(before'[m]) => e[m] <= 1
  <2>1. before' \in [Masters -> Flags]
    BY <1>4, Zenon DEF DetectInv
  <2>2. ASSUME NEW m \in Masters, Flagged(before'[m])
        PROVE  e[m] <= 1
    <3>1. CASE m = n
      BY <1>1, <1>3, <1>4, <2>2, <3>1 DEF DetectInv
    <3>2. CASE m # n
      BY <1>3, <1>4, <2>2, <3>2, Zenon
    <3> QED
      BY <3>1, <3>2, Zenon
  <2> QED
    BY <2>1, <2>2, Zenon
<1>6. PICK q : q = [m \in Masters |-> None]
  BY ZenonT(60)
<1>7. q \in Reports /\ Recent(q, e) /\ Valid(q) /\ \A m \in Masters : q[m] = None
  BY <1>6, Zenon DEF Reports, Recent, Valid
<1>8. /\ reports' \in [Observer -> Reports]
      /\ \A k \in Observer : Recent(reports'[k], e) /\ Valid(reports'[k])
      /\ \A k \in Masters : reports'[k][k] = None
  BY <1>3, <1>4, <1>6, <1>7, ReportsHold, DetectAssumption, Zenon
<1>9. /\ DOMAIN size' = Observer
      /\ \A k \in Observer \ young' : size'[k] = TrueSize'
  BY <1>4, Zenon DEF DetectInv, TrueSize
<1>10. \A k \in Observer : disk'[k] = "fail" => flag'[k] = "fail"
  BY <1>1, <1>4, Zenon DEF DetectInv
<1>11. DetectInv'
  BY <1>1, <1>3, <1>4, <1>5, <1>8, <1>9, <1>10, Zenon DEF DetectInv
<1>12. MarkedByMajority(n)
  BY <1>1, <1>4, Zenon DEF MarkedByMajority, DetectInv
<1> QED
  BY <1>11, <1>12, Zenon

-----------------------------------------------------------------------------
(* The theorems.                                                           *)

LEMMA DetectStep ==
  ASSUME DetectInv, [Next]_vars
  PROVE  DetectInv' /\ [\A n \in Observer \ young : MarkedByMajority(n)]_vars
<1>1. ASSUME NEW n \in Observer, NEW k \in Observer, flag'[k] = flag[k]
      PROVE  MarkedByMajority(k)
  BY <1>1, Zenon DEF MarkedByMajority
<1>2. CASE UNCHANGED <<kind, flag, disk, before, down, reports, size, young>>
  BY <1>2, Zenon DEF DetectInv, TrueSize, MarkedByMajority
<1>3. CASE Tick
  <2>1. flag' = flag
    BY <1>3, Zenon DEF Tick
  <2> QED
    BY <1>3, <2>1, TickKeeps, Zenon DEF MarkedByMajority
<1>4. ASSUME NEW n \in Observer, Pong(n) \/ PossiblyFailing(n) \/ HearFail(n) \/ Restart(n)
      PROVE  DetectInv' /\ \A k \in Observer \ young : MarkedByMajority(k)
  <2>1. \A k \in Observer : k # n => flag'[k] = flag[k]
    BY <1>4, ZenonT(60) DEF Pong, PossiblyFailing, HearFail, Restart, DetectInv
  <2>2. DetectInv'
    BY <1>4, PongKeeps, PossiblyKeeps, HearKeeps, RestartKeeps, Zenon
  <2>3. MarkedByMajority(n)
    <3>1. CASE PossiblyFailing(n)
      BY <3>1, Zenon DEF PossiblyFailing, MarkedByMajority, DetectInv
    <3>2. CASE HearFail(n)
      BY <3>2, Zenon DEF HearFail, MarkedByMajority
    <3> QED
      BY <1>4, <3>1, <3>2, PongKeeps, RestartKeeps, Zenon
  <2> QED
    BY <1>1, <2>1, <2>2, <2>3, Zenon
<1>5. ASSUME NEW n \in Observer, SaveConfig(n)
      PROVE  DetectInv' /\ \A k \in Observer \ young : MarkedByMajority(k)
  <2>1. /\ disk' = [disk EXCEPT ![n] = flag[n]]
        /\ UNCHANGED <<kind, flag, before, down, reports, size, young>>
    BY <1>5, Zenon DEF SaveConfig
  <2>2. disk' \in [Observer -> Flags] /\ \A k \in Observer : disk'[k] = "fail" => flag[k] = "fail"
    BY <2>1, Zenon DEF DetectInv
  <2> QED
    BY <2>1, <2>2, Zenon DEF DetectInv, TrueSize, MarkedByMajority
<1>6. ASSUME NEW n \in Observer, UpdateSize(n)
      PROVE  DetectInv' /\ \A k \in Observer \ young : MarkedByMajority(k)
  <2>1. /\ size' = [size EXCEPT ![n] = TrueSize] /\ young' = young \ {n}
        /\ UNCHANGED <<kind, flag, disk, before, down, reports>>
    BY <1>6, Zenon DEF UpdateSize
  <2>2. DOMAIN size' = Observer /\ \A k \in Observer \ young' : size'[k] = TrueSize'
    BY <2>1, Zenon DEF DetectInv, TrueSize
  <2> QED
    BY <2>1, <2>2, Zenon DEF DetectInv, MarkedByMajority
<1>7. ASSUME NEW p \in Pairs, clusterProcessGossipSection(p[1], p[2])
      PROVE  DetectInv' /\ \A k \in Observer \ young : MarkedByMajority(k)
  <2>1. PICK m \in Masters, n \in Observer : m # n /\ m = p[1] /\ n = p[2]
    BY <1>7, Zenon DEF Pairs
  <2>2. clusterProcessGossipSection(m, n)
    BY <1>7, <2>1, Zenon
  <2>3. \A k \in Observer : k # n => flag'[k] = flag[k]
    BY <2>2, Zenon DEF clusterProcessGossipSection, DetectInv
  <2> QED
    BY <1>1, <2>1, <2>2, <2>3, GossipKeeps, Zenon
<1>8. CASE UNCHANGED vars
  BY <1>2, <1>8, Zenon DEF vars
<1>9. CASE Next
  <2>1. CASE Crash
    BY <1>2, <2>1, Zenon DEF Crash
  <2>2. CASE Heal
    BY <1>2, <2>2, Zenon DEF Heal
  <2>3. ASSUME NEW n \in Observer, Cut(n)
        PROVE  DetectInv' /\ [\A k \in Observer \ young : MarkedByMajority(k)]_vars
    BY <1>2, <2>3, Zenon DEF Cut
  <2> QED
    BY <1>3, <1>4, <1>5, <1>6, <1>7, <1>9, <2>1, <2>2, <2>3, ZenonT(60) DEF Next
<1> QED
  BY <1>8, <1>9, Zenon

LEMMA DetectInvInductive == Spec => []DetectInv
<1>1. Init => DetectInv
  <2> SUFFICES ASSUME Init
               PROVE  DetectInv
    BY Zenon
  <2>1. /\ flag \in [Observer -> Flags] /\ disk = flag /\ before \in [Masters -> Flags]
        /\ \A n \in Observer : flag[n] = "ok"
        /\ \A m \in Masters : before[m] = "ok"
    BY DetectAssumption, Zenon DEF Init, Flags
  <2>2. PICK q : q = [m \in Masters |-> None]
    BY Zenon
  <2>3. /\ q \in Reports /\ Recent(q, down) /\ Valid(q)
        /\ \A m \in Masters : q[m] = None
    BY <2>2, Zenon DEF Reports, Recent, Valid
  <2>4. reports = [n \in Observer |-> q]
    BY <2>2, Zenon DEF Init
  <2>5. /\ reports \in [Observer -> Reports]
        /\ \A n \in Observer : Recent(reports[n], down) /\ Valid(reports[n])
        /\ \A n \in Masters : reports[n][n] = None
    BY <2>3, <2>4, DetectAssumption, Zenon
  <2>6. down \in [Masters -> Nat] /\ DOMAIN size = Observer
        /\ \A n \in Observer : size[n] = TrueSize
    BY Zenon DEF Init, Old
  <2> QED
    BY <2>1, <2>5, <2>6, DetectAssumption, Zenon DEF DetectInv, Flagged
<1>2. DetectInv /\ [Next]_vars => DetectInv'
  BY DetectStep, Zenon
<1> QED
  BY <1>1, <1>2, PTL DEF Spec

\* An observer that has computed the cluster size and flags the target FAIL by itself had a
\* majority of the masters with it: those whose reports it counts, and itself, had the target
\* flagged within the validity of a report and the time of a packet.
THEOREM FailByMajority == Spec => FailNeedsMajority
<1>1. DetectInv /\ [Next]_vars => [\A n \in Observer \ young : MarkedByMajority(n)]_vars
  BY DetectStep, Zenon
<1> QED
  BY <1>1, DetectInvInductive, PTL DEF Spec, FailNeedsMajority

-------------------------------------------------------------------------------
(* The link of a Sentinel. *)

Stamp == Nat \cup {Unset}

LinkRecord == [cc : {"closed", "opening", "open"}, pc : BOOLEAN, disc : BOOLEAN,
               pending : Nat, pings : Nat, age : [Stamps -> Stamp]]

Sound(l) ==
  /\ l \in LinkRecord
  /\ l.cc = "closed" => l.pings = 0 /\ l.disc
  /\ l.pings <= l.pending /\ l.pending <= MaxPending + 1

\* From l to m, act_ping_time was set exactly when it was not and a PING was sent.
KeepsOldest(l, m) ==
  /\ l.pings <= m.pings
  /\ m.age["actPing"] = IF l.age["actPing"] = Unset /\ l.pings < m.pings
                          THEN 0 ELSE l.age["actPing"]
  /\ m.age["lastAvail"] = l.age["lastAvail"]

\* The PING that waits for its answer was sent after the last acceptable reply.
AvailableBefore(a) == a["lastAvail"] \in Nat /\ a["actPing"] <= a["lastAvail"]

LinkInv ==
  /\ LinkTypeOK
  /\ Sound(Link)
  /\ unanswered = age["actPing"]
  /\ AvailableBefore(age)
  /\ SilenceIsNoticed

\* sentinelSendPing counts the PING and stamps act_ping_time only when it was unset.
LEMMA SendPingSound ==
  ASSUME NEW l \in LinkRecord
  PROVE  LET m == sentinelSendPing(l) IN
           /\ m \in LinkRecord /\ m.cc = l.cc /\ m.pc = l.pc /\ m.disc = l.disc
           /\ m.pings = l.pings + 1 /\ m.pending = l.pending + 1
           /\ m.age["actPing"] = IF l.age["actPing"] = Unset THEN 0 ELSE l.age["actPing"]
           /\ m.age["lastAvail"] = l.age["lastAvail"]
<1> DEFINE a == [l.age EXCEPT !.lastPing = 0]
           b == [a EXCEPT !.actPing = IF @ = Unset THEN 0 ELSE @]
           m == [l EXCEPT !.pending = @ + 1, !.pings = @ + 1, !.age = b]
<1>1. a \in [Stamps -> Stamp] /\ a["actPing"] = l.age["actPing"]
      /\ a["lastAvail"] = l.age["lastAvail"]
  BY Zenon DEF LinkRecord, Stamps, Stamp
<1> HIDE DEF a
<1>2. b \in [Stamps -> Stamp]
      /\ b["actPing"] = IF l.age["actPing"] = Unset THEN 0 ELSE l.age["actPing"]
  BY <1>1, Zenon DEF Stamps, Stamp
<1>4. b["lastAvail"] = l.age["lastAvail"]
  BY <1>1, Zenon DEF Stamps, Stamp
<1> USE DEF a
<1>3. sentinelSendPing(l) = m
  BY Zenon DEF sentinelSendPing, LinkRecord, Stamps
<1> HIDE DEF a, b
<1>5. l.pending \in Nat /\ l.pings \in Nat /\ l.pending + 1 \in Nat /\ l.pings + 1 \in Nat
  BY DEF LinkRecord
<1>6. m \in LinkRecord
  BY <1>2, <1>5, Zenon DEF LinkRecord
<1>7. m.pings = l.pings + 1 /\ m.pending = l.pending + 1
  BY <1>2, <1>5, Zenon DEF LinkRecord
<1>8. m.cc = l.cc /\ m.age = b
  BY <1>2, <1>5, Zenon DEF LinkRecord
<1>9. m.pc = l.pc /\ m.disc = l.disc
  BY <1>2, <1>5, Zenon DEF LinkRecord
<1> HIDE DEF m
<1> QED
  BY <1>2, <1>3, <1>4, <1>6, <1>7, <1>8, <1>9, Zenon

\* sentinelSendPeriodicCommands keeps the link sound and the oldest PING.
LEMMA PeriodicSound ==
  ASSUME NEW l, Sound(l), NEW extra \in 0..1
  PROVE  LET m == sentinelSendPeriodicCommands(l, extra)
         IN  Sound(m) /\ KeepsOldest(l, m)
<1>0. l \in LinkRecord /\ MaxPending \in Nat
  BY LinkAssumption, Zenon DEF Sound
<1>1. CASE l.disc \/ l.pending >= MaxPending
  BY <1>0, <1>1 DEF sentinelSendPeriodicCommands, Sound, KeepsOldest, LinkRecord
<1>2. CASE ~(l.disc \/ l.pending >= MaxPending)
  <2> DEFINE l1 == [l EXCEPT !.pending = @ + extra]
  <2>1. /\ l1 \in LinkRecord /\ l1.cc = l.cc /\ l1.pings = l.pings /\ l1.age = l.age
        /\ l1.pending = l.pending + extra
    BY <1>0 DEF LinkRecord
  <2> HIDE DEF l1
  <2>2. sentinelSendPeriodicCommands(l, extra) \in {l1, sentinelSendPing(l1)}
    BY <1>2, Zenon DEF sentinelSendPeriodicCommands, l1
  <2>3. Sound(l1) /\ KeepsOldest(l, l1)
    BY <1>0, <1>2, <2>1 DEF Sound, KeepsOldest, LinkRecord
  <2>4. PICK m : m = sentinelSendPing(l1)
    BY Zenon
  <2>5. /\ m \in LinkRecord /\ m.cc = l1.cc
        /\ m.pings = l1.pings + 1 /\ m.pending = l1.pending + 1
        /\ m.age["actPing"] = IF l1.age["actPing"] = Unset THEN 0 ELSE l1.age["actPing"]
        /\ m.age["lastAvail"] = l1.age["lastAvail"]
    BY <2>1, <2>4, SendPingSound, Zenon
  <2>6. l.cc # "closed"
    BY <1>2, Zenon DEF Sound
  <2>7. Sound(m) /\ KeepsOldest(l, m)
    BY <1>0, <1>2, <2>1, <2>5, <2>6 DEF Sound, KeepsOldest, LinkRecord
  <2> QED
    BY <2>2, <2>3, <2>4, <2>7, Zenon
<1> QED
  BY <1>1, <1>2, Zenon

\* sentinelReconnectInstance opens what was closed and may send a PING.
LEMMA ReconnectSound ==
  ASSUME NEW l, Sound(l), NEW ok
  PROVE  LET m == sentinelReconnectInstance(l, ok)
         IN  Sound(m) /\ KeepsOldest(l, m)
<1>0. l \in LinkRecord /\ MaxPending \in Nat
  BY LinkAssumption, Zenon DEF Sound
<1>1. CASE ~l.disc \/ l.age.reconn < PingPeriod
  <2>1. sentinelReconnectInstance(l, ok) = l
    BY <1>1, Zenon DEF sentinelReconnectInstance
  <2> QED
    BY <1>0, <2>1 DEF Sound, KeepsOldest, LinkRecord
<1>2. CASE ~(~l.disc \/ l.age.reconn < PingPeriod)
  <2> DEFINE l0 == [l EXCEPT !.age.reconn = 0]
             opening == [l0 EXCEPT !.cc = "opening", !.pending = 0, !.pings = 0,
                                   !.age.ccConn = 0]
             l1 == IF l0.cc # "closed" THEN l0
                   ELSE IF "cc" \in ok THEN sentinelSendPing(opening) ELSE CloseCommand(l0)
             l2 == IF l1.pc THEN l1
                   ELSE IF "pc" \in ok THEN [l1 EXCEPT !.pc = TRUE, !.age.pcConn = 0] ELSE l1
             m  == [l2 EXCEPT !.disc = ~(l2.cc # "closed" /\ l2.pc)]
  <2>1. sentinelReconnectInstance(l, ok) = m
    BY <1>2, Zenon DEF sentinelReconnectInstance
  <2>2. /\ l0 \in LinkRecord /\ l0.cc = l.cc /\ l0.pings = l.pings /\ l0.pending = l.pending
        /\ l0.disc = l.disc /\ l0.age["actPing"] = l.age["actPing"]
        /\ l0.age["lastAvail"] = l.age["lastAvail"]
    BY <1>0, Zenon DEF LinkRecord, Stamps, Stamp
  <2>3. /\ opening \in LinkRecord /\ opening.cc = "opening" /\ opening.pings = 0
        /\ opening.pending = 0 /\ opening.age["actPing"] = l0.age["actPing"]
        /\ opening.age["lastAvail"] = l0.age["lastAvail"]
    <3> HIDE DEF l0
    <3> QED
      BY <2>2, Zenon DEF LinkRecord, Stamps, Stamp
  <2> HIDE DEF opening
  <2>4. PICK p : p = sentinelSendPing(opening)
    BY Zenon
  <2>5. /\ p \in LinkRecord /\ p.cc = opening.cc
        /\ p.pings = opening.pings + 1 /\ p.pending = opening.pending + 1
        /\ p.age["actPing"] = IF opening.age["actPing"] = Unset THEN 0
                              ELSE opening.age["actPing"]
        /\ p.age["lastAvail"] = opening.age["lastAvail"]
    BY <2>3, <2>4, SendPingSound, Zenon
  <2> HIDE DEF l0
  <2>6. PICK c : c = CloseCommand(l0)
    BY Zenon
  <2>7. /\ c \in LinkRecord /\ c.cc = "closed" /\ c.pings = 0 /\ c.pending = 0
        /\ c.age = l0.age
    BY <2>2, <2>6, Zenon DEF CloseCommand, LinkRecord
  <2>8. l1 \in {l0, p, c} /\ (l1 = l0 \/ l.cc = "closed")
    BY <2>2, <2>4, <2>6, Zenon
  <2>9. /\ l1 \in LinkRecord /\ KeepsOldest(l, l1)
        /\ l1.cc = "closed" => l1.pings = 0
        /\ l1.pings <= l1.pending /\ l1.pending <= MaxPending + 1
    <3> HIDE DEF l1
    <3>1. CASE l1 = l0
      BY <1>0, <2>2, <3>1 DEF Sound, KeepsOldest, LinkRecord
    <3>2. CASE l1 = p /\ l.cc = "closed"
      BY <1>0, <2>2, <2>3, <2>5, <3>2 DEF Sound, KeepsOldest, LinkRecord
    <3>3. CASE l1 = c /\ l.cc = "closed"
      BY <1>0, <2>2, <2>7, <3>3 DEF Sound, KeepsOldest, LinkRecord
    <3> QED
      BY <2>8, <3>1, <3>2, <3>3, Zenon
  <2> HIDE DEF l1
  <2>10. /\ l2 \in LinkRecord /\ l2.cc = l1.cc /\ l2.pings = l1.pings
         /\ l2.pending = l1.pending /\ l2.age["actPing"] = l1.age["actPing"]
         /\ l2.age["lastAvail"] = l1.age["lastAvail"]
    BY <2>9, Zenon DEF LinkRecord, Stamps, Stamp
  <2> HIDE DEF l2
  <2>11. /\ m \in LinkRecord /\ m.cc = l2.cc /\ m.pings = l2.pings
         /\ m.pending = l2.pending /\ m.age = l2.age
         /\ m.disc = ~(l2.cc # "closed" /\ l2.pc)
    BY <2>10, Zenon DEF LinkRecord
  <2> HIDE DEF m
  <2>12. Sound(m) /\ KeepsOldest(l, m)
    BY <2>9, <2>10, <2>11, Zenon DEF Sound, KeepsOldest
  <2> QED
    BY <2>1, <2>12, Zenon
<1> QED
  BY <1>1, <1>2, Zenon

\* sentinelCheckSubjectivelyDown may close a link; it forgets no unanswered PING.
LEMMA CloseIdleSound ==
  ASSUME NEW l, Sound(l)
  PROVE  Sound(CloseIdle(l)) /\ CloseIdle(l).age = l.age
<1>0. l \in LinkRecord /\ MaxPending \in Nat
  BY LinkAssumption, Zenon DEF Sound
<1>1. PICK c : c = CloseCommand(l)
  BY Zenon
<1>2. Sound(c) /\ c.age = l.age
  <2>1. c \in LinkRecord
    BY <1>0, <1>1, Zenon DEF CloseCommand, LinkRecord
  <2>2. c.disc
    BY <1>0, <1>1, Zenon DEF CloseCommand, LinkRecord
  <2>3. c.pings = 0 /\ c.pending = 0
    BY <1>0, <1>1, Zenon DEF CloseCommand, LinkRecord
  <2>4. c.age = l.age
    BY <1>0, <1>1, Zenon DEF CloseCommand, LinkRecord
  <2> QED
    BY <1>0, <2>1, <2>2, <2>3, <2>4 DEF Sound
<1>3. ASSUME NEW k, Sound(k)
      PROVE  Sound(ClosePubSub(k)) /\ ClosePubSub(k).age = k.age
  BY <1>3, <1>0, Zenon DEF ClosePubSub, LinkRecord, Sound
<1>4. \E k \in {l, c} : CloseIdle(l) \in {k, ClosePubSub(k)}
  BY <1>1, Zenon DEF CloseIdle
<1> QED
  BY <1>2, <1>3, <1>4, Zenon

LEMMA LinkInitSound == LinkInit => LinkInv
<1> SUFFICES ASSUME LinkInit PROVE LinkInv
  BY Zenon
<1>0. MaxAge \in Nat /\ MaxPending \in Nat /\ DownAfter \in Nat
  BY LinkAssumption, Zenon
<1>1. age \in [Stamps -> Stamp] /\ age["actPing"] = 0 /\ age["lastAvail"] = 0
  BY <1>0 DEF LinkInit, Stamps, Stamp
<1>2. LinkTypeOK
  BY <1>1, <1>0, Zenon DEF LinkInit, LinkTypeOK, Unset, Stamp
<1>3. Sound(Link)
  <2>1. Link \in LinkRecord
    BY <1>2, Zenon DEF Link, LinkRecord, LinkTypeOK, Stamp
  <2>2. Link.pings = 0 /\ Link.pending = 0
    BY Zenon DEF LinkInit, Link
  <2>3. Link.disc
    BY Zenon DEF LinkInit, Link
  <2> QED
    BY <1>0, <2>1, <2>2, <2>3 DEF Sound
<1>4. SilenceIsNoticed
  BY <1>0 DEF LinkInit, SilenceIsNoticed
<1> QED
  BY <1>1, <1>2, <1>3, <1>4 DEF LinkInv, LinkInit, AvailableBefore

\* One round of the timer, all its calls in their order.
LEMMA TimerSound ==
  ASSUME LinkInv, NEW ok, NEW extra \in 0..1, sentinelTimer(ok, extra)
  PROVE  LinkInv'
<1>0. DownAfter \in Nat
  BY LinkAssumption, Zenon
<1> DEFINE acts == sentinelCheckTiltCondition = Unset \/ sentinelCheckTiltCondition >= TiltPeriod
<1>1. PICK l : l = Link
  BY Zenon
<1>2. PICK m : m = sentinelReconnectInstance(l, ok)
  BY Zenon
<1>3. PICK n : n = sentinelSendPeriodicCommands(m, extra)
  BY Zenon
<1>4. PICK o : o = IF acts THEN CloseIdle(n) ELSE n
  BY Zenon
<1>5. Sound(l) /\ l.pings = pings /\ l.age = age
  BY <1>1, Zenon DEF LinkInv, Link
<1>6. Sound(m) /\ KeepsOldest(l, m)
  BY <1>2, <1>5, ReconnectSound, Zenon
<1>7. Sound(n) /\ KeepsOldest(m, n)
  BY <1>3, <1>6, PeriodicSound, Zenon
<1>8. KeepsOldest(l, n)
  BY <1>5, <1>6, <1>7 DEF KeepsOldest, Sound, LinkRecord, Unset
<1>9. Sound(o) /\ o.age = n.age
  BY <1>4, <1>7, CloseIdleSound, Zenon
<1>10. /\ cc' = o.cc /\ pc' = o.pc /\ disconnected' = o.disc
       /\ pending' = o.pending /\ pings' = o.pings /\ age' = o.age
  BY <1>1, <1>2, <1>3, <1>4, Zenon DEF sentinelTimer
<1>11. /\ ticked' = 0
       /\ tilt' = IF acts THEN Unset ELSE sentinelCheckTiltCondition
       /\ IF acts THEN sentinelCheckSubjectivelyDown(n) ELSE flags' = flags
       /\ unanswered' = IF unanswered = Unset /\ n.pings > pings THEN 0 ELSE unanswered
  BY <1>1, <1>2, <1>3, Zenon DEF sentinelTimer
<1>12. unanswered' = age'["actPing"]
  BY <1>5, <1>7, <1>8, <1>9, <1>10, <1>11, Zenon DEF KeepsOldest, LinkInv, Sound, LinkRecord
<1>13. LinkTypeOK'
  <2>1. /\ cc' \in {"closed", "opening", "open"} /\ pc' \in BOOLEAN
        /\ disconnected' \in BOOLEAN /\ pending' \in Nat /\ pings' \in Nat
        /\ age' \in [Stamps -> Nat \cup {Unset}]
    BY <1>9, <1>10, Zenon DEF Sound, LinkRecord, Stamp
  <2>2. tilt' \in Nat \cup {Unset} /\ ticked' \in Nat
    BY <1>11, Zenon DEF sentinelCheckTiltCondition, LinkInv, LinkTypeOK
  <2>3. unanswered' \in Nat \cup {Unset}
    BY <1>11, Zenon DEF LinkInv, LinkTypeOK
  <2>4. flags' \subseteq {"sdown", "killSent"}
    BY <1>11, Zenon DEF LinkInv, LinkTypeOK, sentinelCheckSubjectivelyDown
  <2> QED
    BY <2>1, <2>2, <2>3, <2>4, Zenon DEF LinkTypeOK
<1>14. Link' = [cc |-> o.cc, pc |-> o.pc, disc |-> o.disc, pending |-> o.pending,
                pings |-> o.pings, age |-> o.age]
  BY <1>10, Zenon DEF Link
<1>15. Link' = o
  BY <1>9, <1>14, Zenon DEF Sound, LinkRecord
<1>16. Sound(Link)'
  BY <1>9, <1>15, Zenon DEF Sound
<1>17. SilenceIsNoticed'
  <2> SUFFICES ASSUME tilt' = Unset, unanswered' > DownAfter
               PROVE  "sdown" \in flags'
    BY Zenon DEF SilenceIsNoticed
  <2>1. acts
    BY <1>11, Zenon DEF Unset
  <2>2. n.age["actPing"] # Unset /\ n.age["actPing"] > DownAfter
    BY <1>0, <1>9, <1>10, <1>12, <1>13 DEF Unset, LinkTypeOK
  <2>3. Elapsed(n) > DownAfter
    BY <2>2, Zenon DEF Elapsed
  <2> QED
    BY <1>11, <2>1, <2>3, Zenon DEF sentinelCheckSubjectivelyDown
<1>18. AvailableBefore(age')
  BY <1>5, <1>8, <1>9, <1>10 DEF LinkInv, AvailableBefore, KeepsOldest
<1> QED
  BY <1>12, <1>13, <1>16, <1>17, <1>18, Zenon DEF LinkInv

\* The fields of the record that the link is rebuilt from.
LEMMA LinkFields ==
  ASSUME LinkInv
  PROVE  /\ cc = "closed" => pings = 0 /\ disconnected
         /\ pings <= pending /\ pending <= MaxPending + 1
         /\ pending \in Nat /\ pings \in Nat
<1>1. Sound(Link) /\ LinkTypeOK
  BY Zenon DEF LinkInv
<1>2. Link.cc = cc /\ Link.pings = pings /\ Link.pending = pending /\ Link.disc = disconnected
  BY Zenon DEF Link
<1> QED
  BY <1>1, <1>2, Zenon DEF Sound, LinkTypeOK

\* A reply, an error or a disconnection, as the callbacks handle them.
LEMMA CallbackSound ==
  ASSUME LinkInv,
         \/ Established \/ instanceLinkConnectionError \/ OtherReply
         \/ sentinelReceiveHelloMessages
         \/ \E reply \in {"good", "busy"} : sentinelPingReplyCallback(reply)
  PROVE  LinkInv'
<1>0. DownAfter \in Nat /\ MaxPending \in Nat
  BY LinkAssumption, Zenon
<1>1. LinkTypeOK /\ unanswered = age["actPing"] /\ AvailableBefore(age) /\ SilenceIsNoticed
  BY Zenon DEF LinkInv
<1>2. /\ cc = "closed" => pings = 0 /\ disconnected
      /\ pings <= pending /\ pending <= MaxPending + 1
      /\ pending \in Nat /\ pings \in Nat
  BY LinkFields, Zenon
<1> DEFINE Goal == /\ LinkTypeOK' /\ unanswered' = age'["actPing"] /\ SilenceIsNoticed'
                   /\ AvailableBefore(age')
                   /\ cc' = "closed" => pings' = 0 /\ disconnected'
                   /\ pings' <= pending' /\ pending' <= MaxPending + 1
<1>3. ASSUME Established PROVE Goal
  <2>1. LinkTypeOK' /\ SilenceIsNoticed' /\ unanswered' = age'["actPing"]
        /\ AvailableBefore(age')
    BY <1>1, <1>3, Zenon DEF Established, LinkTypeOK, SilenceIsNoticed
  <2> QED
    BY <1>2, <1>3, <2>1, Zenon DEF Established
<1>4. ASSUME instanceLinkConnectionError PROVE Goal
  <2>1. /\ disconnected' = TRUE /\ pending' = pending /\ age' = age /\ flags' = flags
        /\ tilt' = tilt /\ unanswered' = unanswered /\ ticked' = ticked
        /\ pings' \in {0, pings}
        /\ cc' \in {cc, "closed"} /\ (cc' # cc => pings' = 0) /\ pc' \in {pc, FALSE}
    BY <1>4, Zenon DEF instanceLinkConnectionError
  <2>2. LinkTypeOK' /\ SilenceIsNoticed'
    <3>1. /\ cc' \in {"closed", "opening", "open"} /\ pings' \in Nat
      BY <1>1, <1>2, <2>1 DEF LinkTypeOK
    <3>2. pc' \in BOOLEAN /\ disconnected' \in BOOLEAN
      BY <1>1, <2>1, Zenon DEF LinkTypeOK
    <3> QED
      BY <1>1, <2>1, <3>1, <3>2, Zenon DEF LinkTypeOK, SilenceIsNoticed
  <2>3. cc' = "closed" => pings' = 0
    BY <1>2, <2>1, Zenon
  <2>4. disconnected'
    BY <2>1, Zenon
  <2>5. pings' <= pending' /\ pending' <= MaxPending + 1
    BY <1>0, <1>2, <2>1
  <2> QED
    BY <1>1, <2>1, <2>2, <2>3, <2>4, <2>5, Zenon
<1>5. ASSUME OtherReply PROVE Goal
  <2>1. pending' = pending - 1 /\ pending > pings /\ pings' = pings
    BY <1>5, Zenon DEF OtherReply
  <2>2. pending' \in Nat /\ pings' <= pending' /\ pending' <= MaxPending + 1
    BY <1>0, <1>2, <2>1
  <2>3. LinkTypeOK' /\ SilenceIsNoticed' /\ unanswered' = age'["actPing"]
        /\ AvailableBefore(age')
    BY <1>1, <1>5, <2>2, Zenon DEF OtherReply, LinkTypeOK, SilenceIsNoticed
  <2> QED
    BY <1>2, <1>5, <2>2, <2>3, Zenon DEF OtherReply
<1>6. ASSUME sentinelReceiveHelloMessages PROVE Goal
  <2>1. age' \in [Stamps -> Nat \cup {Unset}] /\ age'["actPing"] = age["actPing"]
        /\ age'["lastAvail"] = age["lastAvail"]
    BY <1>1, <1>6, Zenon DEF sentinelReceiveHelloMessages, LinkTypeOK, Stamps
  <2> QED
    BY <1>1, <1>2, <1>6, <2>1, Zenon DEF sentinelReceiveHelloMessages, LinkTypeOK, SilenceIsNoticed, AvailableBefore,
          conn
<1>7. ASSUME NEW reply \in {"good", "busy"}, sentinelPingReplyCallback(reply)
      PROVE  Goal
  <2>1. /\ age' \in [Stamps -> Nat \cup {Unset}]
        /\ age'["actPing"] = IF reply = "good" THEN Unset ELSE age["actPing"]
        /\ age'["lastAvail"] = IF reply = "good" THEN 0 ELSE age["lastAvail"]
    BY <1>1, <1>7, Zenon DEF sentinelPingReplyCallback, Answered, LinkTypeOK, Stamps
  <2>2. flags \subseteq flags' /\ flags' \subseteq flags \cup {"killSent"}
    BY <1>7, Zenon DEF sentinelPingReplyCallback
  <2>3. /\ cc = "open" /\ cc' = cc /\ pings > 0 /\ pings' = pings - 1
        /\ pending' \in {pending, pending - 1}
        /\ pc' = pc /\ disconnected' = disconnected /\ tilt' = tilt /\ ticked' = ticked
        /\ unanswered' = IF reply = "good" THEN Unset ELSE unanswered
    BY <1>7, Zenon DEF sentinelPingReplyCallback
  <2>4. LinkTypeOK'
    BY <1>1, <1>2, <2>1, <2>2, <2>3 DEF LinkTypeOK
  <2>5. SilenceIsNoticed'
    BY <1>0, <1>1, <2>2, <2>3 DEF SilenceIsNoticed, Unset
  <2>6. /\ cc' = "closed" => pings' = 0 /\ disconnected'
        /\ pings' <= pending' /\ pending' <= MaxPending + 1
    BY <1>0, <1>2, <2>3
  <2>7. AvailableBefore(age')
    BY <1>1, <2>1 DEF AvailableBefore, Unset
  <2> QED
    BY <1>1, <2>1, <2>3, <2>4, <2>5, <2>6, <2>7, Zenon
<1>8. Goal
  BY <1>3, <1>4, <1>5, <1>6, <1>7, Zenon
<1>9. Sound(Link)'
  <2>1. Link' \in LinkRecord
    BY <1>8, Zenon DEF Link, LinkRecord, LinkTypeOK, Stamp
  <2>2. /\ Link'.cc = cc' /\ Link'.pings = pings' /\ Link'.pending = pending'
        /\ Link'.disc = disconnected'
    BY Zenon DEF Link
  <2> QED
    BY <1>8, <2>1, <2>2, Zenon DEF Sound
<1> QED
  BY <1>8, <1>9, Zenon DEF LinkInv

\* Time passes: all ages grow alike.
LEMMA TickSound ==
  ASSUME LinkInv, NEW d \in Nat \ {0}, LinkTick(d)
  PROVE  LinkInv'
<1>0. MaxAge \in Nat
  BY LinkAssumption, Zenon
<1>1. /\ LinkTypeOK /\ unanswered = age["actPing"] /\ DOMAIN age = Stamps
      /\ age \in [Stamps -> Nat \cup {Unset}]
  BY Zenon DEF LinkInv, LinkTypeOK
<1>2. \A a \in Nat \cup {Unset} : Older(a, d) \in Nat \cup {Unset}
  BY <1>0 DEF Older, Unset
<1>3. /\ age' \in [Stamps -> Nat \cup {Unset}]
      /\ age'["actPing"] = Older(age["actPing"], d)
      /\ age'["lastAvail"] = Older(age["lastAvail"], d)
  BY <1>1, <1>2, Zenon DEF LinkTick, Stamps
<1>4. /\ cc' = cc /\ pc' = pc /\ disconnected' = disconnected /\ pending' = pending
      /\ pings' = pings /\ flags' = flags /\ ticked' = d
      /\ tilt' = Older(tilt, d) /\ unanswered' = Older(unanswered, d)
  BY Zenon DEF LinkTick, conn
<1>5. LinkTypeOK'
  BY <1>1, <1>2, <1>3, <1>4, Zenon DEF LinkTypeOK
<1>6. SilenceIsNoticed'
  BY <1>4, Zenon DEF SilenceIsNoticed
<1>7. Sound(Link)'
  <2>0. /\ cc = "closed" => pings = 0 /\ disconnected
        /\ pings <= pending /\ pending <= MaxPending + 1
    BY LinkFields, Zenon
  <2>1. Link' \in LinkRecord
    BY <1>5, Zenon DEF Link, LinkRecord, LinkTypeOK, Stamp
  <2>2. /\ Link'.cc = cc' /\ Link'.pings = pings' /\ Link'.pending = pending'
        /\ Link'.disc = disconnected'
    BY Zenon DEF Link
  <2> QED
    BY <1>4, <2>0, <2>1, <2>2 DEF Sound
<1>8. AvailableBefore(age')
  BY <1>0, <1>1, <1>3 DEF LinkInv, AvailableBefore, Older, Unset
<1> QED
  BY <1>1, <1>3, <1>4, <1>5, <1>6, <1>7, <1>8, Zenon DEF LinkInv

\* Every step keeps the invariant.
LEMMA LinkStep == LinkInv /\ [LinkNext]_linkVars => LinkInv'
<1> SUFFICES ASSUME LinkInv, [LinkNext]_linkVars PROVE LinkInv'
  BY Zenon
<1>1. ASSUME NEW ok, NEW extra \in 0..1, sentinelTimer(ok, extra) PROVE LinkInv'
  BY <1>1, TimerSound, Zenon
<1>2. ASSUME NEW d \in {1, TiltTrigger + 1}, LinkTick(d) PROVE LinkInv'
  <2>1. d \in Nat \ {0}
    BY LinkAssumption
  <2> QED
    BY <1>2, <2>1, TickSound, Zenon
<1>3. CASE \/ Established \/ instanceLinkConnectionError \/ OtherReply
           \/ sentinelReceiveHelloMessages
           \/ \E reply \in {"good", "busy"} : sentinelPingReplyCallback(reply)
  BY <1>3, CallbackSound, Zenon
<1>4. CASE UNCHANGED linkVars
  BY <1>4, Zenon DEF linkVars, conn, LinkInv, LinkTypeOK, Link, Sound, SilenceIsNoticed,
          AvailableBefore
<1> QED
  BY <1>1, <1>2, <1>3, <1>4, Zenon DEF LinkNext

\* The link: while a PING waits for an acceptable reply for longer than down_after_period
\* and the Sentinel is not in TILT, the timer has flagged the instance, and pending_commands
\* stays within its limit, for all periods and limits, however replies, broken connections,
\* reconnections and long stops of the process follow each other.
THEOREM SilenceIsAlwaysSeen == LinkSpec => []SilenceIsSeen
<1>1. LinkInv => SilenceIsSeen
  BY LinkFields, Zenon DEF SilenceIsSeen, PendingBounded, LinkInv
<1> QED
  BY <1>1, LinkInitSound, LinkStep, PTL DEF LinkSpec

\* A timer that flags the instance has seen the silence.
LEMMA FlagNeedsSilence ==
  ASSUME LinkInv, LinkNext, "sdown" \in flags', "sdown" \notin flags
  PROVE  tilt' = Unset /\ age.lastAvail > DownAfter
<1>1. PICK ok \in SUBSET {"cc", "pc"}, extra \in 0..1 : sentinelTimer(ok, extra)
  <2>1. ~(\/ Established \/ instanceLinkConnectionError \/ OtherReply
          \/ sentinelReceiveHelloMessages \/ \E d : LinkTick(d)
          \/ \E reply : sentinelPingReplyCallback(reply))
    BY Zenon DEF Established, instanceLinkConnectionError, OtherReply, sentinelReceiveHelloMessages,
           LinkTick, sentinelPingReplyCallback
  <2> QED
    BY <2>1, Zenon DEF LinkNext
<1> DEFINE acts == sentinelCheckTiltCondition = Unset \/ sentinelCheckTiltCondition >= TiltPeriod
<1>2. PICK l : l = Link
  BY Zenon
<1>3. PICK m : m = sentinelReconnectInstance(l, ok)
  BY Zenon
<1>4. PICK n : n = sentinelSendPeriodicCommands(m, extra)
  BY Zenon
<1>5. Sound(l) /\ l.age = age
  BY <1>2, Zenon DEF LinkInv, Link
<1>6. Sound(m) /\ KeepsOldest(l, m)
  BY <1>3, <1>5, ReconnectSound, Zenon
<1>7. KeepsOldest(m, n)
  BY <1>4, <1>6, PeriodicSound, Zenon
<1>8. /\ tilt' = IF acts THEN Unset ELSE sentinelCheckTiltCondition
      /\ IF acts THEN sentinelCheckSubjectivelyDown(n) ELSE flags' = flags
  BY <1>1, <1>2, <1>3, <1>4, Zenon DEF sentinelTimer
<1>9. acts /\ Elapsed(n) > DownAfter
  BY <1>8, Zenon DEF sentinelCheckSubjectivelyDown
<1>10. /\ n.age["lastAvail"] = age["lastAvail"]
       /\ n.age["actPing"] \in {0, age["actPing"]}
  BY <1>5, <1>6, <1>7, Zenon DEF KeepsOldest
<1>11. DownAfter \in Nat /\ age["lastAvail"] \in Nat /\ age["actPing"] <= age["lastAvail"]
       /\ age["actPing"] \in Nat \cup {Unset}
  BY LinkAssumption, Zenon DEF LinkInv, AvailableBefore, LinkTypeOK, Stamps
<1>12. age["lastAvail"] > DownAfter
  BY <1>9, <1>10, <1>11 DEF Elapsed, Unset
<1> QED
  BY <1>8, <1>9, <1>12, Zenon

\* An instance becomes subjectively down only when nothing acceptable was heard of it for
\* longer than down_after_period, and never while the Sentinel is in TILT.
THEOREM DownMeansSilent == LinkSpec => FlaggedAfterSilence
<1>1. LinkInv /\ [LinkNext]_linkVars =>
        [ "sdown" \in flags' /\ "sdown" \notin flags =>
            tilt' = Unset /\ age.lastAvail > DownAfter ]_linkVars
  BY FlagNeedsSilence, Zenon
<1> QED
  BY <1>1, LinkInitSound, LinkStep, PTL DEF LinkSpec, FlaggedAfterSilence

===============================================================================
