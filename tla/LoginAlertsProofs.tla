------------------------- MODULE LoginAlertsProofs --------------------------
(***************************************************************************)
(* A page is the news of a loss that lasted for the whole grace: proved for *)
(* every grace, number of notifications, attempts and faults.               *)
(*                                                                          *)
(* The timer of the worker and the run of offline reports are two clocks    *)
(* that start, stop and restart at different moments.  The invariant is     *)
(* that an armed timer is never older than the run, unless what came since  *)
(* the last evaluation disarms it at the next.                              *)
(***************************************************************************)
EXTENDS LoginAlerts, SequenceTheorems, TLAPS

USE DEF AlertRow

ClocksOK ==
  /\ qq \in {"online", "loggedOut", "refuses", "silent"}
  /\ latest \in [online: BOOLEAN \cup {None}, age: Ages(Grace + 1)]
  /\ alert \in AlertRow
  /\ worker \in [up: BOOLEAN, seen: BOOLEAN, wasDown: BOOLEAN]
  /\ run \in Ages(Grace)

OutboxOK == outbox \in Seq(NotificationRow)

\* The newest sample says offline, and is not too old.
Offline == Fresh /\ latest.online = FALSE
OfflineIsRun == Offline => run # None

\* The next evaluation keeps an armed timer.
KeepsTimer == desired = "running" /\ Offline
TimerWithinRun ==
  \/ alert.armed = None
  \/ run # None /\ alert.armed <= run
  \/ ~worker.seen /\ ~KeepsTimer

PagingInv ==
  /\ ClocksOK /\ OfflineIsRun
  /\ worker.wasDown \/ (worker.up /\ TimerWithinRun)

-----------------------------------------------------------------------------
(* The clocks *)

LEMMA OlderFacts ==
  ASSUME NEW limit \in Nat, NEW t \in Ages(limit)
  PROVE  /\ Older(t, limit) \in Ages(limit)
         /\ Older(t, limit) = None <=> t = None
         /\ t # None => Older(t, limit) = IF t < limit THEN t + 1 ELSE limit
BY AlertAssumption DEF Older, Ages

LEMMA OlderKeepsOrder ==
  ASSUME NEW limit \in Nat, NEW s \in 0..limit, NEW t \in 0..limit, s <= t
  PROVE  Older(s, limit) <= Older(t, limit)
BY AlertAssumption DEF Older

\* What a report can say.
LEMMA SaysFacts ==
  ASSUME ClocksOK
  PROVE  Says \in BOOLEAN \cup {None}
BY DEF Says, ClocksOK

-----------------------------------------------------------------------------
(* The steps of the clocks *)

\* A step that leaves what the invariant speaks of alone.
LEMMA UntouchedStep ==
  ASSUME PagingInv, UNCHANGED <<latest, desired, alert, worker, run>>,
         qq' \in {"online", "loggedOut", "refuses", "silent"}
  PROVE  PagingInv'
<1>1. ClocksOK'
  BY DEF PagingInv, ClocksOK
<1>2. OfflineIsRun' /\ (TimerWithinRun' <=> TimerWithinRun)
  BY DEF PagingInv, OfflineIsRun, TimerWithinRun, KeepsTimer, Offline, Fresh
<1> QED BY <1>1, <1>2 DEF PagingInv

\* While the worker was never down, a report, a tick and a user find the newest
\* sample evaluated.
LEMMA EvaluatedFirst ==
  ASSUME PagingInv, Seen, Unseen
  PROVE  /\ worker' \in [up: BOOLEAN, seen: BOOLEAN, wasDown: BOOLEAN]
         /\ worker'.wasDown = worker.wasDown /\ worker'.up = worker.up /\ ~worker'.seen
         /\ worker.wasDown \/ (worker.up /\ (alert.armed = None \/ (run # None /\ alert.armed <= run)))
BY DEF PagingInv, Seen, Unseen, ClocksOK, TimerWithinRun

LEMMA ReportStep ==
  ASSUME PagingInv, Report
  PROVE  PagingInv'
<1>1. /\ worker' \in [up: BOOLEAN, seen: BOOLEAN, wasDown: BOOLEAN]
      /\ worker'.wasDown = worker.wasDown /\ worker'.up = worker.up /\ ~worker'.seen
      /\ worker.wasDown \/ (worker.up /\ (alert.armed = None \/ (run # None /\ alert.armed <= run)))
  BY EvaluatedFirst DEF Report
<1>2. /\ latest' = [online |-> Says, age |-> 0] /\ alert' = alert /\ qq' = qq
      /\ run' = IF Says # FALSE THEN None ELSE IF run = None THEN 0 ELSE run
  BY DEF Report
<1>3. Says \in BOOLEAN \cup {None} /\ run \in Ages(Grace) /\ alert \in AlertRow
      /\ qq \in {"online", "loggedOut", "refuses", "silent"}
  BY SaysFacts DEF PagingInv, ClocksOK
<1> HIDE DEF Says
<1>4. Grace \in Nat \ {0} /\ None \notin Nat
  BY AlertAssumption
<1>5. 0 \in Ages(Grace) /\ 0 \in Ages(Grace + 1) /\ None \in Ages(Grace)
  BY <1>4 DEF Ages
<1>6. latest' \in [online: BOOLEAN \cup {None}, age: Ages(Grace + 1)]
      /\ latest'.online = Says /\ run' \in Ages(Grace)
  BY <1>2, <1>3, <1>5
<1>7. ClocksOK'
  BY <1>1, <1>2, <1>3, <1>6 DEF ClocksOK
<1>8. Says = FALSE => run' # None /\ (run # None => run' = run)
  <2>1. None # 0
    BY <1>4
  <2>2. ASSUME Says = FALSE PROVE run' = IF run = None THEN 0 ELSE run
    BY <1>2, <2>2, Zenon
  <2> QED BY <2>1, <2>2
<1>9. OfflineIsRun'
  BY <1>6, <1>8 DEF OfflineIsRun, Offline
<1>10. worker.wasDown \/ TimerWithinRun'
  BY <1>1, <1>2, <1>6, <1>8 DEF TimerWithinRun, KeepsTimer, Offline
<1> QED BY <1>1, <1>7, <1>9, <1>10 DEF PagingInv

LEMMA UserActsStep ==
  ASSUME PagingInv, UserActs
  PROVE  PagingInv'
<1>1. /\ worker' \in [up: BOOLEAN, seen: BOOLEAN, wasDown: BOOLEAN]
      /\ worker'.wasDown = worker.wasDown /\ worker'.up = worker.up /\ ~worker'.seen
  BY EvaluatedFirst DEF UserActs
<1>2. latest' = [online |-> None, age |-> None] /\ alert' = alert /\ qq' = qq /\ run' = None
  BY DEF UserActs
<1>3. latest' \in [online: BOOLEAN \cup {None}, age: Ages(Grace + 1)]
      /\ latest'.age = None /\ None \in Ages(Grace)
  BY <1>2 DEF Ages
<1>4. ClocksOK'
  BY <1>1, <1>2, <1>3 DEF ClocksOK, PagingInv
<1>5. ~Offline'
  BY <1>3 DEF Offline, Fresh
<1>6. OfflineIsRun' /\ (worker.up => TimerWithinRun')
  BY <1>1, <1>5 DEF OfflineIsRun, TimerWithinRun, KeepsTimer
<1> QED BY <1>1, <1>4, <1>6 DEF PagingInv

LEMMA TickStep ==
  ASSUME PagingInv, Tick
  PROVE  PagingInv'
<1> DEFINE age == latest.age
           old == Older(age, Grace + 1)
           timer == Older(alert.armed, Grace)
<1>1. /\ worker' \in [up: BOOLEAN, seen: BOOLEAN, wasDown: BOOLEAN]
      /\ worker'.wasDown = worker.wasDown /\ worker'.up = worker.up /\ ~worker'.seen
      /\ worker.wasDown \/ (worker.up /\ (alert.armed = None \/ (run # None /\ alert.armed <= run)))
  BY EvaluatedFirst DEF Tick
<1>2. /\ latest \in [online: BOOLEAN \cup {None}, age: Ages(Grace + 1)]
      /\ alert \in AlertRow /\ run \in Ages(Grace)
      /\ qq \in {"online", "loggedOut", "refuses", "silent"}
  BY DEF PagingInv, ClocksOK
<1>3. Grace \in Nat \ {0} /\ None \notin Nat /\ Grace + 1 \in Nat
  BY AlertAssumption
<1>4. /\ old \in Ages(Grace + 1) /\ (old = None <=> age = None)
      /\ age # None => old = IF age < Grace + 1 THEN age + 1 ELSE Grace + 1
  BY <1>2, <1>3, OlderFacts
<1>5. timer \in Ages(Grace) /\ (timer = None <=> alert.armed = None)
  BY <1>2, <1>3, OlderFacts
<1>6. Older(run, Grace) \in Ages(Grace) /\ (Older(run, Grace) = None <=> run = None)
  BY <1>2, <1>3, OlderFacts
<1>7. alert.armed # None /\ run # None /\ alert.armed <= run => timer <= Older(run, Grace)
  BY <1>2, <1>3, OlderKeepsOrder DEF Ages
<1>8. /\ latest' = [latest EXCEPT !.age = old] /\ alert' = [alert EXCEPT !.armed = timer]
      /\ qq' = qq /\ desired' = desired
  BY DEF Tick
<1>9. run' = IF latest'.age = Grace + 1 THEN None ELSE Older(run, Grace)
  BY DEF Tick
<1> HIDE DEF old, timer
<1>10. /\ latest' \in [online: BOOLEAN \cup {None}, age: Ages(Grace + 1)]
       /\ latest'.age = old /\ latest'.online = latest.online
  BY <1>2, <1>4, <1>8
<1>11. alert' \in [open: BOOLEAN, armed: Ages(Grace)] /\ alert'.armed = timer
  BY <1>2, <1>5, <1>8
<1>12. run' \in Ages(Grace)
  BY <1>6, <1>9 DEF Ages
<1>13. ClocksOK'
  BY <1>1, <1>2, <1>8, <1>10, <1>11, <1>12 DEF ClocksOK
<1>14. Offline' => Offline /\ old # Grace + 1
  <2> SUFFICES ASSUME Offline' PROVE Offline /\ old # Grace + 1
    OBVIOUS
  <2>1. old # None /\ old <= Grace /\ latest.online = FALSE
    BY <1>10 DEF Offline, Fresh
  <2>2. age # None /\ age \in 0..Grace + 1
    BY <1>2, <1>4, <2>1 DEF Ages
  <2>3. age <= Grace /\ old # Grace + 1
    BY <1>3, <1>4, <2>1, <2>2
  <2> QED BY <2>1, <2>2, <2>3 DEF Offline, Fresh
<1>15. OfflineIsRun'
  BY <1>6, <1>9, <1>10, <1>14 DEF OfflineIsRun, PagingInv
<1>16. worker.wasDown \/ TimerWithinRun'
  <2>1. CASE old = Grace + 1
    BY <1>1, <1>14, <2>1 DEF TimerWithinRun, KeepsTimer
  <2>2. CASE old # Grace + 1
    <3>1. run' = Older(run, Grace)
      BY <1>9, <1>10, <2>2
    <3> QED BY <1>1, <1>5, <1>6, <1>7, <1>11, <3>1 DEF TimerWithinRun
  <2> QED BY <2>1, <2>2
<1> QED BY <1>1, <1>13, <1>15, <1>16 DEF PagingInv

LEMMA WorkerStep ==
  ASSUME PagingInv, WorkerStops \/ WorkerStarts
  PROVE  PagingInv'
<1>1. /\ worker' \in [up: BOOLEAN, seen: BOOLEAN, wasDown: BOOLEAN] /\ worker'.wasDown
      /\ UNCHANGED <<qq, latest, alert, run>>
  BY DEF PagingInv, ClocksOK, WorkerStops, WorkerStarts
<1>2. ClocksOK' /\ OfflineIsRun'
  BY <1>1 DEF PagingInv, ClocksOK, OfflineIsRun, Offline, Fresh
<1> QED BY <1>1, <1>2 DEF PagingInv

-----------------------------------------------------------------------------
(* The evaluation *)

\* An evaluation disarms the timer, or leaves it within the run.
LEMMA EvaluateStep ==
  ASSUME PagingInv, Evaluate
  PROVE  /\ PagingInv'
         /\ alert'.open /\ ~alert.open => worker.wasDown \/ run = Grace
<1> DEFINE armed == IF alert.armed = None THEN 0 ELSE alert.armed
           opens == alert.open \/ armed >= Grace
<1>1. /\ worker' = [worker EXCEPT !.seen = TRUE] /\ worker.up /\ ~worker.seen
      /\ UNCHANGED <<qq, latest, desired, run>>
  BY DEF Evaluate
<1>2. /\ latest \in [online: BOOLEAN \cup {None}, age: Ages(Grace + 1)]
      /\ alert \in AlertRow /\ run \in Ages(Grace)
      /\ worker \in [up: BOOLEAN, seen: BOOLEAN, wasDown: BOOLEAN]
      /\ OfflineIsRun /\ (worker.wasDown \/ TimerWithinRun)
  BY DEF PagingInv, ClocksOK
<1>3. Grace \in Nat \ {0} /\ None \notin Nat /\ None \notin BOOLEAN
  BY AlertAssumption
<1>4. armed \in 0..Grace
  BY <1>2, <1>3 DEF Ages
<1>5. \/ ~KeepsTimer /\ alert'.armed = None /\ alert' \in [open: BOOLEAN, armed: Ages(Grace)]
            /\ (alert'.open => alert.open)
      \/ KeepsTimer /\ alert' = [open |-> opens, armed |-> armed]
  <2>1. CASE desired # "running"
    <3>1. alert' = [open |-> FALSE, armed |-> None]
      BY <2>1 DEF Evaluate
    <3> QED BY <2>1, <3>1 DEF KeepsTimer, Ages
  <2>2. CASE desired = "running"
    <3>1. alert' = NextAlert
      BY <2>2 DEF Evaluate
    <3>2. CASE ~Fresh \/ latest.online = None
      <4>1. alert' = [open |-> alert.open, armed |-> None]
        BY <3>1, <3>2 DEF NextAlert
      <4>2. ~KeepsTimer
        BY <1>3, <3>2 DEF KeepsTimer, Offline
      <4> QED BY <1>2, <4>1, <4>2 DEF Ages
    <3>3. CASE Fresh /\ latest.online = TRUE
      <4>1. alert' = [open |-> FALSE, armed |-> None]
        BY <1>3, <3>1, <3>3 DEF NextAlert
      <4>2. ~KeepsTimer
        BY <3>3 DEF KeepsTimer, Offline
      <4> QED BY <4>1, <4>2 DEF Ages
    <3>4. CASE Fresh /\ latest.online = FALSE
      <4>1. KeepsTimer
        BY <2>2, <3>4 DEF KeepsTimer, Offline
      <4>2. latest.online # None
        BY <1>3, <3>4
      <4>3. alert' = [open |-> opens, armed |-> armed]
        BY <3>1, <3>4, <4>2, Zenon DEF NextAlert
      <4> QED BY <4>1, <4>3
    <3> QED BY <1>2, <3>2, <3>3, <3>4
  <2> QED BY <2>1, <2>2
<1>6. KeepsTimer => run # None /\ (worker.wasDown \/ alert.armed = None \/ alert.armed <= run)
  BY <1>1, <1>2 DEF KeepsTimer, OfflineIsRun, TimerWithinRun
<1>7. KeepsTimer => worker.wasDown \/ armed <= run
  BY <1>2, <1>3, <1>6 DEF Ages
<1> HIDE DEF armed
<1>opens. opens \in BOOLEAN /\ (opens => alert.open \/ armed >= Grace)
  OBVIOUS
<1> HIDE DEF opens
<1>8. alert' \in [open: BOOLEAN, armed: Ages(Grace)] /\ (KeepsTimer => alert'.armed = armed)
      /\ (~KeepsTimer => alert'.armed = None)
  <2>1. armed \in Ages(Grace) /\ alert.open \in BOOLEAN
    BY <1>2, <1>4 DEF Ages
  <2> QED BY <1>opens, <1>5, <2>1
<1>9. /\ worker' \in [up: BOOLEAN, seen: BOOLEAN, wasDown: BOOLEAN]
      /\ worker'.up = worker.up /\ worker'.wasDown = worker.wasDown
  BY <1>1, <1>2
<1>10. ClocksOK' /\ OfflineIsRun'
  BY <1>1, <1>8, <1>9 DEF PagingInv, ClocksOK, OfflineIsRun, Offline, Fresh
<1>11. worker.wasDown \/ TimerWithinRun'
  BY <1>1, <1>6, <1>7, <1>8 DEF TimerWithinRun
<1>12. PagingInv'
  BY <1>1, <1>9, <1>10, <1>11 DEF PagingInv
<1>13. ASSUME alert'.open, ~alert.open PROVE worker.wasDown \/ run = Grace
  <2>1. KeepsTimer /\ alert' = [open |-> opens, armed |-> armed]
    BY <1>5, <1>13
  <2>2. armed >= Grace
    BY <1>opens, <1>13, <2>1
  <2> QED BY <1>2, <1>3, <1>4, <1>6, <1>7, <2>1, <2>2 DEF Ages
<1> QED BY <1>12, <1>13

-----------------------------------------------------------------------------
(* The outbox *)

LEMMA UpdatedRow ==
  ASSUME OutboxOK, NEW i \in DOMAIN outbox, NEW row \in NotificationRow,
         outbox' = [outbox EXCEPT ![i] = row]
  PROVE  OutboxOK' /\ Len(outbox') = Len(outbox)
<1>1. outbox \in Seq(NotificationRow) /\ i \in 1..Len(outbox)
  BY DEF OutboxOK
<1> QED BY <1>1, ExceptSeq DEF OutboxOK

\* A sender, an expired claim and a backoff change the rows there are.
LEMMA DeliveryStep ==
  ASSUME OutboxOK, Claim \/ SendSucceeds \/ SendFails \/ SenderDies \/ ClaimExpires \/ BackoffElapses
  PROVE  OutboxOK' /\ Len(outbox') = Len(outbox)
<1>1. ASSUME NEW i \in DOMAIN outbox, NEW status \in {"claimed", "expired", "waiting", "sent", "failed", "deferred"}
      PROVE  [outbox[i] EXCEPT !.status = status] \in NotificationRow
  <2>1. outbox[i] \in NotificationRow
    BY DEF OutboxOK
  <2> QED BY <2>1 DEF NotificationRow
<1>2. CASE Claim
  <2>1. PICK i \in DOMAIN outbox:
          outbox' = [outbox EXCEPT ![i].status = "claimed", ![i].attempts = @ + 1]
    BY <1>2 DEF Claim, Claimable
  <2> DEFINE claimed == [outbox[i] EXCEPT !.status = "claimed"]
             row == [claimed EXCEPT !.attempts = @ + 1]
  <2>2. claimed \in NotificationRow
    BY <1>1
  <2> HIDE DEF claimed
  <2>3. row \in NotificationRow
    BY <2>2 DEF NotificationRow
  <2> USE DEF claimed
  <2>4. outbox' = [outbox EXCEPT ![i] = row]
    BY <2>1
  <2> HIDE DEF row
  <2> QED BY <2>3, <2>4, UpdatedRow
<1>3. ASSUME NEW s \in sending, NEW status \in {"sent", "failed", "deferred"}, Answer(s, status)
      PROVE  OutboxOK' /\ Len(outbox') = Len(outbox)
  <2>1. outbox' = outbox \/ outbox' = [outbox EXCEPT ![s.row].status = status]
    BY <1>3 DEF Answer
  <2>2. CASE s.row \in DOMAIN outbox
    <3>1. CASE outbox' = outbox
      BY <3>1 DEF OutboxOK
    <3>2. CASE outbox' = [outbox EXCEPT ![s.row].status = status]
      <4> DEFINE row == [outbox[s.row] EXCEPT !.status = status]
      <4>1. row \in NotificationRow /\ outbox' = [outbox EXCEPT ![s.row] = row]
        BY <1>1, <2>2, <3>2
      <4> HIDE DEF row
      <4> QED BY <2>2, <4>1, UpdatedRow
    <3> QED BY <2>1, <3>1, <3>2
  <2>3. CASE s.row \notin DOMAIN outbox
    BY <2>1, <2>3 DEF OutboxOK
  <2> QED BY <2>2, <2>3
<1>4. CASE SendSucceeds
  BY <1>3, <1>4 DEF SendSucceeds
<1>5. CASE SendFails
  BY <1>3, <1>5 DEF SendFails
<1>6. CASE ClaimExpires \/ BackoffElapses
  <2>1. PICK i \in DOMAIN outbox, status \in {"expired", "waiting"}:
          outbox' = [outbox EXCEPT ![i].status = status]
    BY <1>6 DEF ClaimExpires, BackoffElapses
  <2> QED BY <1>1, <2>1, UpdatedRow
<1>7. CASE SenderDies
  BY <1>7 DEF SenderDies, OutboxOK
<1> QED BY <1>2, <1>4, <1>5, <1>6, <1>7

LEMMA AppendRow ==
  ASSUME OutboxOK, NEW row \in NotificationRow, outbox' = Append(outbox, row)
  PROVE  OutboxOK' /\ outbox'[Len(outbox')] = row
BY AppendProperties DEF OutboxOK

\* Only an evaluation that opens an incident queues a page.
LEMMA EvaluateOutbox ==
  ASSUME OutboxOK, Evaluate, PagingInv
  PROVE  OutboxOK' /\ (Pages => alert'.open /\ ~alert.open)
<1>1. CASE outbox' = outbox
  <2>1. Len(outbox) \in Nat
    BY DEF OutboxOK
  <2> QED BY <1>1, <2>1 DEF OutboxOK, Pages
<1>2. CASE alert'.open # alert.open
           /\ outbox' = Append(outbox, Row(IF alert'.open THEN "offline" ELSE "recovery"))
  <2> DEFINE row == Row(IF alert'.open THEN "offline" ELSE "recovery")
  <2>1. row \in NotificationRow /\ row.event = IF alert'.open THEN "offline" ELSE "recovery"
    BY DEF Row, NotificationRow
  <2>2. outbox' = Append(outbox, row)
    BY <1>2
  <2> HIDE DEF row
  <2>3. OutboxOK' /\ outbox'[Len(outbox')] = row
    BY <2>1, <2>2, AppendRow
  <2>4. alert.open \in BOOLEAN
    BY DEF PagingInv, ClocksOK
  <2>5. alert'.open \in BOOLEAN
    BY EvaluateStep DEF PagingInv, ClocksOK
  <2>6. Pages => alert'.open
    BY <2>1, <2>3, <2>5 DEF Pages
  <2> QED BY <1>2, <2>3, <2>4, <2>6
<1> QED BY <1>1, <1>2 DEF Evaluate

-----------------------------------------------------------------------------
(* The theorem *)

LEMMA PagingInit == Init => PagingInv /\ OutboxOK
<1> SUFFICES ASSUME Init PROVE PagingInv /\ OutboxOK
  OBVIOUS
<1>1. Grace \in Nat \ {0} /\ None \notin Nat \cup BOOLEAN
  BY AlertAssumption
<1>2. ClocksOK
  BY <1>1 DEF Init, ClocksOK, Ages
<1>3. OfflineIsRun /\ TimerWithinRun
  BY <1>1 DEF Init, OfflineIsRun, Offline, Fresh, TimerWithinRun
<1> QED BY <1>2, <1>3 DEF Init, PagingInv, OutboxOK

PagingStep == Pages => run = Grace \/ worker.wasDown

\* Steps that queue nothing.
LEMMA NoPage ==
  ASSUME OutboxOK, OutboxOK' /\ Len(outbox') = Len(outbox)
  PROVE  PagingStep
BY DEF OutboxOK, PagingStep, Pages

LEMMA PagingNext ==
  ASSUME PagingInv, OutboxOK, [Next]_vars
  PROVE  PagingInv' /\ OutboxOK' /\ PagingStep
<1>1. CASE Evaluate
  BY <1>1, EvaluateStep, EvaluateOutbox DEF PagingStep
<1>2. CASE Claim \/ SendSucceeds \/ SendFails \/ SenderDies \/ ClaimExpires \/ BackoffElapses
  <2>1. UNCHANGED <<latest, desired, alert, worker, run>> /\ qq' = qq
    BY <1>2 DEF Claim, SendSucceeds, SendFails, Answer, SenderDies, ClaimExpires, BackoffElapses
  <2>2. PagingInv'
    BY <2>1, UntouchedStep DEF PagingInv, ClocksOK
  <2> QED BY <1>2, <2>2, DeliveryStep, NoPage
<1>3. CASE \/ Report \/ AgentRestarts \/ WorkerStops \/ WorkerStarts \/ QqChanges \/ UserActs \/ Tick
           \/ UNCHANGED vars
  <2>1. outbox' = outbox
    BY <1>3 DEF Report, AgentRestarts, WorkerStops, WorkerStarts, QqChanges, UserActs, Tick,
                vars, delivery
  <2>2. OutboxOK' /\ Len(outbox') = Len(outbox)
    BY <2>1 DEF OutboxOK
  <2>3. CASE AgentRestarts \/ QqChanges \/ UNCHANGED vars
    <3>1. /\ UNCHANGED <<latest, desired, alert, worker, run>>
          /\ qq' \in {"online", "loggedOut", "refuses", "silent"}
      BY <2>3 DEF AgentRestarts, QqChanges, vars, PagingInv, ClocksOK
    <3> QED BY <2>2, <3>1, UntouchedStep, NoPage
  <2>4. CASE Report \/ WorkerStops \/ WorkerStarts \/ UserActs \/ Tick
    BY <2>2, <2>4, ReportStep, WorkerStep, UserActsStep, TickStep, NoPage
  <2> QED BY <1>3, <2>3, <2>4
<1> QED BY <1>1, <1>2, <1>3 DEF Next

\* A page follows reports that said "offline" for the whole grace without a gap
\* (evaluateQqLoginAlertTransition and offline_since), unless the worker was down.
THEOREM PageNeedsWholeGrace == Spec => PagesAfterGrace
<1>1. PagingInv /\ OutboxOK /\ [Next]_vars => PagingInv' /\ OutboxOK'
  BY PagingNext
<1>2. PagingInv /\ OutboxOK /\ [Next]_vars => [PagingStep]_vars
  BY PagingNext
<1>3. Spec => [][PagingStep]_vars
  BY <1>1, <1>2, PagingInit, PTL DEF Spec
<1> QED BY <1>3 DEF PagesAfterGrace, PagingStep
=============================================================================
