---------------------------- MODULE LoginAlerts ----------------------------
(***************************************************************************)
(* From the QQ login of a SnowLuma endpoint to the mail about its loss: the  *)
(* agent probes the provider and reports what it knows, the worker arms a    *)
(* timer, opens and closes incidents and queues notifications, and senders   *)
(* claim and deliver them.                                                   *)
(*                                                                          *)
(* Time passes in ticks of the length of one report; it is kept as ages.    *)
(* Operators marked "Defect" are variants of the definition that follows    *)
(* them, as a plausible bug would have it.                                   *)
(***************************************************************************)
EXTENDS Naturals, Sequences, FiniteSets

CONSTANTS
  Grace,       \* graceSeconds, in ticks
  ProbeGrace,  \* providerUnreachableGraceMs, in ticks
  MaxRows,     \* bound: notifications queued
  MaxAttempts, \* attempts after which a notification fails
  MaxFaults,   \* bound: senders that die or lose the database, and worker outages
  None

ASSUME AlertAssumption ==
  /\ Grace \in Nat \ {0} /\ ProbeGrace \in Nat /\ MaxAttempts \in Nat \ {0}
  /\ MaxRows \in Nat /\ MaxFaults \in Nat
  /\ None \notin Nat \cup BOOLEAN

VARIABLES
  qq,       \* what QQ and its provider do
  since,    \* probeUnreachableSince: ticks the provider has not answered
  latest,   \* the newest observation of the generation: what it says, its age
  desired,  \* the endpoint's desired state
  alert,    \* qq_login_notification_state: incident, ticks since the timer was armed
  worker,   \* the worker runs; it has looked at the state as it is; it was down once
  outbox,   \* notification_outbox
  sending,  \* sends under way: the row and the claim they hold
  run,      \* history: ticks all reports have said "offline" without a gap
  faults    \* faults so far

delivery == <<outbox, sending, faults>>
vars == <<qq, since, latest, desired, alert, worker, outbox, sending, run, faults>>

\* One more tick, up to a limit past which it makes no difference.
Older(ticks, limit) ==
  IF ticks = None THEN None ELSE IF ticks < limit THEN ticks + 1 ELSE limit

Ages(limit) == 0..limit \cup {None}

\* The rows of qq_login_notification_state and notification_outbox.
AlertRow == [open: BOOLEAN, armed: Ages(Grace)]
NotificationRow ==
  [event: {"offline", "recovery"},
   status: {"waiting", "claimed", "expired", "deferred", "sent", "failed"}, attempts: Nat]

-----------------------------------------------------------------------------
(* The agent *)

\* A provider that does not answer is unknown until it has been for the grace;
\* one that refuses the token is up, and says nothing of QQ.
Unreachable == IF since = None THEN 0 ELSE since
Says ==
  CASE qq = "online" -> TRUE
    [] qq = "loggedOut" -> FALSE
    [] qq = "refuses" -> None
    [] qq = "silent" -> IF Unreachable >= ProbeGrace THEN FALSE ELSE None

\* The worker runs far more often than reports come; only an outage makes it miss one.
Seen == worker.seen \/ ~worker.up
Unseen == worker' = [worker EXCEPT !.seen = FALSE]

Report ==
  /\ Seen /\ Unseen
  /\ since' = IF qq = "silent" THEN Unreachable ELSE None
  /\ latest' = [online |-> Says, age |-> 0]
  /\ run' = IF Says # FALSE THEN None ELSE IF run = None THEN 0 ELSE run
  /\ UNCHANGED <<qq, desired, alert, delivery>>

AgentRestarts ==
  /\ since # None
  /\ since' = None
  /\ UNCHANGED <<qq, latest, desired, alert, worker, run, delivery>>

-----------------------------------------------------------------------------
(* The worker: reconcileEndpointNotifications *)

Fresh == latest.age # None /\ latest.age <= Grace

\* Defect: a stale or unknown sample leaves the timer as it was.
NextAlertKeepingTimer ==
  IF ~Fresh \/ latest.online = None THEN [open |-> alert.open, armed |-> alert.armed]
  ELSE IF latest.online THEN [open |-> FALSE, armed |-> None]
  ELSE LET armed == IF alert.armed = None THEN 0 ELSE alert.armed IN
       [open |-> alert.open \/ armed >= Grace, armed |-> armed]

\* evaluateQqLoginAlertTransition: offline has to last for the grace, and what
\* is stale or unknown disarms the timer.
NextAlert ==
  IF ~Fresh \/ latest.online = None THEN [open |-> alert.open, armed |-> None]
  ELSE IF latest.online THEN [open |-> FALSE, armed |-> None]
  ELSE LET armed == IF alert.armed = None THEN 0 ELSE alert.armed IN
       [open |-> alert.open \/ armed >= Grace, armed |-> armed]

Row(event) == [event |-> event, status |-> "waiting", attempts |-> 0]

Evaluate ==
  /\ worker.up /\ ~worker.seen
  /\ worker' = [worker EXCEPT !.seen = TRUE]
  /\ IF desired # "running"
     THEN alert' = [open |-> FALSE, armed |-> None] /\ UNCHANGED outbox
     ELSE /\ alert' = NextAlert
          /\ IF alert'.open = alert.open THEN UNCHANGED outbox
             ELSE /\ Len(outbox) < MaxRows
                  /\ outbox' = Append(outbox, Row(IF alert'.open THEN "offline" ELSE "recovery"))
  /\ UNCHANGED <<qq, since, latest, desired, run, sending, faults>>

WorkerStops ==
  /\ worker.up /\ faults < MaxFaults /\ faults' = faults + 1
  /\ worker' = [worker EXCEPT !.up = FALSE, !.wasDown = TRUE]
  /\ UNCHANGED <<qq, since, latest, desired, alert, run, outbox, sending>>

WorkerStarts ==
  /\ ~worker.up
  /\ worker' = [worker EXCEPT !.up = TRUE, !.seen = FALSE]
  /\ UNCHANGED <<qq, since, latest, desired, alert, run, delivery>>

-----------------------------------------------------------------------------
(* The senders: processConfiguredNotification *)

\* Defect: a claim is never given up.
ClaimableFree == {i \in DOMAIN outbox: outbox[i].status = "waiting"}

\* What waits, and what a sender claimed more than two minutes ago.
Claimable == {i \in DOMAIN outbox: outbox[i].status \in {"waiting", "expired"}}

Claim ==
  \E i \in Claimable:
    /\ \A j \in Claimable: i <= j
    /\ outbox' = [outbox EXCEPT ![i].status = "claimed", ![i].attempts = @ + 1]
    /\ sending' = sending \cup {[row |-> i, claim |-> outbox[i].attempts + 1]}
    /\ UNCHANGED <<qq, since, latest, desired, alert, worker, run, faults>>

\* The answer of the mail provider, or its absence, counts while the claim holds;
\* the last attempt fails the notification, an earlier one defers it.
Holds(s) ==
  outbox[s.row].attempts = s.claim /\ outbox[s.row].status \in {"claimed", "expired"}
Answer(s, status) ==
  /\ outbox' = IF Holds(s) THEN [outbox EXCEPT ![s.row].status = status] ELSE outbox
  /\ sending' = sending \ {s}
  /\ UNCHANGED <<qq, since, latest, desired, alert, worker, run, faults>>

SendSucceeds == \E s \in sending: Answer(s, "sent")
SendFails ==
  \E s \in sending: Answer(s, IF s.claim >= MaxAttempts THEN "failed" ELSE "deferred")

\* The sender dies, or its update of the row fails.
SenderDies ==
  \E s \in sending:
    /\ faults < MaxFaults /\ faults' = faults + 1
    /\ sending' = sending \ {s}
    /\ UNCHANGED <<qq, since, latest, desired, alert, worker, run, outbox>>

ClaimExpires ==
  \E i \in DOMAIN outbox:
    /\ outbox[i].status = "claimed"
    /\ \A s \in sending: s.row = i => faults < MaxFaults
    /\ outbox' = [outbox EXCEPT ![i].status = "expired"]
    /\ faults' = IF \E s \in sending: s.row = i THEN faults + 1 ELSE faults
    /\ UNCHANGED <<qq, since, latest, desired, alert, worker, run, sending>>

BackoffElapses ==
  \E i \in DOMAIN outbox:
    /\ outbox[i].status = "deferred"
    /\ outbox' = [outbox EXCEPT ![i].status = "waiting"]
    /\ UNCHANGED <<qq, since, latest, desired, alert, worker, run, sending, faults>>

-----------------------------------------------------------------------------
(* QQ, the users and the clock *)

QqChanges ==
  /\ qq' \in {"online", "loggedOut", "refuses", "silent"} \ {qq}
  /\ UNCHANGED <<since, latest, desired, alert, worker, run, delivery>>

\* A start or stop: a new generation, of which nothing is observed yet.
UserActs ==
  /\ desired' \in {"running", "stopped"}
  /\ latest' = [online |-> None, age |-> None]
  /\ run' = None /\ since' = None
  /\ Seen /\ Unseen
  /\ UNCHANGED <<qq, alert, delivery>>

Tick ==
  /\ Seen /\ Unseen
  /\ since' = Older(since, ProbeGrace)
  /\ latest' = [latest EXCEPT !.age = Older(@, Grace + 1)]
  /\ alert' = [alert EXCEPT !.armed = Older(@, Grace)]
  /\ run' = IF latest'.age = Grace + 1 THEN None ELSE Older(run, Grace)
  /\ UNCHANGED <<qq, desired, delivery>>

Init ==
  /\ qq = "online" /\ since = None
  /\ latest = [online |-> None, age |-> None]
  /\ desired = "running" /\ alert = [open |-> FALSE, armed |-> None]
  /\ worker = [up |-> TRUE, seen |-> FALSE, wasDown |-> FALSE]
  /\ outbox = <<>> /\ sending = {} /\ run = None /\ faults = 0

Next ==
  \/ Report \/ AgentRestarts \/ Evaluate \/ WorkerStops \/ WorkerStarts
  \/ Claim \/ SendSucceeds \/ SendFails \/ SenderDies \/ ClaimExpires \/ BackoffElapses
  \/ QqChanges \/ UserActs \/ Tick

\* Senders are polled, a send ends after 10 s at the latest, and time passes.
Fairness ==
  /\ WF_vars(Claim) /\ WF_vars(SendSucceeds \/ SendFails)
  /\ WF_vars(ClaimExpires) /\ WF_vars(BackoffElapses)

Spec == Init /\ [][Next]_vars /\ Fairness

-----------------------------------------------------------------------------
(* Properties *)

\* A page is the news of a loss that lasted: the reports before it said "offline"
\* for the whole grace, without a gap; a probe that fails, a refused token or an
\* agent that is away never page by themselves. (A worker that was down is excused:
\* only an evaluation disarms the timer, and none takes place meanwhile.)
Pages == Len(outbox') > Len(outbox) /\ outbox'[Len(outbox')].event = "offline"
PagesAfterGrace == [][Pages => run = Grace \/ worker.wasDown]_vars

\* A queued notification is sent or fails for good, although senders die with
\* their claims and answers come after the claim has expired.
NotificationEnds ==
  \A i \in 1..MaxRows:
    i \in DOMAIN outbox ~> i \in DOMAIN outbox /\ outbox[i].status \in {"sent", "failed"}
=============================================================================
