------------------------------- MODULE Agent -------------------------------
(***************************************************************************)
(* The command loop of the agent: DurableFakeAgent.pollOnce, the HTTP       *)
(* transport it calls and the loop of cli.ts around it.  One poll is a      *)
(* heartbeat, a claim, the receipt, the runtime's work with its progress    *)
(* reports and the keepalive beside it, the journal's records and the       *)
(* result.                                                                  *)
(*                                                                          *)
(* Operators marked "Defect" are variants of the definition that follows   *)
(* them, as a plausible bug would have it.                                  *)
(***************************************************************************)
EXTENDS LeaseServer

Session == agent.session
Lse == agent.lease
Id == [op |-> Lse.op, id |-> Lse.id]
Logged == journal[Id]

At(stage) == agent.stage = stage
To(stage) == agent' = [agent EXCEPT !.stage = stage]

\* pollOnce throws or returns, and the loop polls again.
Poll(a) == [a EXCEPT !.stage = "poll", !.lease = None, !.fence = FALSE,
                     !.sequence = 0, !.done = FALSE, !.ends = "throw"]
PollAgain == agent' = Poll(agent)

\* Every request names the session of the process.  A claim that an older control
\* plane does not understand is made again in a plainer form: the same claim here.
Sends(type) == [type |-> type, session |-> Session]
SendsProgress(lease, n) ==
  [type |-> "progress", session |-> Session, lease |-> lease, sequence |-> n]
SendsResult(lease, outcome) ==
  [type |-> "result", session |-> Session, lease |-> lease, outcome |-> outcome]

\* A request is answered (taken, with its effect on the server), refused, or
\* given up: it is lost, or may arrive later.
Refused(taken) == ~taken /\ UNCHANGED server

GivenUp(requests) ==
  /\ faults < MaxFaults
  /\ faults' = faults + 1
  /\ late' = late \cup requests
  /\ UNCHANGED server

Answered == UNCHANGED <<late, faults>>

-----------------------------------------------------------------------------
(* Polling *)

\* The empty heartbeat that keeps the node alive, when 5 s have passed.
PollHeartbeat ==
  /\ At("poll") /\ agent.due
  /\ \/ /\ HeartbeatTaken(Session) /\ Heartbeat(Session) /\ Answered
        /\ To("claim")
     \/ Refused(HeartbeatTaken(Session)) /\ Answered /\ PollAgain
     \/ GivenUp({Sends("heartbeat")}) /\ PollAgain
  /\ UNCHANGED <<keep, chain, journal, effects>>

PollClaim ==
  /\ At("claim") \/ (At("poll") /\ ~agent.due)
  /\ \/ /\ ClaimTaken(Session) /\ Claim(Session) /\ Answered
        /\ agent' = IF Claimed # None
                    THEN [agent EXCEPT !.stage = "receipt", !.lease = Claimed, !.due = TRUE]
                    ELSE IF agent.due THEN [agent EXCEPT !.stage = "observe", !.due = FALSE]
                    ELSE Poll(agent)
     \/ /\ Refused(ClaimTaken(Session)) /\ Answered
        /\ agent' = Poll([agent EXCEPT !.due = FALSE])
     \/ /\ GivenUp({Sends("claim")})
        /\ agent' = Poll([agent EXCEPT !.due = FALSE])
  /\ UNCHANGED <<keep, chain, journal, effects>>

\* Without a command the full telemetry follows, in batches of 200 endpoints.
Observe ==
  /\ At("observe")
  /\ \/ HeartbeatTaken(Session) /\ Heartbeat(Session) /\ Answered
     \/ Refused(HeartbeatTaken(Session)) /\ Answered
     \/ GivenUp({Sends("heartbeat")})
  /\ PollAgain
  /\ UNCHANGED <<keep, chain, journal, effects>>

\* Five seconds pass since the last heartbeat of a poll.
BecomesDue ==
  /\ At("poll") /\ ~agent.due
  /\ agent' = [agent EXCEPT !.due = TRUE]
  /\ UNCHANGED <<server, late, keep, chain, journal, effects, faults>>

-----------------------------------------------------------------------------
(* The journal *)

\* Write the entry of the command in hand and go on; an append that fails
\* breaks the journal, and every later one throws.
Log(entry, next, thrown) ==
  \/ /\ ~agent.broken
     /\ journal' = [journal EXCEPT ![Id] = entry]
     /\ agent' = next
     /\ UNCHANGED faults
  \/ /\ agent.broken \/ faults < MaxFaults
     /\ agent' = [thrown EXCEPT !.broken = TRUE]
     /\ faults' = IF agent.broken THEN faults ELSE faults + 1
     /\ UNCHANGED journal

RecordReceipt ==
  /\ At("receipt")
  /\ IF Logged.receipt
     THEN To("sendReceipt") /\ UNCHANGED <<journal, faults>>
     ELSE Log([Logged EXCEPT !.receipt = TRUE],
              [agent EXCEPT !.stage = "sendReceipt"], Poll(agent))
  /\ UNCHANGED <<server, late, keep, chain, effects>>

-----------------------------------------------------------------------------
(* Progress *)

Pending(who) == \E i \in DOMAIN chain: chain[i].for = who

\* A report takes the next number and queues behind the earlier ones.
Numbered(a) == [a EXCEPT !.sequence = @ + 1]
Queued(who) == Append(chain, [sequence |-> agent.sequence + 1, for |-> who])

SendReceipt ==
  /\ At("sendReceipt")
  /\ \/ /\ LeaseTaken(Session, Lse) /\ Answered /\ UNCHANGED server
        /\ agent' = Numbered([agent EXCEPT !.stage = "firstReport"])
        /\ chain' = Queued("command")
     \/ Refused(LeaseTaken(Session, Lse)) /\ Answered /\ PollAgain /\ UNCHANGED chain
     \/ GivenUp({}) /\ PollAgain /\ UNCHANGED chain
  /\ UNCHANGED <<keep, journal, effects>>

\* One submission ends: any error is the fence, and a fence rejects the rest.
SubmitNth(i) ==
  LET report == chain[i] IN
  /\ \/ agent.fence /\ Answered /\ UNCHANGED <<server, agent>>
     \/ /\ ~agent.fence
        /\ ProgressTaken(Session, Lse, report.sequence) /\ Progress(Lse, report.sequence)
        /\ Answered /\ UNCHANGED agent
     \/ /\ ~agent.fence
        /\ \/ Refused(ProgressTaken(Session, Lse, report.sequence)) /\ Answered
           \/ GivenUp({SendsProgress(Lse, report.sequence)})
        /\ agent' = [agent EXCEPT !.fence = TRUE]
  /\ chain' = SubSeq(chain, 1, i - 1) \o SubSeq(chain, i + 1, Len(chain))
  /\ keep' = IF report.for = "keepalive" THEN "idle" ELSE keep
  /\ UNCHANGED <<journal, effects>>

\* Defect: reports are sent side by side.
SubmitAny == \E i \in DOMAIN chain: SubmitNth(i)

\* Reports are chained on `reporting`: the next is sent once the last ended.
Submit == chain # <<>> /\ SubmitNth(1)

\* The first report is awaited before anything else; then the timer starts.
FirstReportEnds ==
  /\ At("firstReport") /\ ~Pending("command")
  /\ IF agent.fence THEN PollAgain /\ UNCHANGED keep
     ELSE To("work") /\ keep' = "idle"
  /\ UNCHANGED <<server, late, chain, journal, effects, faults>>

\* Every 10 s, unless the last round still runs.
KeepaliveFires ==
  /\ keep = "idle" /\ ~At("finally")
  /\ agent.sequence < MaxSequence
  /\ keep' = "heartbeat"
  /\ UNCHANGED <<server, late, agent, chain, journal, effects, faults>>

\* What follows the keepalive's heartbeat: a repeated report, unless fenced.
KeepaliveReports ==
  IF agent.fence \/ agent.sequence = MaxSequence
  THEN keep' = "idle" /\ UNCHANGED <<agent, chain>>
  ELSE keep' = "report" /\ agent' = Numbered(agent) /\ chain' = Queued("keepalive")

\* A refusal is the fence; any other error of the heartbeat is ignored.
KeepaliveBeats ==
  /\ keep = "heartbeat"
  /\ \/ /\ HeartbeatTaken(Session) /\ Heartbeat(Session) /\ Answered
        /\ KeepaliveReports
     \/ /\ Refused(HeartbeatTaken(Session)) /\ Answered
        /\ agent' = [agent EXCEPT !.fence = TRUE]
        /\ keep' = "idle" /\ UNCHANGED chain
     \/ GivenUp({Sends("heartbeat")}) /\ KeepaliveReports
  /\ UNCHANGED <<journal, effects>>

-----------------------------------------------------------------------------
(* The work *)

Local == UNCHANGED <<server, late, keep, chain>>

\* Leave the try block for `finally`; an error thrown under the fence, or one of
\* the network, leaves no result.
Leave(ends) == [agent EXCEPT !.stage = "finally", !.ends = ends]
Catch(next) == IF agent.fence THEN Leave("throw") ELSE next

\* Defect: a recorded effect is not looked up.
StartWorkAlways ==
  /\ At("work")
  /\ agent' = IF Logged.result # None THEN Leave("send")
              ELSE [agent EXCEPT !.stage = "applying"]
  /\ Local /\ UNCHANGED <<journal, effects, faults>>

\* Defect: a command that was received before counts as applied.
StartWorkOnce ==
  /\ At("work")
  /\ agent' = IF Logged.result # None THEN Leave("send")
              ELSE [agent EXCEPT !.stage = IF Lse.attempt > 1 THEN "recordEffect" ELSE "applying"]
  /\ Local /\ UNCHANGED <<journal, effects, faults>>

\* What an earlier attempt recorded is not done again.
StartWork ==
  /\ At("work")
  /\ agent' = IF Logged.result # None THEN Leave("send")
              ELSE [agent EXCEPT !.stage = IF Logged.effect THEN "recordEffect" ELSE "applying"]
  /\ Local /\ UNCHANGED <<journal, effects, faults>>

\* runtime.apply reports in between, does its work, and returns or throws; it
\* waits for each of its reports.
RuntimeReports ==
  /\ At("applying") /\ ~Pending("command") /\ ~agent.fence
  /\ agent.sequence < MaxSequence
  /\ agent' = Numbered(agent)
  /\ chain' = Queued("command")
  /\ UNCHANGED <<server, late, keep, journal, effects, faults>>

RuntimeWorks ==
  /\ At("applying") /\ ~Pending("command") /\ ~agent.done
  /\ agent' = [agent EXCEPT !.done = TRUE]
  /\ effects' = effects \cup {Id}
  /\ Local /\ UNCHANGED <<journal, faults>>

ApplyReturns ==
  /\ At("applying") /\ ~Pending("command") /\ agent.done
  /\ agent' = Catch([agent EXCEPT !.stage = "recordEffect"])
  /\ Local /\ UNCHANGED <<journal, effects, faults>>

ApplyThrows ==
  /\ At("applying") /\ ~Pending("command")
  /\ \/ agent' = Catch([agent EXCEPT !.stage = "recordFailed"]) /\ UNCHANGED faults
     \/ /\ faults < MaxFaults /\ faults' = faults + 1
        /\ agent' = Leave("throw")
  /\ Local /\ UNCHANGED <<journal, effects>>

RecordEffect ==
  /\ At("recordEffect")
  /\ IF agent.fence THEN agent' = Leave("throw") /\ UNCHANGED <<journal, faults>>
     ELSE Log([Logged EXCEPT !.effect = TRUE], [agent EXCEPT !.stage = "recordResult"],
              [agent EXCEPT !.stage = "recordFailed"])
  /\ Local /\ UNCHANGED <<effects>>

RecordResult ==
  /\ At("recordResult")
  /\ IF agent.fence THEN agent' = Leave("throw") /\ UNCHANGED <<journal, faults>>
     ELSE Log([Logged EXCEPT !.result = "succeeded"], Leave("send"),
              [agent EXCEPT !.stage = "recordFailed"])
  /\ Local /\ UNCHANGED <<effects>>

RecordFailed ==
  /\ At("recordFailed")
  /\ Log([Logged EXCEPT !.result = "failed"], Leave("send"), Leave("throw"))
  /\ Local /\ UNCHANGED <<effects>>

\* The timer is cleared, the keepalive and the reports under way are awaited.
Finally ==
  /\ At("finally") /\ keep = "idle" /\ chain = <<>>
  /\ keep' = "off"
  /\ IF agent.fence \/ agent.ends = "throw" THEN PollAgain ELSE To("sendResult")
  /\ UNCHANGED <<server, late, chain, journal, effects, faults>>

\* Defect: the attempt is left out, which the control plane reads as 1.
ResultLeaseFirst(lease) == [lease EXCEPT !.attempt = 1]

\* The recorded result goes out under the attempt in hand, not the one it was
\* recorded in.
ResultLease(lease) == lease

SendResult ==
  LET lease == ResultLease(Lse) IN
  /\ At("sendResult")
  /\ \/ ResultTaken(Session, lease) /\ Result(lease, Logged.result) /\ Answered
     \/ Refused(ResultTaken(Session, lease)) /\ Answered
     \/ GivenUp({SendsResult(lease, Logged.result)})
  /\ PollAgain
  /\ UNCHANGED <<keep, chain, journal, effects>>

-----------------------------------------------------------------------------
(* Crash and restart *)

\* The process dies, or is told to stop, and another one takes its place with a
\* session of its own; one that was killed leaves the journal's lock behind,
\* which an operator removes first.
Crash ==
  /\ ~At("down") /\ faults < MaxFaults /\ Session < MaxSessions
  /\ agent' = [Poll(agent) EXCEPT !.stage = "down"]
  /\ keep' = "off" /\ chain' = <<>>
  /\ faults' = faults + 1
  /\ UNCHANGED <<server, late, journal, effects>>

Start ==
  /\ At("down")
  /\ agent' = [agent EXCEPT !.stage = "poll", !.session = @ + 1, !.due = TRUE, !.broken = FALSE]
  /\ UNCHANGED <<server, late, keep, chain, journal, effects, faults>>

-----------------------------------------------------------------------------

Init ==
  /\ node = [session |-> None, epoch |-> 0, retired |-> {}, fresh |-> FALSE]
  /\ rows = [o \in Ops |-> NoRow]
  /\ late = {}
  /\ agent = [stage |-> "down", session |-> 0, due |-> TRUE, broken |-> FALSE,
              lease |-> None, fence |-> FALSE, sequence |-> 0, done |-> FALSE,
              ends |-> "throw"]
  /\ keep = "off" /\ chain = <<>>
  /\ journal = [i \in Ids |-> [receipt |-> FALSE, effect |-> FALSE, result |-> None]]
  /\ effects = {}
  /\ faults = 0

AgentStep ==
  \/ PollHeartbeat \/ PollClaim \/ Observe
  \/ RecordReceipt \/ SendReceipt \/ FirstReportEnds
  \/ StartWork \/ RuntimeReports \/ RuntimeWorks \/ ApplyReturns \/ ApplyThrows
  \/ RecordEffect \/ RecordResult \/ RecordFailed
  \/ Finally \/ SendResult

Keepalive == KeepaliveFires \/ KeepaliveBeats \/ Submit

LateRequest == \E r \in late: Arrives(r) \/ Dropped(r)

Next ==
  \/ AgentStep \/ Keepalive \/ BecomesDue
  \/ Crash \/ Start
  \/ LateRequest
  \/ \E kind \in {"delete", "other"}: Dispatch(kind)
  \/ LeaseExpires \/ NodeGoesStale

\* The event loop serves the poll and the keepalive, time passes, a process that
\* is down is started again, and a request that was given up arrives or does not.
Fairness ==
  /\ WF_vars(AgentStep) /\ WF_vars(Keepalive) /\ WF_vars(BecomesDue)
  /\ WF_vars(Start) /\ WF_vars(LateRequest)
  /\ WF_vars(LeaseExpires) /\ WF_vars(NodeGoesStale)

Spec == Init /\ [][Next]_vars /\ Fairness

-----------------------------------------------------------------------------
(* Properties *)

\* An operation that succeeded was carried out: the runtime did the work of that
\* very command, and the journal holds the same outcome, also when the result
\* came with a later attempt, or late.
SuccessWasDone ==
  \A o \in Ops: rows[o].status = "succeeded" =>
    LET i == [op |-> o, id |-> rows[o].id] IN
    i \in effects /\ journal[i].result = "succeeded"

\* The runtime is not asked again for what the journal says was done: neither a
\* lost result, nor a fence between two records, nor a new lease repeats work.
RecordedWorkIsNotRepeated ==
  [][agent'.done /\ ~agent.done => ~Logged.effect /\ Logged.result = None]_vars

\* Without faults an agent gives a command up only when the control plane
\* withdrew it: the keepalive's reports and the runtime's own never make the
\* sequence fence reject one another.
FencedOnlyWhenSuperseded ==
  faults = 0 /\ agent.fence => rows[Lse.op].status = "stale"

\* A success that was recorded is not turned into a failure by lost requests and
\* later leases, while the node is not taken over and its attempts suffice.
RecordedSuccessStands ==
  \A o \in Ops: rows[o].status = "failed" /\ node.retired = {} =>
    journal[[op |-> o, id |-> rows[o].id]].result # "succeeded"

\* A command that was dispatched ends, whatever fails between.
CommandSettles ==
  \A o \in Ops: rows[o].status \in Live ~> rows[o].status \notin Live
=============================================================================
