---------------------------- MODULE LeaseServer ----------------------------
(***************************************************************************)
(* What the agent's command loop works on: the process of the agent with    *)
(* its journal, and the control plane it polls, kept to what it answers one *)
(* node (ControlPlane has the transactions in full).                        *)
(*                                                                          *)
(* A request is answered, refused, or given up after a timeout; one given   *)
(* up may still arrive later.                                               *)
(***************************************************************************)
EXTENDS Naturals, Sequences, FiniteSets

CONSTANTS
  MaxOps,       \* bound: operations of the endpoint
  MaxAttempts,  \* maxCommandAttempts
  MaxSequence,  \* bound: progress reports of one attempt
  MaxSessions,  \* bound: agent processes, one session id each
  MaxFaults,    \* bound: crashes, lost requests, failed appends, network errors
  None

ASSUME AgentAssumption ==
  /\ MaxOps \in Nat /\ MaxFaults \in Nat /\ MaxSequence \in Nat \ {0}
  /\ MaxAttempts \in Nat \ {0} /\ MaxSessions \in Nat \ {0}

Ops == 1..MaxOps
Sessions == 1..MaxSessions

\* A command is one row of an operation; a takeover gives a row a new id.
Ids == [op: Ops, id: 1..MaxSessions]

VARIABLES
  node,     \* the node's row: session, epoch, retired sessions, fresh
  rows,     \* agent_commands, with the status of their operations
  late,     \* requests given up by the agent that may still arrive
  agent,    \* the process: where pollOnce is, and its local variables
  keep,     \* the keepalive timer and its task
  chain,    \* the submissions behind `reporting`, the first one in flight
  journal,  \* the journal's entry of each command
  effects,  \* history: the commands whose work the runtime did
  faults    \* faults so far

server == <<node, rows>>
process == <<agent, keep, chain>>
vars == <<node, rows, late, agent, keep, chain, journal, effects, faults>>

-----------------------------------------------------------------------------
(* Records *)

Row == [kind: {"delete", "other"}, id: 1..MaxSessions, epoch: 0..MaxSessions,
        status: {"none", "queued", "leased", "succeeded", "failed", "stale"},
        attempts: 0..MaxAttempts, expired: BOOLEAN, sequence: 0..MaxSequence]

NoRow == [kind |-> "other", id |-> 1, epoch |-> 0, status |-> "none",
          attempts |-> 0, expired |-> FALSE, sequence |-> 0]

\* What claim returned: it names the row, its epoch and the attempt.
Lease == [op: Ops, id: 1..MaxSessions, epoch: 0..MaxSessions, attempt: 1..MaxAttempts]

Outcomes == {"succeeded", "failed"}
Entry == [receipt: BOOLEAN, effect: BOOLEAN, result: Outcomes \cup {None}]

ASSUME NoneAssumption == None \notin Sessions /\ None \notin Lease /\ None \notin Outcomes

Stages ==
  {"down", "poll", "claim", "observe", "receipt", "sendReceipt", "firstReport", "work",
   "applying", "recordEffect", "recordResult", "recordFailed", "finally", "sendResult"}

\* `due` is observationDue, `broken` a journal whose append failed, `done` says
\* that the call of apply in hand did its work, `ends` how pollOnce will end.
Process ==
  [stage: Stages, session: 0..MaxSessions, due: BOOLEAN, broken: BOOLEAN,
   lease: Lease \cup {None}, fence: BOOLEAN, sequence: 0..MaxSequence,
   done: BOOLEAN, ends: {"send", "throw"}]

\* The request kinds that change the control plane when they arrive late.
Requests ==
  [type: {"heartbeat", "claim"}, session: Sessions]
    \cup [type: {"progress"}, session: Sessions, lease: Lease, sequence: 1..MaxSequence]
    \cup [type: {"result"}, session: Sessions, lease: Lease, outcome: Outcomes]

\* The types; a lease is in hand exactly while a command is worked on.
TypeOK ==
  /\ node \in [session: Sessions \cup {None}, epoch: 0..MaxSessions,
               retired: SUBSET Sessions, fresh: BOOLEAN]
  /\ rows \in [Ops -> Row]
  /\ late \subseteq Requests
  /\ agent \in Process
  /\ (agent.lease = None) = (agent.stage \in {"down", "poll", "claim", "observe"})
  /\ keep \in {"off", "idle", "heartbeat", "report"}
  /\ chain \in Seq([sequence: 1..MaxSequence, for: {"command", "keepalive"}])
  /\ journal \in [Ids -> Entry]
  /\ effects \subseteq Ids
  /\ faults \in 0..MaxFaults

-----------------------------------------------------------------------------
(* The control plane: what a request does when it arrives, and when it is    *)
(* refused with 401 or 409.                                                  *)

Live == {"queued", "leased"}

HeartbeatTaken(s) ==
  \/ node.session \in {s, None}
  \/ s \notin node.retired /\ ~node.fresh

\* A command ends; what is not read any more of its row is reset.
Ended(row, status) == [row EXCEPT !.status = status, !.attempts = 0, !.expired = FALSE,
                                  !.sequence = 0]

\* Taking a node over retires the session that had it: deletions start afresh
\* under a new command id, every other command fails.
TakenOver(row) ==
  IF row.status \notin Live \/ row.epoch # node.epoch THEN row
  ELSE IF row.kind = "delete"
       THEN [row EXCEPT !.id = @ + 1, !.epoch = node.epoch + 1, !.status = "queued",
                        !.attempts = 0, !.expired = FALSE, !.sequence = 0]
       ELSE Ended(row, "failed")

Heartbeat(s) ==
  LET takeover == node.session \notin {s, None} IN
  /\ node' = [session |-> s, fresh |-> TRUE,
              epoch |-> IF node.session = s THEN node.epoch ELSE node.epoch + 1,
              retired |-> IF takeover THEN node.retired \cup {node.session} ELSE node.retired]
  /\ rows' = IF takeover THEN [o \in Ops |-> TakenOver(rows[o])] ELSE rows

\* Defect: only commands that wait are claimed.
ClaimableQueued == {o \in Ops: rows[o].status = "queued" /\ rows[o].epoch = node.epoch}

\* The oldest command that waits, or whose lease ran out.
Claimable ==
  {o \in Ops: rows[o].status \in Live /\ rows[o].epoch = node.epoch
              /\ (rows[o].status = "leased" => rows[o].expired)}
Oldest == CHOOSE o \in Claimable: \A p \in Claimable: o <= p

ClaimTaken(s) == node.session = s
Exhausted == Claimable # {} /\ rows[Oldest].attempts >= MaxAttempts

Leased(row) == [row EXCEPT !.status = "leased", !.attempts = @ + 1, !.expired = FALSE,
                           !.sequence = 0]

\* The claim hands out a command, or fails one that used its attempts up.
Claim(s) ==
  /\ rows' =
       IF Claimable = {} THEN rows
       ELSE IF Exhausted THEN [rows EXCEPT ![Oldest] = Ended(@, "failed")]
       ELSE [rows EXCEPT ![Oldest] = Leased(@)]
  /\ UNCHANGED node

Claimed ==
  IF Claimable = {} \/ Exhausted THEN None
  ELSE [op |-> Oldest, id |-> rows[Oldest].id, epoch |-> rows[Oldest].epoch,
        attempt |-> rows[Oldest].attempts + 1]

LeaseTaken(s, l) ==
  /\ node.session = s /\ node.epoch = l.epoch
  /\ rows[l.op].id = l.id /\ rows[l.op].epoch = l.epoch /\ rows[l.op].status = "leased"

ProgressTaken(s, l, q) ==
  LeaseTaken(s, l) /\ rows[l.op].attempts = l.attempt /\ rows[l.op].sequence < q

Progress(l, q) ==
  /\ rows' = [rows EXCEPT ![l.op].sequence = q, ![l.op].expired = FALSE]
  /\ node' = [node EXCEPT !.fresh = TRUE]

ResultTaken(s, l) == LeaseTaken(s, l) /\ rows[l.op].attempts = l.attempt

Result(l, outcome) ==
  /\ rows' = [rows EXCEPT ![l.op] = Ended(@, outcome)]
  /\ UNCHANGED node

\* A request that was given up arrives after all, if it is still taken.
Arrives(r) ==
  /\ late' = late \ {r}
  /\ CASE r.type = "heartbeat" -> HeartbeatTaken(r.session) /\ Heartbeat(r.session)
       [] r.type = "claim"     -> ClaimTaken(r.session) /\ Claim(r.session)
       [] r.type = "progress"  -> ProgressTaken(r.session, r.lease, r.sequence)
                                    /\ Progress(r.lease, r.sequence)
       [] r.type = "result"    -> ResultTaken(r.session, r.lease) /\ Result(r.lease, r.outcome)
  /\ UNCHANGED <<process, journal, effects, faults>>

Dropped(r) ==
  /\ late' = late \ {r}
  /\ UNCHANGED <<server, process, journal, effects, faults>>

\* The worker dispatches an operation to the connected node; a newer one may
\* supersede the command that is out (a forced restart, an expiry deletion).
Dispatch(kind) ==
  \E o \in Ops:
    /\ node.session # None
    /\ rows[o].status = "none" /\ \A p \in Ops: p < o => rows[p].status # "none"
    /\ rows' = [p \in Ops |->
         IF p = o THEN [NoRow EXCEPT !.kind = kind, !.epoch = node.epoch, !.status = "queued"]
         ELSE IF rows[p].status \in Live THEN Ended(rows[p], "stale")
         ELSE rows[p]]
    /\ \A p \in Ops: rows[p].status \in Live => rows[p].kind # "delete"
    /\ \A p \in Ops: rows[p].kind = "delete" => rows[p].status # "succeeded"
    /\ UNCHANGED <<node, late, process, journal, effects, faults>>

\* A lease runs out; it is told only when something may claim, which is what reads it.
LeaseExpires ==
  \E o \in Ops:
    /\ rows[o].status = "leased" /\ ~rows[o].expired
    /\ agent.lease = None \/ \E r \in late: r.type = "claim"
    /\ rows' = [rows EXCEPT ![o].expired = TRUE]
    /\ UNCHANGED <<node, late, process, journal, effects, faults>>

\* No heartbeat for nodeFreshMs, which only another session looks at; a request
\* that was given up does not take that long.
NodeGoesStale ==
  /\ node.fresh /\ agent.session # node.session
  /\ \A r \in late: r.type # "heartbeat"
  /\ node' = [node EXCEPT !.fresh = FALSE]
  /\ UNCHANGED <<rows, late, process, journal, effects, faults>>
=============================================================================
