# A verification project for BotRoost

BotRoost is a control plane for OneBot endpoints. An API server and a worker
share a PostgreSQL database; an agent on every node claims commands from the
API over HTTP, runs containers, and reports back. This directory holds TLA+
models of the parts of that system where several actors race, the TLC instances
that check them, and TLAPS proofs about them. `PROJECT.json` lists components,
runs, mutants, findings, hazards and theorems, and maps every definition to the
lines it models.

## 1. The system

| Component | State | Operations | What is hard | What makes it correct |
| --- | --- | --- | --- | --- |
| Operation lifecycle (`packages/database/src/index.ts`, `apps/api`) | `endpoints`, `operations`, `outbox_events` | `createEndpoint`, `mutateEndpoint`, `processOne`, `finalizeEndpointDeletion` | requests, worker sweeps and agent results write the same rows | one active operation per endpoint, of the current generation; nothing queued is lost; a finished operation keeps its outcome |
| Command leases (same file) | `agent_commands` | `claimAgentCommand`, `recordAgentReceipt`, `recordAgentProgress`, `recordAgentResult` | leases expire while agents work; results arrive late and twice | only the newest claim's result counts; the attempts are bounded; staged work ends |
| Node sessions (same file) | `nodes`, `retired_node_sessions` | `heartbeat`, `deleteNode` | an agent dies and another takes over in the middle of everything | a retired session has no effect; deletions survive the takeover |
| Shared node pool (migrations 0024, 0028) | `platform_node_pool`, `workspace_node_pool_grants` | share, unshare, grant, revoke; triggers on endpoints, operations and commands | access disappears while work is queued, leased or running | withdrawing access ends the leases and spares finished work |
| Expiry and reclaim (same file, `apps/worker`) | `workspaces.expires_at`, idempotency keys | `processExpiredWorkspaces`, `reclaimStaleEndpoints` | sweeps race users and each other | sweeps never break the rules above; expiry ends in deletion |
| Agent journal (`packages/agent-journal`) | a file of JSON lines, a lock directory | `open`, `recordReceipt`, `recordEffect`, `recordResult`, `close` | torn writes, failed syncs, crashes, two processes | what an append was answered for is recovered and never changes |
| Agent command loop (`apps/agent/src/index.ts`, `cli.ts`) | journal, session, progress sequence, keepalive | `pollOnce`, `reportProgress`, transport retries, heartbeats | a crash between effect and record; a keepalive beside the runtime's own reports; requests that arrive late | recorded work is not repeated; success means done; every command ends |
| NapCat runtime (`apps/agent/src/index.ts`) | the accepted commands and their file, containers or StatefulSets | `apply` and its plans | a fault between any two calls; replays; old commands | older commands have no effect; replays keep the new pod |
| SnowLuma and LLBot runtimes | the same without the fence; SnowLuma's remembered OneBot configuration | `apply`, restores, probes | the same; restores race updates | only owned workloads change; data survives; an update survives restarts |
| Agent telemetry (`traffic.ts`, the snapshots of the three runtimes, `warm`) | caches of snapshots, credentials and traffic; a background flight | observation passes, full snapshots, log reads | two readers of one log; a snapshot that outlives a command; a credential shared by two callers; a new process | a line counts once; metadata belongs to its generation; the configuration ends up shown |
| Docker and Kubernetes drivers (`apps/agent/src/runtime`) | containers; StatefulSets, pods, claims, restart markers | create, start, stop, restart, delete, deleteData, verify | waits, name reuse, nodes without room | a restart ends and falls back; foreign objects stay |
| Alerts (database, worker, SnowLuma's probe) | a timer and incident per endpoint, `notification_outbox` | probe, observe, evaluate, claim, send, retry | flapping observations, gaps, retries of what was sent | a page needs a whole grace offline; every notification ends |
| Runtime proxy (`apps/api/src/runtime-proxy.ts`) | tickets, websocket pairs | admission, minting, redirects, bridging | requests suspended at an await while others evict tickets; frames before the handshake ends | a live ticket works; frames keep their order |
| Endpoint reducer (`packages/reconciler`) | per-endpoint simulation | `reduceEndpoint` | late and duplicate results | a result counts once |
| Observation retention (database, worker) | `observations`, a cursor | `pruneObservations` | races with heartbeats | the newest evidence survives |
| Tenancy, auth, web, schemas | users, members, sessions | CRUD | the last owner | roles are never escalated or orphaned |

The API, the worker and the agents interact only through the database
transactions (the agents by way of HTTP routes that call one transaction each,
`apps/api/src/index.ts:244-249`). The agent's parts interact by calls inside one
process, and with the host through files, container engines and the API server
of a cluster. Observations go with the heartbeat to the database, where the
worker reads them for alerts and reclaims.

## 2. The plan

| | Module | Models | State |
| --- | --- | --- | --- |
| 1 | `ControlPlane` | the database: operations, outbox, leases, sessions, pool, expiry and reclaim together, because they write the same rows | checked, proved |
| 2 | `Journal`, `CommandLedger`, `JournalRecords` | the agent's journal and the ledger it implements | checked, proved |
| 3 | `LeaseServer`, `Agent` | the command loop against the lease protocol, over requests that are lost or late | checked, proved |
| 4 | `RuntimeState`, `DockerDriver`, `KubernetesDriver`, `Runtime` | the three runtimes on both backends, call by call | checked, proved |
| 5 | `OneBot` | SnowLuma's remembered OneBot configuration | checked, proved |
| 6 | `LoginAlerts` | from the login probe to the mail | checked, proved in part |
| 7 | `RuntimeProxy` | tickets, redirects and websockets | checked, proved |
| 8 | `TrafficLog`, `Telemetry` | what the agent reports of an endpoint, through its caches | checked, proved |
| 9 | `Tenancy` | owners and invitations under concurrent updates | open |

`Agent` uses the lease protocol in the form of `LeaseServer`: the rows, sessions
and fences of `ControlPlane`, kept to one node and endpoint, so that every message
between the two can be delayed. `Runtime` stands in the place of the "work" step
of `Agent`; `Agent` keeps of it whether it was done.

Still worth proving: `SuccessMeansServing` of `Runtime`.

## 3. The modules

### ControlPlane

One variable per table. `nodes` joins `nodes`, `retired_node_sessions`, the pool
row and the grant of one workspace; `commands` and `outbox` are keyed by the
operation id, which both tables declare unique. The row id of an operation is its
position in `created_at` order. Idempotency keys are abstracted to who wrote
them (`trigger`): a user's key is fresh, the keys of the sweeps are a function of
the endpoint, the family and, for reclaims, the generation. `claims` holds every
claim response ever returned to an agent, so a receipt, progress report or result
may arrive at any later moment, in any order, more than once or never: that is
how late, lost and duplicated agent requests are modelled.

One action is one transaction, named as in `packages/database/src/index.ts`.
Branches that end one transaction differently are actions of their own:
`processOne` is `SettleEvent`, `DeferEvent`, `DispatchEvent` or
`DeleteUnassigned`; `claimAgentCommand` is `ClaimNothing`, `ClaimLease`,
`ClaimCancelled` (the trigger `guard_agent_command_claim` turns the lease into a
stale row) or `ClaimExhausted`; `heartbeat` is `HeartbeatSame`, `HeartbeatFirst` or
`HeartbeatTakeover`. The triggers of migrations 0024 and 0028 are inside the
actions whose rows fire them, as guards where they raise (the transaction rolls
back and nothing changes) and as updates where they rewrite.

Time is three kinds of flags, each set by an action of its own: `expired` on a
lease, `fresh` on a node, `telemetry` on an endpoint. The workspace's expiry is
`"none"`, `"expired"` or, past the grace period, `"due"`.

Abstracted: `repairMissingOutbox` (a no-op while `QueuedOperationHasEvent`
holds, which the core run checks); the in-memory database; lock waits and
`SKIP LOCKED` (a skipped row is a step that happens later); other workspaces, which
appear as other endpoints would; request parsing and roles. `deleteEndpoint`
and `updateEndpoint` are called by no route that reaches the operations and are
left out.

### Journal, JournalRecords, CommandLedger

`JournalRecords` has the records and `Applicable`, the rules of
`FileAgentJournal.apply`. A `JournalEntry` is the set of records of its command,
and payloads are taken up to canonical JSON equality.

`Journal` has the file (`lines`, whether bytes follow the last newline, and how
many lines fsync made durable), the lock directory, and per process the fields of
`FileAgentJournal`: where `open` or `close` is (`pc`), `poisoned`, the entries, the
promise chain as `queue` and the running `append` with what it wrote so far.
Every `await` between two effects on the file or the lock is a step boundary:
`mkdir`, `owner.json`, the replay, each short write, the write that completes the
line, the sync together with the update of the memory that follows it without an
await, `unlink` and `rmdir`. `FailOpen` and `FailAppend` are the catch blocks and
may happen wherever the code awaits.
`Crash` stops a process and leaves file and lock; a close that throws half-way is
seen by others in the same way. `ClearLock` is the operator's clean-up of
`docs/site/operations/troubleshooting.md`, allowed only while no process has the
journal. `PowerLoss` also takes any suffix of lines that were not synced, possibly
leaving part of a line.

Abstracted: a successful fsync makes everything before it durable and the
truncation of `open` is durable with its sync; a line cut at any byte is either
complete or torn; schema validation of payloads and ids (a refused call changes
nothing); file modes, symbolic links and the Windows branches.

A call is answered in one of two ways. An append is answered behind its fsync. A
call that repeats what the memory has returns at once (`Repeats`), with no write
and no sync; the memory of a process that just opened the file also has lines whose
writer died before its fsync. The history `acked` keeps the two apart: `appended`,
and `exposed` for what a repeated call was told of that no fsync covers yet.

`CommandLedger` is what the agent may rely on: the `stored` records a restart
finds, the `durable` ones, the `acknowledged` ones whose append was answered, and
the `exposed` ones. Records are stored one by one and never changed, and are consistent
(one payload for a key, no effect or result without its receipt); no effect joins
a command whose result is stored. Only `Lose`, a power loss, takes records away, and no
durable one. A record is acknowledged only when all that is stored becomes durable,
itself included; a repeated call is told only of a stored record. `Journal` implements it with
all complete lines as `stored` and the synced prefix as `durable`.

### LeaseServer, Agent

`LeaseServer` is what the agent sees of the control plane: `node`, the `rows` of
`agent_commands` joined with their operations, and one operator per route
(`Heartbeat`, `Claim`, `Progress`, `Result`) with the conditions of the transaction behind
it (`HeartbeatTaken`, `ClaimTaken`, `LeaseTaken`, `ProgressTaken`, `ResultTaken`; a receipt
changes nothing here but passes or fails `LeaseTaken`). `Agent` has the process: `agent.stage` is
where `pollOnce` is, `chain` the promise chain behind `reportProgress` with its first
request in flight, `keep` the keepalive timer and its task. A request is answered,
refused, or given up after its timeout; one given up may arrive later (`late`). The
process may die at any stage, and its journal is what the next one finds; the next
process has a new session and takes the node over.

Abstracted: the journal is `CommandLedger`'s set of `stored` records, which `Journal`
is shown to implement (the host of the agent does not lose power here, so nothing is taken
from it); the runtime's work is one step with an effect, or an error;
an observation says that the agent lives, and `Telemetry` what is in it.

### RuntimeState, DockerDriver, KubernetesDriver, Runtime

`Runtime!Plan` translates a command and what `inspect` returned into the calls the
provider makes, one list per provider and backend; `Client` is a call of the Docker client,
which is the call itself on Docker (`Plain`) and on Kubernetes what the adapter makes of
it (`Adapted`). A call is an action of `DockerDriver` or
`KubernetesDriver` (in the latter: one request to the API server, or the end of a wait),
and a fault may fall between any two: `Crash`, `LeaseLost`, `IoError`, `WaitTimesOut`,
`RegistryFails`, `ContainerExits`. The controllers, the scheduler and the kubelet
are external actions (`ClusterStep`): a StatefulSet with a replica gets a pod of the
same name, a pod whose resources do not fit stays pending.

Abstracted: a specification is its resources, "small" or "big", where only a node with
room can place the big ones, and the rest of it (image, proxy, mounts), "old" or
"new"; the fallback of a restart restores the marker and the resources only. `exited`
remembers that a container stopped by itself since it was started. Durable data is present or not,
and whose; the supporting objects (Services, Secret, NetworkPolicy) are one flag;
snapshots, logs and the exchanges with a provider's own API are one call without
effect (`Telemetry` has the former two). The deadline of a command is `IoError` at the call it falls in.

### OneBot

`queue` is `executionQueue`, `at` the step of its first task, and `file`, `mem` and
`loaded` the remembered configurations. Commands, the restores scheduled after
a command and the restores the observations ask for all pass through the
queue. A container that restarts comes back with `Base`.

### LoginAlerts

Time passes in ticks of one report; ages replace timestamps. The probe's verdict
(`Verdict`), its grace, the report of the agent, the worker's evaluation
(`evaluateQqLoginAlertTransition` with the clearing of the timer when the endpoint is
meant to be stopped or its observation is too old) and the outbox with its claims are
actions. A report may be missing (the agent is away), an evaluation may be (the worker
is down), and the two interleave.

### RuntimeProxy

`entries` is `TicketStore.entries`, tickets numbered in the order of minting, `requests` how far each
handler is, `sockets` what its websocket pair has received, queued and sent. A
handler runs without interruption up to its next await. A tick of the clock is
atomic; the lifetime of a ticket is two ticks.

### TrafficLog, Telemetry

`TrafficLog` is one container's log and the accumulator that counts its lines: the
parsers of the three providers over sets of marks, `sinceSeconds`, the cut at the newest
`Tail` lines, `ingest` with its memory and its window, and two readers, because the
main thread and NapCat's background flight may both be in `protocolTraffic`. A line
that is `owed` has to be counted; a line that a truncated read cut off, that went with
the container before any read, or that the parser does not know, is not.

`Telemetry` EXTENDS it with the rest of one endpoint. `box` is the runtime as it is,
`agent` what the process keeps (whether a runtime was made for the provider, the
accepted generation, the cached snapshot and credential), `threads` the steps of the main
thread, where passes and commands take turns, and of the flight, and `plane` what the
control plane asked for and stores. A snapshot is the start of the runtime it was read from
and the OneBot configuration it shows. `Warms` is `warm` with
`providersWithStateOnNode`; without a runtime an endpoint is not observed until a command
makes one (`RuntimeFor`). NapCat's full snapshots are exchanges with a credential
that is good for one start of the runtime; `Answered`, `Rejected` and `Unanswered` are the
branches of `napcatRequest`. SnowLuma's and LLBot's read a probe, a file (which on
Kubernetes only a running pod can read) and the traffic. A command runs in two steps,
so that the flight and the reads fall in between; what it does to the runtime call by call is
`Runtime`'s subject, and here an `Effect`, or on failure a `Partial` one.

Abstracted: a configuration is "old" or "new"; a credential is the start of the runtime
that gave it; the group directory, resource usage and login QR codes are payload; an
observation that the control plane refuses because of its generation is dropped
(`Stores`, with the condition of `ControlPlane`'s heartbeat).

## 4. The runs

Every run finishes within three minutes on two workers.

| Run | Instance | What it shows |
| --- | --- | --- |
| `core` | one SnowLuma endpoint and node, 2 sessions, 2 operations, 2 attempts, 1 progress report, builds that upgrade | the operation, its event and its command stay consistent while agents crash, are taken over, come back and report late, and while force-restart, delete and a proxy update (which keeps the generation) race them; only the newest claim counts; a deletion is not superseded |
| `access` | two NapCat endpoints on one node, one session, 2 operations in all, every platform-owner step, expiry, stale telemetry | withdrawing a node at any moment ends its leases and keeps finished outcomes; no mixture of users, sweeps and platform owner leaves two active operations, or one of an old generation |
| `progress` | as `core` without platform steps and progress reports, with fairness | a queued operation is dispatched or ended; a staged one ends |
| `journal` | two processes, one command, one effect id, a failing and a succeeding payload, two waiting calls | one process owns the file, the file always replays, memory and file agree, an append is answered when durable and a repeated call from the file, close ends |
| `agent` | 2 operations, 3 attempts, 3 progress reports, 2 processes, 1 fault | what is reported as done was done and recorded; recorded work is not repeated; no false fencing; every command ends |
| `runtime` | NapCat, SnowLuma and LLBot on Docker, NapCat (with and without room) and SnowLuma on Kubernetes, any two commands, 1 fault, an endpoint that is absent, running, stopped, or whose name is taken | data and foreign objects survive; old commands have no effect; replays keep the new pod; a restart serves or falls back; an outage of the registry costs no runtime |
| `onebot` | 2 endpoints, 2 configurations, 2 commands, 2 tries, 2 faults | an update is remembered, never taken back by a restore, and restored |
| `alerts` | a grace of one tick, a probe grace of one, 2 notifications, 2 attempts, 1 fault | a page needs a whole grace of "offline"; every notification ends |
| `proxy` | 2 mounts, 2 requests at a time, a store of 2 tickets, 3 minted, 3 frames, symmetric mounts and requests | a live ticket works; frames keep their order |
| `telemetry` | one endpoint, one command, one event of the runtime, one fault (NapCat and SnowLuma on Docker, NapCat and LLBot on Kubernetes); five smaller instances with one or two log lines | a line counts once; no cached or late snapshot passes for the state after a newer command; the configuration shows up |
| `deletion_blocked`, `adapter_drift` | the smallest instance of each | the disagreements of section 7 |

The bounds. `MaxOps = 2` is enough for one operation to race its successor on
the same endpoint; the rules relate at most two operations. `MaxAttempts = 2` has a
lease that is lost and one that exhausts the budget; `agent` has 3, for a lease that
is lost to the fault, one to the takeover, and one that ends. Two sessions are one takeover in
either direction; a third process could only repeat it. One progress report per attempt
is enough to reorder it with the result; in `progress` there is none, because an
agent that renews its lease forever owes no end to anybody. `MaxExpiryTries` is 5
in the code and 2 here. The node epoch and the clock are bounded by the
other bounds (a takeover retires a session). In the journal,
commands do not interact: `apply` reads the entry of one command only, and one
command with two payloads has every conflict the code knows. Two waiting calls are
one that runs and one that waits behind it when it fails. In `runtime`, two commands
are one that leaves something behind and one that finds it, and one fault falls
between any two calls of either. On Docker `SuccessMeansServing` speaks of any number of
faults (TLC also finds it to hold there with three); on Kubernetes it bears one
(section 7). LLBot makes on Kubernetes the same calls of the
adapter as SnowLuma, the check of the image excepted. In `onebot`, the second
endpoint is what a whole-file write could damage; two tries have one that fails and a
last one. In `alerts`, an offline run is reached, missed by one tick, and interrupted;
two notifications are a page and the news of the recovery. In `proxy` the third
ticket displaces the first.

In `telemetry` the unit of time is a sampling interval, and the constants keep the order
of the code's: the window is the longest (`Window = 3`), a first read is shorter
(`MinSince = 2`), reads reach back a little further than the last (`Overlap = 1`), a line may be
as far in the future as a read lasts (`Skew = MaxRead = 2`; that the overlap, five seconds, is
no longer than a read may take is an assumption of `TrafficLog`). One line per read (`Tail = 1`)
is cut off as soon as there are two. One command is enough to have a flight of the
generation before it. Log lines and caches do not influence each other but by the time
they take, so the instances with a line have fewer commands and faults and those without
leave the reads out. `Slots` bounds the log, not its time: ages stop growing once they are
past the window.

Deadlock is checked except in `runtime`, `adapter_drift`, `onebot` and `telemetry`, where
the bounded commands run out and the system rests.

## 5. Fairness

`ControlPlane!Fairness` assumes what runs by itself: the worker loop
(`apps/worker/src/index.ts`, `runWorker`, retries after every error), an agent
process that polls for every node, the first heartbeat of a node, and time
(leases, deferrals and the grace period run out). It does not assume that agents
report, succeed, survive or stay. All of it is weak fairness: once the head of
the outbox can be processed it stays so until it is.

`Journal!FairSpec` assumes that a live process continues what it has begun: the
promise chain of `serialize` and the awaited calls settle. Processes may die, fail
an append and never be opened again.

`Agent!Fairness`: a process that lives takes its next step, its keepalive fires,
a supervisor starts it again, a request given up arrives if it is to arrive,
and time passes. `Runtime!Fairness`: the agent continues the plan it has begun,
and the cluster reconciles. `OneBot!Fairness`: the queue goes on, scheduled tries and
the observations of the heartbeat happen, a running container logs in.
`LoginAlerts!Fairness`: senders claim, their sends end, and claims and backoffs run out.
`Telemetry!Fairness`: the agent's main thread and the flight proceed (the poll loop
catches what a pass throws, every request has a time limit), a log read ends (the
client's time limit), and time passes. That a request succeeds is not assumed: faults are
bounded instead. `ConfigIsReported` only speaks of behaviours in which the endpoint
settles. `RuntimeProxy` has no liveness property and states none.

## 6. What is proved

Each theorem holds for every number of nodes, endpoints, sessions, operations,
processes, commands, faults and records. It uses the named assumptions of the modules only:
bounds are natural numbers, the providers of endpoints and nodes are declared, `None` and
`Garbage` are not rows, records or workloads; one theorem about `Agent` names the bound it
needs.

`ControlPlaneProofs`: `TypeCorrect`, `OneActiveOperationHolds`,
`ActiveOperationStaysCurrent` and `OutcomeIsFinal`. `TypeOK` is inductive by itself, with one
lemma per transaction. The other invariant is
`TypeOK`, `OneActiveOperation` and `ActiveOperationIsCurrent` together: a writer that
moves the generation on either finds no active operation or supersedes those
there are, and the row it inserts is then the only active one and carries the new
generation; every other transaction leaves generations alone and turns no finished
or absent row active. A result needs its operation running, so what has ended
stays ended.

The second half of `ControlPlaneProofs`: `QueuedOperationsHaveEvents`, `DeletedEndpointsAreQuiet`,
`LeasedCommandsAreRunning`, `RunningOperationsHaveCommands`, `RetiredSessionsStayOut`,
`NewestClaimWins`, `RevocationsEndLeases` and `DeletionsAreNotSuperseded`; with the
first half, every safety property the runs check of `ControlPlane`. The invariant,
`Books`, adds to the one above what ties the tables together. `EventBooks`: a row that is
unused or queued names no node and has no command, so a takeover or a withdrawal, which
select rows by node, never meet a queued one. `CommandBooks`: a live command agrees with
its operation on node and epoch, so the two updates of a takeover, which filter
`agent_commands` and `operations` separately, hit the same pairs. A withdrawal leaves
queued commands behind their stale operations; that the node has then left its owner or is
revoked (`PoolBooks`: a pooled node is owned by no workspace) is what keeps such a command
from being leased into a contradiction. `AttemptBooks`: no claim is ahead of the command of a
running operation. Each transaction is shown to move every row in one of a few
ways (`RowStep`), every node in another (`NodesStep`), and claims follow from the two.
TLC found `Books` invariant in the instances of `core` and `access` before it was proved.

`AgentProofs`: `TypeCorrect`, `WorkIsNotRepeated`, `SuccessesWereDone`,
`FencesSupersede`, `SuccessesStand` and `SuccessStands`: every safety property `agent`
checks. Each step is first shown to move rows, records, late requests and the lease
in hand in one of a few ways (`Moves`), and the rest is proved from those. Rows only move on
(`RowsMoveOn`): none is undispatched or leaves an end, and attempts do not go back
while a command is out, so that a lease that was overtaken stays overtaken however long its
request is delayed. A lease in hand or in a late request was given, and a late result
says what the journal says (`LeasesOK`); as long as the lease in hand is the last one of its
command, the reports that wait have higher numbers than the last one taken (`SequenceOK`). That a
recorded success is never overruled needs arithmetic besides: the server fails a
command when its attempts are used up, whatever the journal of its agent holds. The invariant counts
attempts against faults (`AttemptsCounted`): a fault costs at most two, the lease it made
worthless and one for a claim that was given up and arrives late. Hence `SuccessStands` assumes
`2 * MaxFaults < MaxAttempts`, and the bound is sharp: with two faults and four attempts TLC
finds a recorded success that the control plane fails. The code gives a command five attempts
(`maxCommandAttempts`, `database/src/index.ts:42`), so it bears two faults. `SuccessesStand` is the same
without the assumption, for as long as the faults are that few.

`JournalProofs`: `TypeCorrect`, `OneProcessOwnsFile`, `FileAlwaysReplays`,
`MemoryMatchesFile` and `JournalImplementsLedger`. The invariant joins three
facts none of which is inductive alone: at most one process is past `mkdir` and
it is the one the lock names (`Exclusive`); only an open and healthy journal runs an
append (`AppendsWhileOpen`); at each point of an append memory and file stand in a
fixed relation (`MemoryFollowsFile`), which is what lets `WriteRest` add a line that
replays. A poisoned journal is exempt from that relation, and therefore must
never append again; dropping the poison breaks the proof and the mutant
`FailAppendAndGoOn` breaks the run. With `AckedIsDurable` the refinement follows, one lemma for each kind of step. A completed line
was applied to what the file has (`WriteStep`); a sync covers every line, the answered one among them
(`SyncStep`); the record of a repeated call is a line, because memory is what replays
(`RepeatStep`); a power loss leaves a prefix with every synced line, and lines that replay one by one
are consistent as a set (`LossStep`). What holds for every answer is therefore that its
record is stored; that it is durable holds for appends.

`RuntimeProofs`: `TypeCorrect`, `DeletionsLeaveNothing`, `DataIsKept`,
`OldCommandsAreFenced`, `ReplaysKeepReplacement` and `OutagesKeepRuntime`. The properties look at
one call, and what a call may do depends on what the plan it comes from put before it, so much
of the proof is about plans. Lemmas about what `Plan` builds say which calls occur
(`Orderly`), which stand behind which other (`Prepared`) and how a list begins and ends (`Starts`,
`Closes`); every step is shown to be one of a few kinds (`Steps`): a command issued or accepted, a call that
works on the host (`Worked`), the restart's mark (`Marked`), a call that becomes others
(`Became`), a saved or forgotten command (`Stored`), an end (`Ended`), or a move of the surroundings
(`Drifted`). The invariant has nine parts. `Typed`, `PlanOK`, `HostOK`: types, what a plan may hold by the
kind of its command, and that a workload of another owner meets no command in hand.
`DeletionOK` lists the calls a deletion has left, each list with what is gone by then,
and `GoneOK` keeps that once it is reported. `FenceOK` and `TraceOK` are the fence: the
saved generation is that of the command in hand before its first effect, and an effect leaves
data or supporting objects behind, so that a deletion which drops the fence has had an
effect itself. `PodOK`: a pod a restart is about to drop does not carry
the mark of the command in hand. `ImageOK`: behind SnowLuma's pull the image is on
the node until the old container is removed. TLC found the invariant to hold with two
commands and two faults before it was proved.

`RuntimeProxyProofs`: `LiveTicketsWork` and `BridgeKeepsOrder`. The first is inductive with the
types of the tickets: what a mint evicts is the oldest of at least `Limit` numbers, and
therefore not among the last `Limit` after the mint (`OldestIsOld`, by cardinalities of
intervals). For the second, what the runtime received followed by what
is queued is what the proxy heard, but that alone is not inductive: when the handshake
ends the queue moves and later frames go directly, so the queue has to be empty then, and a
request bridged anew must start with a socket nothing was heard on.

`LoginAlertsProofs`: `PageNeedsWholeGrace`. The worker's timer and the run of offline
reports are two clocks that start and stop at different steps. The invariant is that an
armed timer is never older than the run, unless what came since the last evaluation
disarms it at the next one. That evaluation is missing exactly when the worker is down,
which is what the theorem excepts.

`OneBotProofs`: `FileHasLastUpdate` and `RestoreNeverRevertsUpdate`. The invariant has
one conjunct per stage of the running task: once written ahead, memory and then file
hold the update being applied; a restore that is about to write carries what the memory
holds now, not what it held when the restore was queued.

`TelemetryProofs`: `TypeCorrect`, `TrafficExact` and `MetadataOfGeneration`, the two safety
properties of `telemetry`. That a line is counted once is a promise a read makes when it starts and
keeps when it ends, so the invariant speaks of the reads in progress (`ReadsOK`): a line that
has to be counted by the end of a read is counted already, or in the range of a read the log
has not answered, or in its answer. That needs every request to reach the log within the
overlap (`MayWait`), and the range of a read to go back to the start of the last successful one
(`SinceReaches`); a line that goes with its container or is cut off stops being owed at
that step (`LinesOK`), and two readers do not count it twice because ingesting looks at the memory
and not at the range. For the metadata, a cached snapshot, the stored report and whatever a thread is
still reading fit the accepted generation (`Fits`): of an older generation, or read from a start
of the runtime not before the floor. Accepting a generation makes all of them older at once
(`NewGeneration`), except for the command's own thread, which is why the main thread's exclusiveness is
part of the invariant (`GoodThread`: only the main thread runs a command, and its generation is the
control plane's). TLC found both invariants to hold in the instances of `telemetry` first.

Only model-checked: the liveness properties (`StagedOperationEnds`,
`QueuedOperationMoves`, `CloseEnds`, `CommandSettles`, `FallbackServes`,
`NotificationEnds`, `UpdateIsRestored`, `ConfigIsReported`; liveness under fairness and
ENABLED are beyond the prover); `SuccessMeansServing` of `Runtime`; the findings.

## 7. Where the code and its texts disagree

Shown by a run:

- `deletion_blocked`: the sweep's comment promises that deletion is never blocked
  forever. A deletion dispatched to a node that never connected carries epoch 0;
  the first heartbeat starts epoch 1 and restages nothing.
- `adapter_drift`: `inspect` on Kubernetes is said to return the limits providers
  asked for, so that not every reconcile looks like a change. The swap limit comes back
  as the memory limit (`kubernetes.ts:137`), and SnowLuma and LLBot, which ask for 512 MiB
  more, replace the workload at every command but stop and delete: in the trace, a start drops the
  workload of an LLBot endpoint that runs with all it asks for.

Met while modelling, with the place in the code; no run is kept for these:

- `locales/en.ts:548` says that endpoints of an expired workspace stop immediately;
  after one expiry stop succeeded no later one is queued, and a user may start the
  endpoint again (`database/src/index.ts:171`).
- Expiry is said to reach the container on the host (`database/src/index.ts:157-158`);
  an endpoint whose grant was revoked has no node, and expires in the database only (263).
- A test is named for the invalidation of leased work on revocation
  (`shared-node-execution-integrity.test.ts:23`). Commands still queued are missed
  (`0024` migration, 135) and leased after a new grant, although their operation is
  stale; the result fence then refuses the result.
- Only fsynced records are said to recover (`docs/threat-model.md:13`). A complete line
  whose writer died before fsync is replayed, and `open` syncs only what it truncated
  (`agent-journal/src/index.ts:191`). A repeated call is then answered as a success
  without a sync (298-303, 309-315, 327-333), and a power loss may still take the record,
  although effects are said to be "preceded by durable receipts"
  (`docs/adr/0001-phase-b-boundaries.md:5`). The ledger states it as `exposed`.
- The comment at `runtime-proxy.ts:709-710` promises that frames of the browser wait for the
  runtime; the proxy listens only after `await resolveTarget`, so earlier frames are
  lost, and a browser that closes meanwhile leaves the upstream connection open.
  `FramesKeepOrder` speaks of the time after.

- A pending alert is said to be disarmed so that "the offline run has to be continuous"
  (`database/src/index.ts:22-24`). Only an evaluation disarms it, and none takes place while the
  worker is down: a timer armed before an outage pages on the first offline sample
  after it. `PagesAfterGrace` excepts a worker that was down.
- The fallback of a restart on Kubernetes is said to restore the marker so that a retry
  runs again "instead of being mistaken for a completed rollout" (`runtime/kubernetes.ts:237-238`).
  A replay after a crash behind the mark reads its own marker as the previous one (196)
  and restores that; after a second crash the next retry takes the pod on the old
  resources for the replacement, only starts it, and reports success. TLC finds this with two
  faults and one command; it is why `SuccessMeansServing` bears one on Kubernetes.
- A deletion drops NapCat's caches because a later endpoint "must not inherit this account's
  data" (`apps/agent/src/index.ts:615`); a background snapshot that outlives the command
  writes the directory, the traffic and the credential back.
- `traffic.ts:231-233` lists "收到反向 Websocket 消息" among LLBot's connection lines; the parser
  counts it as an inbound message and it carries no status.

Behaviour of the code that no text contradicts and a maintainer may want to know:

- A restart on Kubernetes of a workload scaled to zero whose pod is still
  terminating never scales it up (`kubernetes.ts:229-230`). A crash between the removal of
  a pod and the fallback loses the fallback.
- A SnowLuma or LLBot deletion on Kubernetes that crashes between `delete` and `deleteData`
  is reported as a success by its replay with the claim kept
  (`kubernetes-docker.ts:182-188`); `DeletedMeansGone` excepts it. An LLBot deletion on
  Docker always throws after it removed the container. A NapCat deletion drops the
  fence with the record of the endpoint; `FencedEffects` excepts it.
- A NapCat start on Docker does not start a container it finds stopped (`index.ts`, 763-765);
  `SuccessMeansServing` excepts it. The Docker client over Kubernetes makes a
  new restart marker for each call, so a replay restarts again; `ReplayKeepsReplacement`
  speaks of NapCat only.
- `commandsLoaded` is set before the file is read (`index.ts:521-523`): a failed read
  leaves an empty memory. A deletion takes the record of the endpoint out of the memory before it
  writes the file (653): when the write fails, the memory has no fence and the file still has one.
- The API's route for a proxy update has no check of the provider (`apps/api/src/index.ts:266`):
  an endpoint of the fake provider accepts one.
- An agent whose session was retired cannot connect until it is restarted
  (`index.ts:351`); a journal that broke makes every later command fail while the
  process lives on.
- SnowLuma keeps an update in memory when its file could not be written (392-398), a failed
  `supervisorctl restart` after the write leaves the old configuration live while restores
  see no difference (898-927), and a baseline is adopted only after a lifecycle
  command. `storeWebuiPassword` (613) does not replace its file atomically.
- A background snapshot begun before an update of the OneBot configuration may cache the
  old one for up to a minute. A SnowLuma or LLBot command that fails leaves the agent's
  generation behind the control plane's, and its telemetry is refused until another
  command succeeds. SnowLuma's and LLBot's deletions leave the traffic accumulator. LLBot's
  edit keeps tokens by position in the list. A provider whose runtime could not be warmed is
  not observed until a command comes.
- A recovery mail can be delivered before a retried offline mail. A crash between enrolment
  and the write of the credential loses the token (`index.ts:1308-1311`).

## 8. What is not modelled

- The endpoint reducer (`packages/reconciler`): a pure function that no other package
  calls; the fences of the running system are those of the database.
- Observation retention: one guarded `DELETE` per pass that never touches the newest
  observation, the only one the other components read.
- Tenancy, members and invitations: single transactions on rows the other components
  only read; the last owner under concurrent updates is the next thing to model.
- Of the runtimes: the cached directory of friends and groups, login guides, SnowLuma's WebUI
  credentials and resource usage, which are payload of the snapshots; legacy claim names;
  and the class in `runtime/docker.ts`, which is constructed nowhere.
- Of the proxy: the rewriting of documents and style sheets, and headers. Of the
  agent: bootstrap and enrolment, which run once. Of the alerts: subscriptions.
- For good: the web console, request parsing and schemas, provider manifests and the
  in-memory database (declarations, user interface or test doubles without interleavings of
  their own).

`PROJECT.json` says so for each, and lists the hazards no property covers with the reason.
