---------------------------- MODULE ControlPlane ----------------------------
(***************************************************************************)
(* The durable control plane of BotRoost: the tables of PostgreSQL that     *)
(* carry an endpoint's operations from the API to a node agent and back,    *)
(* and every transaction that writes them.                                  *)
(*                                                                          *)
(* One action is one transaction of packages/database/src/index.ts, with    *)
(* the triggers the migrations attach to the rows it writes.  Each          *)
(* transaction locks the node row and then the endpoint row it works on, so *)
(* it is atomic here.  A call the code refuses (an early return that writes *)
(* nothing, a fence that throws, a trigger that raises and rolls back) has  *)
(* no step: the action is not enabled.                                      *)
(*                                                                          *)
(* Operators marked "Defect" are variants of the definition that follows   *)
(* them, as a plausible bug would have it.  Nothing uses them: they say     *)
(* which property would notice.                                             *)
(*                                                                          *)
(* The model follows one workspace.  Other workspaces share the nodes and   *)
(* the outbox; they appear as other endpoints would.                        *)
(***************************************************************************)
EXTENDS Naturals, FiniteSets

CONSTANTS
  Nodes,          \* enrolled nodes
  Endpoints,      \* endpoint ids the workspace may create
  Sessions,       \* session ids agent processes draw, never reused by a node
  Provider,       \* provider_id of each endpoint
  NodeProvider,   \* provider each node enrolled with
  UserActions,    \* actions users request in this instance
  Expiries,       \* values setWorkspaceExpiry writes in this instance
  AdminSteps,     \* platform-owner steps allowed in this instance
  AgentBuilds,    \* capabilities agents report when they claim
  MaxOps,         \* bound: operations ever inserted
  MaxAttempts,    \* maxCommandAttempts
  MaxSequence,    \* bound: progress reports per attempt
  MaxExpiryTries, \* bound on expiry deletions (5 in the code)
  None            \* SQL NULL

\* The operations table has one row per id; ids follow created_at.
Ops == 1..MaxOps

ReadOnlyActions == {"refresh-login-qr", "read-container-logs",
                    "update-onebot-websockets", "update-endpoint-proxy"}
Actions ==
  {"start", "stop", "restart", "force-restart", "delete"} \cup ReadOnlyActions
Providers == {"fake", "napcat", "snowluma", "llbot"}
AllAdminSteps == {"share", "unshare", "grantShared", "grant", "revokeGrant",
                  "revokeShared", "deleteNode"}

ASSUME BoundsAssumption ==
  /\ MaxOps \in Nat
  /\ MaxAttempts \in Nat \ {0}
  /\ MaxSequence \in Nat
  /\ MaxExpiryTries \in Nat
ASSUME ProviderAssumption ==
  /\ Provider \in [Endpoints -> Providers]
  /\ NodeProvider \in [Nodes -> Providers]
ASSUME InputAssumption ==
  /\ UserActions \subseteq Actions
  /\ Expiries \subseteq {"none", "expired", "due"}
  /\ AdminSteps \subseteq AllAdminSteps
  /\ AgentBuilds \subseteq [routing: BOOLEAN, artifact: {"current", "old", "absent"}]
ASSUME NoneAssumption == None \notin Nodes \cup Endpoints \cup Sessions

VARIABLES
  nodes,       \* nodes, retired_node_sessions, platform_node_pool and grants
  endpoints,   \* endpoints, with the age of the newest heartbeat snapshot
  operations,  \* operations
  commands,    \* agent_commands, keyed by its unique operation_id
  outbox,      \* outbox_events, keyed by its unique operation_id
  expiry,      \* where workspaces.expires_at lies relative to now()
  clock,       \* created_at of the newest agent command
  claims       \* claim responses handed to agents, still deliverable

vars == <<nodes, endpoints, operations, commands, outbox, expiry, clock, claims>>

-----------------------------------------------------------------------------
(* Rows *)

ActiveStatus   == {"queued", "running"}
TerminalStatus == {"succeeded", "failed", "stale"}
LiveCommand    == {"queued", "leased"}

NodeRow ==
  [epoch: Nat, session: Sessions \cup {None}, retired: SUBSET Sessions,
   fresh: BOOLEAN,                       \* last_heartbeat_at within nodeFreshMs
   revoked: BOOLEAN, owned: BOOLEAN,     \* revoked_at, workspace_id = ours
   pool: {"absent", "enabled", "disabled"}, granted: BOOLEAN,
   routing: BOOLEAN, artifact: BOOLEAN]  \* provider_routing, snowluma_artifact

EndpointRow ==
  [status: {"absent", "live", "deleted"}, generation: Nat,
   desired: {"running", "stopped"}, node: Nodes \cup {None},
   telemetry: BOOLEAN]                   \* newest heartbeat snapshot is recent

\* `trigger` stands for the idempotency key: a user's own key, or the key
\* family of the worker's expiry and reclaim operations.
OperationRow ==
  [status: {"none"} \cup ActiveStatus \cup TerminalStatus,
   endpoint: Endpoints \cup {None}, generation: Nat, action: Actions \cup {"none"},
   trigger: {"user", "expiry-stop", "expiry-delete", "reclaim"},
   node: Nodes \cup {None}, epoch: Nat]

\* `id` counts the row's re-keyings, `expired` is lease_deadline < now(), and
\* `sequence` is the last progress report taken under this id and attempt.
CommandRow ==
  [status: {"none"} \cup LiveCommand \cup TerminalStatus, node: Nodes \cup {None},
   id: Nat, epoch: Nat, attempts: 0..MaxAttempts, expired: BOOLEAN,
   receipt: BOOLEAN, resulted: BOOLEAN, sequence: 0..MaxSequence, created: Nat]

Claim ==
  [node: Nodes, session: Sessions, op: Ops, id: Nat, epoch: Nat, attempt: Nat]

NoOperation ==
  [status |-> "none", endpoint |-> None, generation |-> 0, action |-> "none",
   trigger |-> "user", node |-> None, epoch |-> 0]

\* A command row on which no attempt was spent yet.
FreshCommand(status, n, epoch, id, created) ==
  [status |-> status, node |-> n, id |-> id, epoch |-> epoch, attempts |-> 0,
   expired |-> FALSE, receipt |-> FALSE, resulted |-> FALSE, sequence |-> 0,
   created |-> created]

NoCommand == FreshCommand("none", None, 0, 0, 0)

TypeOK ==
  /\ nodes \in [Nodes -> NodeRow]
  /\ endpoints \in [Endpoints -> EndpointRow]
  /\ operations \in [Ops -> OperationRow]
  /\ commands \in [Ops -> CommandRow]
  /\ outbox \in [Ops -> {"none", "pending", "deferred", "processed"}]
  /\ expiry \in {"none", "expired", "due"}
  /\ clock \in Nat
  /\ claims \subseteq Claim
  /\ \A o \in Ops : operations[o].status # "none" => operations[o].endpoint \in Endpoints

\* enrollNode: an enrolled node belongs to the workspace and never connected.
Init ==
  /\ nodes = [n \in Nodes |->
       [epoch |-> 0, session |-> None, retired |-> {}, fresh |-> FALSE,
        revoked |-> FALSE, owned |-> TRUE, pool |-> "absent", granted |-> FALSE,
        routing |-> FALSE, artifact |-> FALSE]]
  /\ endpoints = [e \in Endpoints |->
       [status |-> "absent", generation |-> 0, desired |-> "stopped",
        node |-> None, telemetry |-> FALSE]]
  /\ operations = [o \in Ops |-> NoOperation]
  /\ commands = [o \in Ops |-> NoCommand]
  /\ outbox = [o \in Ops |-> "none"]
  /\ expiry = "none"
  /\ clock = 0
  /\ claims = {}

-----------------------------------------------------------------------------
(* Reading the tables *)

Active(o) == operations[o].status \in ActiveStatus
ActiveOn(e) == {o \in Ops : Active(o) /\ operations[o].endpoint = e}
Live(e) == endpoints[e].status = "live"

\* What every trigger and query calls an authorized node.
Authorized(n) ==
  /\ ~nodes[n].revoked
  /\ nodes[n].owned \/ (nodes[n].pool = "enabled" /\ nodes[n].granted)

-----------------------------------------------------------------------------
(* Operations are requested: createEndpoint, mutateEndpoint *)

\* The API admits an endpoint on a node that serves its provider or routes
\* providers; only fake endpoints may have no node.
createEndpoint(e, n) ==
  /\ endpoints[e].status = "absent"
  /\ IF n = None
     THEN Provider[e] = "fake"
     ELSE Authorized(n) /\ (NodeProvider[n] = Provider[e] \/ nodes[n].routing)
  /\ endpoints' = [endpoints EXCEPT ![e].status = "live", ![e].node = n]
  /\ UNCHANGED <<nodes, operations, commands, outbox, expiry, clock, claims>>

\* One operation per endpoint of S, on the next unused row ids.
Batches(S) ==
  {f \in UNION {[B -> S] : B \in SUBSET Ops} :
     /\ \A e \in S : \E o \in DOMAIN f : f[o] = e
     /\ \A o, p \in DOMAIN f : f[o] = f[p] => o = p
     /\ \A o \in DOMAIN f : operations[o].status = "none"
     /\ \A o \in DOMAIN f, p \in Ops :
          p < o => p \in DOMAIN f \/ operations[p].status # "none"}

NewOperation(e, generation, action, trigger) ==
  [NoOperation EXCEPT !.status = "queued", !.endpoint = e,
     !.generation = generation, !.action = action, !.trigger = trigger]

\* Defect: superseded operations stay active.
InsertOperationsKeepingOld(rows, over) ==
  /\ operations' = [p \in Ops |-> IF p \in DOMAIN rows THEN rows[p] ELSE operations[p]]
  /\ commands' = [p \in Ops |->
       IF commands[p].status \in LiveCommand /\ operations[p].endpoint \in over
       THEN [commands[p] EXCEPT !.status = "stale", !.resulted = TRUE, !.expired = FALSE]
       ELSE commands[p]]
  /\ outbox' = [p \in Ops |-> IF p \in DOMAIN rows THEN "pending" ELSE outbox[p]]

\* Defect: the commands and events of superseded operations stay open.
InsertOperationsKeepingCommands(rows, over) ==
  /\ operations' = [p \in Ops |->
       IF p \in DOMAIN rows THEN rows[p]
       ELSE IF Active(p) /\ operations[p].endpoint \in over
       THEN [operations[p] EXCEPT !.status = "stale"]
       ELSE operations[p]]
  /\ outbox' = [p \in Ops |-> IF p \in DOMAIN rows THEN "pending" ELSE outbox[p]]
  /\ UNCHANGED commands

\* Supersede the active operations of the endpoints in `over`, with their
\* commands and events, and insert the operations of `rows` with their events.
InsertOperations(rows, over) ==
  /\ operations' = [p \in Ops |->
       IF p \in DOMAIN rows THEN rows[p]
       ELSE IF Active(p) /\ operations[p].endpoint \in over
       THEN [operations[p] EXCEPT !.status = "stale"]
       ELSE operations[p]]
  /\ commands' = [p \in Ops |->
       IF commands[p].status \in LiveCommand /\ operations[p].endpoint \in over
       THEN [commands[p] EXCEPT !.status = "stale", !.resulted = TRUE, !.expired = FALSE]
       ELSE commands[p]]
  /\ outbox' = [p \in Ops |->
       IF p \in DOMAIN rows THEN "pending"
       ELSE IF Active(p) /\ operations[p].endpoint \in over THEN "processed"
       ELSE outbox[p]]

DesiredAfter(e, action) ==
  CASE action \in ReadOnlyActions \cup {"delete"} -> endpoints[e].desired
    [] action = "stop" -> "stopped"
    [] OTHER -> "running"

GenerationAfter(e, action) ==
  endpoints[e].generation + (IF action \in ReadOnlyActions THEN 0 ELSE 1)

\* Defect: no check for active operations.
MayMutateUnchecked(e, action) == action \in Actions

\* Defect: a force-restart also supersedes a deletion.
MayMutateOverDeletion(e, action) == ActiveOn(e) = {} \/ action = "force-restart"

\* A request is admitted while no operation is active; force-restart also
\* admits itself over active operations, unless one of them is a deletion.
MayMutate(e, action) ==
  \/ ActiveOn(e) = {}
  \/ /\ action = "force-restart"
     /\ \A o \in ActiveOn(e) : operations[o].action # "delete"

\* A request carries the generation it read and its own idempotency key: a
\* stale generation and a replayed key write nothing.  A fake endpoint has no logs
\* and no OneBot service, though a proxy may be set for it.
mutateEndpoint(e, action) ==
  /\ Live(e)
  /\ action = "refresh-login-qr" => Provider[e] = "napcat"
  /\ Provider[e] = "fake" => action \notin {"read-container-logs", "update-onebot-websockets"}
  /\ MayMutate(e, action)
  /\ \E f \in Batches({e}) :
       InsertOperations(
         [o \in DOMAIN f |-> NewOperation(e, GenerationAfter(e, action), action, "user")],
         IF action = "force-restart" THEN {e} ELSE {})
  /\ endpoints' = [endpoints EXCEPT ![e].generation = GenerationAfter(e, action),
                                    ![e].desired = DesiredAfter(e, action)]
  /\ UNCHANGED <<nodes, expiry, clock, claims>>

-----------------------------------------------------------------------------
(* The worker requests operations: workspace expiry and telemetry reclaim *)

setWorkspaceExpiry(x) ==
  /\ expiry' = x
  /\ UNCHANGED <<nodes, endpoints, operations, commands, outbox, clock, claims>>

\* endpoint_expiry_grace_hours pass.
GraceElapses ==
  /\ expiry = "expired"
  /\ expiry' = "due"
  /\ UNCHANGED <<nodes, endpoints, operations, commands, outbox, clock, claims>>

History(e, trigger) ==
  {o \in Ops : operations[o].endpoint = e /\ operations[o].trigger = trigger}

SucceededIn(S) == \E o \in S : operations[o].status = "succeeded"

ExpiryAction  == IF expiry = "due" THEN "delete" ELSE "stop"
ExpiryTrigger == IF expiry = "due" THEN "expiry-delete" ELSE "expiry-stop"

\* enqueueExpiryOperation returns 1 for these endpoints and 0 for the others.
ExpiryEnqueues(e) ==
  /\ Live(e)
  /\ IF expiry = "due"
     THEN /\ \A o \in ActiveOn(e) : operations[o].action # "delete"
          /\ Cardinality(History(e, "expiry-delete")) < MaxExpiryTries
     ELSE ActiveOn(e) = {}
  /\ ~SucceededIn(History(e, ExpiryTrigger))

processExpiredWorkspaces ==
  LET S == {e \in Endpoints : ExpiryEnqueues(e)} IN
  /\ expiry # "none"
  /\ S # {}
  /\ \E f \in Batches(S) :
       InsertOperations(
         [o \in DOMAIN f |->
            NewOperation(f[o], endpoints[f[o]].generation + 1, ExpiryAction, ExpiryTrigger)],
         {e \in S : ActiveOn(e) # {}})
  /\ endpoints' = [e \in Endpoints |->
       IF e \in S
       THEN [endpoints[e] EXCEPT !.generation = @ + 1,
               !.desired = IF expiry = "due" THEN @ ELSE "stopped"]
       ELSE endpoints[e]]
  /\ UNCHANGED <<nodes, expiry, clock, claims>>

\* Defect: the sweep does not look for active operations.
ReclaimCandidateBusy(e) ==
  /\ Live(e)
  /\ Provider[e] # "fake"
  /\ endpoints[e].desired = "running"
  /\ endpoints[e].node # None
  /\ nodes[endpoints[e].node].fresh
  /\ ~endpoints[e].telemetry

\* Endpoints the sweep selects: silent, wanted running, on a fresh node.
ReclaimCandidate(e) ==
  /\ Live(e)
  /\ Provider[e] # "fake"
  /\ endpoints[e].desired = "running"
  /\ endpoints[e].node # None
  /\ ~nodes[endpoints[e].node].revoked
  /\ nodes[endpoints[e].node].fresh
  /\ ActiveOn(e) = {}
  /\ ~endpoints[e].telemetry

\* The newest three reclaims of e.
RecentReclaims(e) ==
  {o \in History(e, "reclaim") :
     Cardinality({p \in History(e, "reclaim") : p > o}) < 3}

\* One reclaim key exists per endpoint and generation: where the sweep meets
\* one of its own keys, the INSERT fails and the whole sweep rolls back.
reclaimStaleEndpoints ==
  LET S == {e \in Endpoints : ReclaimCandidate(e) /\ ~SucceededIn(RecentReclaims(e))} IN
  /\ S # {}
  /\ \A e \in S : \A o \in History(e, "reclaim") :
       operations[o].generation # endpoints[e].generation
  /\ \E f \in Batches(S) :
       InsertOperations(
         [o \in DOMAIN f |->
            NewOperation(f[o], endpoints[f[o]].generation, "read-container-logs", "reclaim")],
         {})
  /\ UNCHANGED <<nodes, endpoints, expiry, clock, claims>>

-----------------------------------------------------------------------------
(* The worker dispatches: processOne *)

HeadEvent(o) ==
  /\ outbox[o] = "pending"
  /\ \A p \in Ops : p < o => outbox[p] # "pending"

NodeOf(o) == endpoints[operations[o].endpoint].node

\* What processOne decides about the operation behind an event.
Verdict(o) ==
  LET op == operations[o]
      e  == op.endpoint
      n  == NodeOf(o)
  IN CASE op.status # "queued" -> "settled"
       [] op.status = "queued" /\ ~(Live(e) /\ endpoints[e].generation = op.generation) -> "stale"
       [] OTHER ->
            IF n = None THEN (IF op.action = "delete" THEN "deleted" ELSE "succeeded")
            ELSE IF Provider[e] = "snowluma" /\ ~nodes[n].artifact THEN "deferred"
            ELSE IF Provider[e] # NodeProvider[n] /\ ~nodes[n].routing THEN "failed"
            ELSE "dispatched"

\* The event is closed with a final status and no agent is involved.
SettleEvent(o) ==
  /\ HeadEvent(o)
  /\ Verdict(o) \in {"settled"} \cup TerminalStatus
  /\ operations' = [operations EXCEPT ![o].status =
       IF Verdict(o) = "settled" THEN @ ELSE Verdict(o)]
  /\ outbox' = [outbox EXCEPT ![o] = "processed"]
  /\ UNCHANGED <<nodes, endpoints, commands, expiry, clock, claims>>

\* Defect: the deferred event is closed.
DeferEventForgotten(o) ==
  /\ HeadEvent(o)
  /\ Verdict(o) = "deferred"
  /\ outbox' = [outbox EXCEPT ![o] = "processed"]
  /\ UNCHANGED <<nodes, endpoints, operations, commands, expiry, clock, claims>>

\* A SnowLuma operation waits 30 s for an agent of the current build.
DeferEvent(o) ==
  /\ HeadEvent(o)
  /\ Verdict(o) = "deferred"
  /\ outbox' = [outbox EXCEPT ![o] = "deferred"]
  /\ UNCHANGED <<nodes, endpoints, operations, commands, expiry, clock, claims>>

DeferralElapses(o) ==
  /\ outbox[o] = "deferred"
  /\ outbox' = [outbox EXCEPT ![o] = "pending"]
  /\ UNCHANGED <<nodes, endpoints, operations, commands, expiry, clock, claims>>

\* The triggers on agent_commands and operations roll the dispatch back when
\* the node is not authorized: the event then stays the head.
DispatchEvent(o) ==
  LET n == NodeOf(o) IN
  /\ HeadEvent(o)
  /\ Verdict(o) = "dispatched"
  /\ Authorized(n)
  /\ commands' = [commands EXCEPT ![o] =
       IF @.status # "none" THEN @
       ELSE FreshCommand("queued", n, nodes[n].epoch, 0, clock + 1)]
  /\ clock' = clock + 1
  /\ operations' = [operations EXCEPT ![o].status = "running", ![o].node = n,
                                      ![o].epoch = nodes[n].epoch]
  /\ outbox' = [outbox EXCEPT ![o] = "processed"]
  /\ UNCHANGED <<nodes, endpoints, expiry, claims>>

\* Defect: commands and events outlive their endpoint.
FinalizeDeletionKeepingRows(o) ==
  /\ operations' = [operations EXCEPT ![o].status = "succeeded"]
  /\ endpoints' = [endpoints EXCEPT ![operations[o].endpoint].status = "deleted",
                                    ![operations[o].endpoint].desired = "stopped",
                                    ![operations[o].endpoint].telemetry = FALSE]
  /\ UNCHANGED <<commands, outbox>>

\* finalizeEndpointDeletion, with the success of the deletion o.
FinalizeDeletion(o) ==
  LET e == operations[o].endpoint IN
  /\ operations' = [operations EXCEPT ![o].status = "succeeded"]
  /\ commands' = [p \in Ops |->
       IF operations[p].endpoint = e THEN NoCommand ELSE commands[p]]
  /\ outbox' = [p \in Ops |-> IF operations[p].endpoint = e THEN "none" ELSE outbox[p]]
  /\ endpoints' = [endpoints EXCEPT ![e].status = "deleted", ![e].desired = "stopped",
                                    ![e].telemetry = FALSE]

DeleteUnassigned(o) ==
  /\ HeadEvent(o)
  /\ Verdict(o) = "deleted"
  /\ FinalizeDeletion(o)
  /\ UNCHANGED <<nodes, expiry, clock, claims>>

processOne(o) ==
  SettleEvent(o) \/ DeferEvent(o) \/ DispatchEvent(o) \/ DeleteUnassigned(o)

-----------------------------------------------------------------------------
(* Agents connect: heartbeat *)

\* Endpoints whose runtime report a heartbeat of n may store.
Reportable(n) == {e \in Endpoints : Live(e) /\ endpoints[e].node = n /\ Authorized(n)}

StoreReports(R) ==
  endpoints' = [e \in Endpoints |->
    IF e \in R THEN [endpoints[e] EXCEPT !.telemetry = TRUE] ELSE endpoints[e]]

HeartbeatSame(n, R) ==
  /\ ~nodes[n].revoked
  /\ nodes[n].session # None
  /\ nodes' = [nodes EXCEPT ![n].fresh = TRUE]
  /\ StoreReports(R)
  /\ UNCHANGED <<operations, commands, outbox, expiry, clock, claims>>

HeartbeatFirst(n, s, R) ==
  /\ ~nodes[n].revoked
  /\ nodes[n].session = None
  /\ nodes' = [nodes EXCEPT ![n].fresh = TRUE, ![n].epoch = @ + 1, ![n].session = s]
  /\ StoreReports(R)
  /\ UNCHANGED <<operations, commands, outbox, expiry, clock, claims>>

\* Defect: a session that was taken over may come back.
MayTakeOverAgain(n, s) == nodes[n].session \notin {None, s} /\ ~nodes[n].fresh

\* Another process takes the node over once the current one went silent,
\* unless it was itself taken over from before.
MayTakeOver(n, s) ==
  /\ nodes[n].session \notin {None, s}
  /\ s \notin nodes[n].retired
  /\ ~nodes[n].fresh

\* Defect: a deletion is staged again in the epoch that ended.
RestageInOldEpoch(c) == [c EXCEPT !.status = "queued", !.attempts = 0, !.id = @ + 1]

\* A deletion's command under a new id and epoch, queued with a full budget.
Restage(c) == FreshCommand("queued", c.node, c.epoch + 1, c.id + 1, c.created)

\* An agent process replaces the one that went silent: every command of the
\* old epoch is closed, except that deletions are staged again.
HeartbeatTakeover(n, s, R) ==
  LET old == nodes[n].epoch
      restaged(o) == operations[o].action = "delete" /\ Active(o)
  IN
  /\ ~nodes[n].revoked
  /\ MayTakeOver(n, s)
  /\ nodes' = [nodes EXCEPT ![n].fresh = TRUE, ![n].epoch = @ + 1, ![n].session = s,
                            ![n].retired = @ \cup {nodes[n].session}]
  /\ commands' = [o \in Ops |->
       IF ~(commands[o].node = n /\ commands[o].epoch = old /\ commands[o].status \in LiveCommand)
       THEN commands[o]
       ELSE IF restaged(o)
       THEN Restage(commands[o])
       ELSE [commands[o] EXCEPT !.status = "stale", !.resulted = TRUE, !.expired = FALSE]]
  /\ operations' = [o \in Ops |->
       IF ~(operations[o].node = n /\ operations[o].epoch = old /\ Active(o))
       THEN operations[o]
       ELSE IF restaged(o)
       THEN [operations[o] EXCEPT !.status = "running", !.epoch = old + 1]
       ELSE [operations[o] EXCEPT !.status = "failed"]]
  /\ StoreReports(R)
  /\ UNCHANGED <<outbox, expiry, clock, claims>>

-----------------------------------------------------------------------------
(* Agents work: claimAgentCommand, receipts, progress and results *)

\* Defect: an expired lease is never claimed again.
ClaimableOnce(n) ==
  {o \in Ops : /\ commands[o].node = n
               /\ commands[o].epoch = nodes[n].epoch
               /\ commands[o].status = "queued"}

Claimable(n) ==
  {o \in Ops : /\ commands[o].node = n
               /\ commands[o].epoch = nodes[n].epoch
               /\ \/ commands[o].status = "queued"
                  \/ commands[o].status = "leased" /\ commands[o].expired}

Oldest(o, S) == o \in S /\ \A p \in S : commands[o].created <= commands[p].created

\* What a claim stores about the agent's build.
AdvertiseBuild(n, b) ==
  nodes' = [nodes EXCEPT ![n].routing = @ \/ b.routing,
              ![n].artifact = IF b.artifact = "absent" THEN @ ELSE b.artifact = "current"]

Connected(n) == ~nodes[n].revoked /\ nodes[n].session # None

ClaimOf(n, o) ==
  [node |-> n, session |-> nodes[n].session, op |-> o, id |-> commands[o].id,
   epoch |-> commands[o].epoch, attempt |-> commands[o].attempts + 1]

ClaimNothing(n, b) ==
  /\ Connected(n)
  /\ Claimable(n) = {}
  /\ AdvertiseBuild(n, b)
  /\ UNCHANGED <<endpoints, operations, commands, outbox, expiry, clock, claims>>

\* A queued command is leased only while the node is authorized and still the
\* endpoint's; a mismatch raises, and the command stays the oldest.
MayLease(n, o) == commands[o].status = "queued" => Authorized(n) /\ NodeOf(o) = n

\* Defect: one attempt too many.
HasBudgetOffByOne(o) == commands[o].attempts <= MaxAttempts

HasBudget(o) == commands[o].attempts < MaxAttempts

ClaimLease(n, b, o) ==
  /\ Connected(n)
  /\ Oldest(o, Claimable(n))
  /\ HasBudget(o)
  /\ MayLease(n, o)
  /\ commands' = [commands EXCEPT ![o].status = "leased", ![o].attempts = @ + 1,
                                  ![o].expired = FALSE, ![o].sequence = 0]
  /\ claims' = claims \cup {ClaimOf(n, o)}
  /\ AdvertiseBuild(n, b)
  /\ UNCHANGED <<endpoints, operations, outbox, expiry, clock>>

\* guard_agent_command_claim turns the lease of an unauthorized node into a
\* stale command; the claim still answers with that row.
ClaimCancelled(n, b, o) ==
  /\ Connected(n)
  /\ Oldest(o, Claimable(n))
  /\ HasBudget(o)
  /\ commands[o].status = "queued"
  /\ ~Authorized(n)
  /\ commands' = [commands EXCEPT ![o].status = "stale", ![o].attempts = @ + 1,
                                  ![o].resulted = TRUE]
  /\ claims' = claims \cup {ClaimOf(n, o)}
  /\ AdvertiseBuild(n, b)
  /\ UNCHANGED <<endpoints, operations, outbox, expiry, clock>>

\* The triggers let a leased command finish only while its node is authorized.
MayFinish(o) == commands[o].status = "leased" => Authorized(commands[o].node)

ClaimExhausted(n, b, o) ==
  /\ Connected(n)
  /\ Oldest(o, Claimable(n))
  /\ ~HasBudget(o)
  /\ MayFinish(o)
  /\ commands' = [commands EXCEPT ![o].status = "failed", ![o].resulted = TRUE,
                                  ![o].expired = FALSE]
  /\ operations' = [operations EXCEPT ![o].status = IF @ = "running" THEN "failed" ELSE @]
  /\ AdvertiseBuild(n, b)
  /\ UNCHANGED <<endpoints, outbox, expiry, clock, claims>>

claimAgentCommand(n, b) ==
  \/ ClaimNothing(n, b)
  \/ \E o \in Ops : ClaimLease(n, b, o) \/ ClaimCancelled(n, b, o) \/ ClaimExhausted(n, b, o)

\* The fence every report of an agent passes: its session, epoch and command.
SessionFence(m) ==
  /\ ~nodes[m.node].revoked
  /\ nodes[m.node].session = m.session
  /\ nodes[m.node].epoch = m.epoch
  /\ commands[m.op].node = m.node
  /\ commands[m.op].id = m.id
  /\ commands[m.op].epoch = m.epoch

recordAgentReceipt(m) ==
  /\ SessionFence(m)
  /\ commands[m.op].status = "leased"
  /\ commands' = [commands EXCEPT ![m.op].receipt = TRUE]
  /\ UNCHANGED <<nodes, endpoints, operations, outbox, expiry, clock, claims>>

recordAgentProgress(m, q) ==
  /\ SessionFence(m)
  /\ commands[m.op].status = "leased"
  /\ commands[m.op].attempts = m.attempt
  /\ operations[m.op].status = "running"
  /\ commands[m.op].sequence < q
  /\ commands' = [commands EXCEPT ![m.op].sequence = q, ![m.op].expired = FALSE]
  /\ nodes' = [nodes EXCEPT ![m.node].fresh = TRUE]
  /\ UNCHANGED <<endpoints, operations, outbox, expiry, clock, claims>>

\* Defect: a result of an earlier attempt is taken too.
AttemptFenceMissing(m) == commands[m.op].attempts >= m.attempt

\* A result belongs to the lease it was claimed under.
AttemptFence(m) == commands[m.op].attempts = m.attempt

\* What a result must match to be applied; a second result of a command that
\* has one writes nothing.
ResultFence(m) ==
  LET op == operations[m.op] IN
  /\ SessionFence(m)
  /\ AttemptFence(m)
  /\ op.status = "running" /\ op.node = m.node /\ op.epoch = m.epoch
  /\ Live(op.endpoint)
  /\ NodeOf(m.op) = m.node
  /\ endpoints[op.endpoint].generation = op.generation
  /\ ~commands[m.op].resulted

\* An unknown outcome ends the lease at once; the command is claimed again.
ResultUnknown(m) ==
  /\ ResultFence(m)
  /\ commands' = [commands EXCEPT ![m.op].expired = TRUE, ![m.op].sequence = 0]
  /\ UNCHANGED <<nodes, endpoints, operations, outbox, expiry, clock, claims>>

ResultFinal(m, outcome) ==
  /\ ResultFence(m)
  /\ MayFinish(m.op)
  /\ ~(operations[m.op].action = "delete" /\ outcome = "succeeded")
  /\ commands' = [commands EXCEPT ![m.op].status = outcome, ![m.op].resulted = TRUE,
                                  ![m.op].expired = FALSE]
  /\ operations' = [operations EXCEPT ![m.op].status = outcome]
  /\ UNCHANGED <<nodes, endpoints, outbox, expiry, clock, claims>>

ResultDeleted(m) ==
  /\ ResultFence(m)
  /\ MayFinish(m.op)
  /\ operations[m.op].action = "delete"
  /\ FinalizeDeletion(m.op)
  /\ UNCHANGED <<nodes, expiry, clock, claims>>

recordAgentResult(m) ==
  \/ ResultUnknown(m)
  \/ \E outcome \in {"succeeded", "failed"} : ResultFinal(m, outcome)
  \/ ResultDeleted(m)

-----------------------------------------------------------------------------
(* Time passes *)

LeaseExpires(o) ==
  /\ commands[o].status = "leased"
  /\ ~commands[o].expired
  /\ commands' = [commands EXCEPT ![o].expired = TRUE]
  /\ UNCHANGED <<nodes, endpoints, operations, outbox, expiry, clock, claims>>

NodeGoesStale(n) ==
  /\ nodes[n].fresh
  /\ nodes' = [nodes EXCEPT ![n].fresh = FALSE]
  /\ UNCHANGED <<endpoints, operations, commands, outbox, expiry, clock, claims>>

TelemetryGoesStale(e) ==
  /\ endpoints[e].telemetry
  /\ endpoints' = [endpoints EXCEPT ![e].telemetry = FALSE]
  /\ UNCHANGED <<nodes, operations, commands, outbox, expiry, clock, claims>>

-----------------------------------------------------------------------------
(* The platform owner moves access to nodes *)

\* Defect: finished operations turn stale as well.
InvalidateAll(n) ==
  /\ operations' = [o \in Ops |->
       IF operations[o].node = n THEN [operations[o] EXCEPT !.status = "stale"] ELSE operations[o]]
  /\ UNCHANGED commands

\* Defect: the leases outlive their operations.
InvalidateOperationsOnly(n) ==
  /\ operations' = [o \in Ops |->
       IF operations[o].node = n /\ operations[o].status = "running"
       THEN [operations[o] EXCEPT !.status = "stale"] ELSE operations[o]]
  /\ UNCHANGED commands

\* invalidate_shared_node_leases: the trigger looks for 'pending' and 'leased'
\* commands, so the queued ones stay queued.
InvalidateLeases(n) ==
  /\ operations' = [o \in Ops |->
       IF operations[o].node = n /\ operations[o].status = "running"
       THEN [operations[o] EXCEPT !.status = "stale"] ELSE operations[o]]
  /\ commands' = [o \in Ops |->
       IF commands[o].node = n /\ commands[o].status = "leased"
       THEN [commands[o] EXCEPT !.status = "stale", !.resulted = TRUE, !.expired = FALSE]
       ELSE commands[o]]

\* Defect: invalidation does not ask whether anything was taken away.
InvalidateAlways(condition, n) == condition \in BOOLEAN /\ InvalidateLeases(n)

InvalidateIf(condition, n) ==
  IF condition THEN InvalidateLeases(n) ELSE UNCHANGED <<operations, commands>>

Detach(n, S) ==
  endpoints' = [e \in Endpoints |->
    IF e \in S /\ endpoints[e].node = n
    THEN [endpoints[e] EXCEPT !.node = None] ELSE endpoints[e]]

\* The node leaves its owner for the shared pool.
ShareNode(n) ==
  /\ ~nodes[n].revoked
  /\ nodes' = [nodes EXCEPT ![n].owned = FALSE, ![n].pool = "enabled"]
  /\ UNCHANGED <<endpoints, operations, commands, outbox, expiry, clock, claims>>

UnshareNode(n) ==
  /\ ~nodes[n].revoked
  /\ nodes' = [nodes EXCEPT ![n].pool = "disabled", ![n].granted = FALSE]
  /\ Detach(n, IF nodes[n].granted THEN Endpoints ELSE {})
  /\ InvalidateIf(nodes[n].pool = "enabled", n)
  /\ UNCHANGED <<outbox, expiry, clock, claims>>

grantSharedNode(n) ==
  /\ ~nodes[n].revoked
  /\ nodes[n].pool = "enabled"
  /\ nodes' = [nodes EXCEPT ![n].granted = TRUE]
  /\ UNCHANGED <<endpoints, operations, commands, outbox, expiry, clock, claims>>

grantNode(n) ==
  /\ ~nodes[n].revoked
  /\ nodes' = [nodes EXCEPT ![n].owned = FALSE, ![n].pool = "enabled", ![n].granted = TRUE]
  /\ UNCHANGED <<endpoints, operations, commands, outbox, expiry, clock, claims>>

revokeNodeGrant(n) ==
  /\ nodes[n].granted
  /\ nodes' = [nodes EXCEPT ![n].granted = FALSE]
  /\ Detach(n, {e \in Endpoints : Live(e)})
  /\ InvalidateLeases(n)
  /\ UNCHANGED <<outbox, expiry, clock, claims>>

revokeSharedNode(n) ==
  /\ nodes' = [nodes EXCEPT ![n].granted = FALSE]
  /\ Detach(n, Endpoints)
  /\ InvalidateIf(nodes[n].granted, n)
  /\ UNCHANGED <<outbox, expiry, clock, claims>>

\* deleteNode with platform_node_pool_disable_on_node_revoke: a node that was
\* never pooled has no pool row whose deletion would invalidate its work.
deleteNode(n) ==
  /\ nodes[n].owned
  /\ ~nodes[n].revoked
  /\ nodes' = [nodes EXCEPT ![n].revoked = TRUE, ![n].granted = FALSE, ![n].pool = "absent"]
  /\ Detach(n, Endpoints)
  /\ InvalidateIf(nodes[n].pool # "absent", n)
  /\ UNCHANGED <<outbox, expiry, clock, claims>>

-----------------------------------------------------------------------------
(* The specification *)

Requests ==
  \/ \E e \in Endpoints, n \in Nodes \cup {None} : createEndpoint(e, n)
  \/ \E e \in Endpoints, action \in UserActions : mutateEndpoint(e, action)
  \/ \E x \in Expiries : setWorkspaceExpiry(x)

Worker ==
  \/ processExpiredWorkspaces
  \/ reclaimStaleEndpoints
  \/ \E o \in Ops : processOne(o)

Agents ==
  \/ \E n \in Nodes : \E R \in SUBSET Reportable(n) :
       \/ HeartbeatSame(n, R)
       \/ \E s \in Sessions : HeartbeatFirst(n, s, R) \/ HeartbeatTakeover(n, s, R)
  \/ \E n \in Nodes, b \in AgentBuilds : claimAgentCommand(n, b)
  \/ \E m \in claims : \/ recordAgentReceipt(m)
                       \/ \E q \in 1..MaxSequence : recordAgentProgress(m, q)
                       \/ recordAgentResult(m)

Time ==
  \/ GraceElapses
  \/ \E o \in Ops : DeferralElapses(o) \/ LeaseExpires(o)
  \/ \E n \in Nodes : NodeGoesStale(n)
  \/ \E e \in Endpoints : TelemetryGoesStale(e)

PlatformOwner ==
  \E n \in Nodes :
    \/ "share" \in AdminSteps /\ ShareNode(n)
    \/ "unshare" \in AdminSteps /\ UnshareNode(n)
    \/ "grantShared" \in AdminSteps /\ grantSharedNode(n)
    \/ "grant" \in AdminSteps /\ grantNode(n)
    \/ "revokeGrant" \in AdminSteps /\ revokeNodeGrant(n)
    \/ "revokeShared" \in AdminSteps /\ revokeSharedNode(n)
    \/ "deleteNode" \in AdminSteps /\ deleteNode(n)

Next == Requests \/ Worker \/ Agents \/ Time \/ PlatformOwner

Spec == Init /\ [][Next]_vars

-----------------------------------------------------------------------------
(* Safety *)

\* An endpoint never has two active operations: the unique index
\* operations_one_active never has to refuse an INSERT of this code.
OneActiveOperation ==
  \A o, p \in Ops :
    Active(o) /\ Active(p) /\ operations[o].endpoint = operations[p].endpoint => o = p

\* An active operation belongs to a live endpoint and to its current
\* generation: no writer moves the generation on, or deletes the endpoint,
\* under an operation it leaves active, so the generation fences of processOne
\* and recordAgentResult never strand one.
ActiveOperationIsCurrent ==
  \A o \in Ops : Active(o) =>
    /\ operations[o].endpoint \in Endpoints
    /\ Live(operations[o].endpoint)
    /\ endpoints[operations[o].endpoint].generation = operations[o].generation

\* An agent holds a lease only under the node and epoch the operation records,
\* the epoch is the node's own, and the operation is running -- or went stale
\* when a node that left its owner was withdrawn from the workspace.
LeasedCommandIsRunning ==
  \A o \in Ops : commands[o].status = "leased" =>
    /\ operations[o].node = commands[o].node
    /\ operations[o].epoch = commands[o].epoch
    /\ commands[o].node \in Nodes
    /\ commands[o].epoch = nodes[commands[o].node].epoch
    /\ ~commands[o].resulted
    /\ \/ operations[o].status = "running"
       \/ operations[o].status = "stale" /\ ~nodes[commands[o].node].owned

\* A running operation is never lost: its command is live under the same node
\* and epoch, or the claim guard cancelled it after the node left its owner.
RunningOperationHasCommand ==
  \A o \in Ops : operations[o].status = "running" =>
    /\ operations[o].node \in Nodes
    /\ commands[o].node = operations[o].node
    /\ \/ commands[o].status \in LiveCommand /\ commands[o].epoch = operations[o].epoch
       \/ commands[o].status = "stale" /\ ~nodes[operations[o].node].owned

\* A queued operation has exactly the event that will dispatch it and no
\* command yet, and an open event has a queued operation: the transactional
\* outbox loses nothing, and repairMissingOutbox finds nothing to repair.
QueuedOperationHasEvent ==
  \A o \in Ops :
    /\ operations[o].status = "queued" <=> outbox[o] \in {"pending", "deferred"}
    /\ operations[o].status = "queued" => commands[o].status = "none"

\* Nothing of a deleted endpoint can reach an agent or the worker again.
DeletedEndpointIsQuiet ==
  \A o \in Ops :
    operations[o].endpoint \in Endpoints /\ endpoints[operations[o].endpoint].status = "deleted"
      => /\ operations[o].status \in TerminalStatus
         /\ commands[o].status = "none"
         /\ outbox[o] = "none"

\* A session that was taken over never owns the node again, and every claim
\* it still holds carries an epoch the node has left.
RetiredSessionStaysOut ==
  \A n \in Nodes :
    /\ nodes[n].session \notin nodes[n].retired
    /\ \A m \in claims :
         m.node = n /\ m.session \in nodes[n].retired => m.epoch < nodes[n].epoch

\* Whatever the order in which results arrive, the only claim whose result is
\* applied is the newest one handed out for the operation.
NewestClaimOnly ==
  \A m, x \in claims :
    ResultFence(m) /\ x.op = m.op =>
      x.id < m.id \/ (x.id = m.id /\ x.attempt <= m.attempt)

-----------------------------------------------------------------------------
(* Action properties *)

\* A finished operation keeps its outcome whatever arrives later.
TerminalIsFinal ==
  [][\A o \in Ops : operations[o].status \in TerminalStatus
       => operations'[o].status = operations[o].status]_vars

\* The step that revokes a workspace's grant ends the work the node holds:
\* nothing of it stays running or leased.
RevocationEndsLeases ==
  [][\A n \in Nodes, o \in Ops :
       nodes[n].granted /\ ~nodes'[n].granted =>
         /\ ~(operations'[o].node = n /\ operations'[o].status = "running")
         /\ ~(commands'[o].node = n /\ commands'[o].status = "leased")]_vars

\* An active deletion is not superseded: it turns stale only in the step that
\* takes the node it runs on away from the workspace.
DeletionIsNotSuperseded ==
  [][\A o \in Ops :
       Active(o) /\ operations[o].action = "delete" /\ operations'[o].status = "stale"
         => \E n \in Nodes : operations[o].node = n /\ ~Authorized(n)']_vars

-----------------------------------------------------------------------------
(* Liveness *)

\* What keeps running by itself: the worker loop, an agent process that claims
\* for every node, a first connection of every node, and time.  Nothing obliges
\* an agent to report, to stay, or to succeed.
Fairness ==
  /\ WF_vars(processExpiredWorkspaces)
  /\ WF_vars(\E o \in Ops : processOne(o))
  /\ WF_vars(GraceElapses)
  /\ \A o \in Ops : WF_vars(LeaseExpires(o)) /\ WF_vars(DeferralElapses(o))
  /\ \A n \in Nodes :
       /\ WF_vars(\E b \in AgentBuilds : claimAgentCommand(n, b))
       /\ WF_vars(\E s \in Sessions : HeartbeatFirst(n, s, {}))

FairSpec == Spec /\ Fairness

\* The operation was handed to the session that owns its node.
Staged(o) ==
  /\ operations[o].status = "running"
  /\ \E n \in Nodes : /\ operations[o].node = n
                      /\ operations[o].epoch = nodes[n].epoch
                      /\ nodes[n].session # None

\* Once an operation is staged to a connected node it ends, although agents may
\* answer nothing, answer "unknown" or be taken over: lost leases are claimed
\* again until the attempt budget is spent.
StagedOperationEnds ==
  \A o \in Ops : Staged(o) ~> operations[o].status \in TerminalStatus

\* Every request is eventually dispatched or ended by the worker.
QueuedOperationMoves ==
  \A o \in Ops : operations[o].status = "queued" ~> operations[o].status # "queued"

-----------------------------------------------------------------------------
(* What the repository says of itself and the code does not do *)

\* packages/database/src/index.ts:159-160, "A stop that cannot converge ... is
\* superseded before deletion so deletion is never blocked forever": an endpoint
\* past its grace period is deleted or uses up its tries.  The last disjunct
\* excuses behaviours that run out of the model's operation ids.
ExpiryDeletionProceeds ==
  \A e \in Endpoints :
    expiry = "due" /\ Live(e) ~>
      \/ ~Live(e) \/ expiry # "due"
      \/ Cardinality(History(e, "expiry-delete")) = MaxExpiryTries
      \/ \A o \in Ops : operations[o].status # "none"

=============================================================================
