------------------------ MODULE ControlPlaneProofs ------------------------
(* What TLAPS proves about ControlPlane, for every value of its constants.  *)
EXTENDS ControlPlane, TLAPS

-----------------------------------------------------------------------------
(* Typing of the helpers that several actions share *)

\* A row set of a new batch, as the three requesting actions build it.
NewRows(rows) ==
  /\ DOMAIN rows \subseteq Ops
  /\ \A o \in DOMAIN rows : rows[o] \in OperationRow /\ rows[o].endpoint \in Endpoints

LEMMA NoCommandTyped == NoCommand \in CommandRow
  BY BoundsAssumption DEF NoCommand, FreshCommand, CommandRow

LEMMA InitTyped == Init => TypeOK
  BY NoCommandTyped DEF Init, TypeOK, NodeRow, EndpointRow, OperationRow, NoOperation

LEMMA RowTyped ==
  ASSUME NEW e \in Endpoints, NEW g \in Nat, NEW a \in Actions,
         NEW t \in {"user", "expiry-stop", "expiry-delete", "reclaim"}
  PROVE  /\ NewOperation(e, g, a, t) \in OperationRow
         /\ NewOperation(e, g, a, t).endpoint = e
  BY DEF NewOperation, NoOperation, OperationRow, ActiveStatus

LEMMA StagedTyped ==
  ASSUME NEW n \in Nodes, NEW k \in Nat, NEW i \in Nat, NEW c \in Nat
  PROVE  FreshCommand("queued", n, k, i, c) \in CommandRow
  BY BoundsAssumption DEF FreshCommand, CommandRow, LiveCommand

LEMMA InsertTyped ==
  ASSUME TypeOK, NEW rows, NEW over, NewRows(rows), InsertOperations(rows, over)
  PROVE  /\ operations' \in [Ops -> OperationRow]
         /\ commands' \in [Ops -> CommandRow]
         /\ outbox' \in [Ops -> {"none", "pending", "deferred", "processed"}]
         /\ \A o \in Ops : operations'[o].status # "none" => operations'[o].endpoint \in Endpoints
<1>1. operations \in [Ops -> OperationRow] /\ commands \in [Ops -> CommandRow]
  BY DEF TypeOK
<1>2. ASSUME NEW p \in Ops PROVE [operations[p] EXCEPT !.status = "stale"] \in OperationRow
  BY <1>1 DEF OperationRow, TerminalStatus
<1>3. ASSUME NEW p \in Ops
      PROVE  [commands[p] EXCEPT !.status = "stale", !.resulted = TRUE, !.expired = FALSE]
               \in CommandRow
  BY <1>1 DEF CommandRow, TerminalStatus
<1>4. operations' \in [Ops -> OperationRow]
  BY <1>1, <1>2 DEF InsertOperations, NewRows
<1>5. commands' \in [Ops -> CommandRow]
  BY <1>1, <1>3 DEF InsertOperations
<1>6. outbox' \in [Ops -> {"none", "pending", "deferred", "processed"}]
  BY DEF InsertOperations, TypeOK
<1>7. ASSUME NEW o \in Ops, operations'[o].status # "none"
      PROVE  operations'[o].endpoint \in Endpoints
  <2>1. CASE o \in DOMAIN rows
    BY <2>1 DEF InsertOperations, NewRows
  <2>2. CASE o \notin DOMAIN rows /\ Active(o) /\ operations[o].endpoint \in over
    <3>1. operations'[o] = [operations[o] EXCEPT !.status = "stale"]
      BY <2>2 DEF InsertOperations
    <3>2. operations[o].status # "none" /\ operations[o] \in OperationRow
      BY <1>1, <2>2 DEF Active, ActiveStatus
    <3>3. operations'[o].endpoint = operations[o].endpoint
      BY <3>1, <3>2 DEF OperationRow
    <3> QED BY <3>2, <3>3 DEF TypeOK
  <2>3. CASE o \notin DOMAIN rows /\ ~(Active(o) /\ operations[o].endpoint \in over)
    BY <1>7, <2>3 DEF InsertOperations, TypeOK
  <2> QED BY <2>1, <2>2, <2>3
<1> QED BY <1>4, <1>5, <1>6, <1>7

LEMMA FinalizeTyped ==
  ASSUME TypeOK, NEW o \in Ops, FinalizeDeletion(o), Active(o)
  PROVE  /\ operations' \in [Ops -> OperationRow]
         /\ commands' \in [Ops -> CommandRow]
         /\ outbox' \in [Ops -> {"none", "pending", "deferred", "processed"}]
         /\ endpoints' \in [Endpoints -> EndpointRow]
         /\ \A p \in Ops : operations'[p].status # "none" => operations'[p].endpoint \in Endpoints
<1>1. /\ operations \in [Ops -> OperationRow]
      /\ commands \in [Ops -> CommandRow]
      /\ endpoints \in [Endpoints -> EndpointRow]
      /\ operations[o].endpoint \in Endpoints
  BY DEF TypeOK, Active, ActiveStatus
<1>2. operations' = [operations EXCEPT ![o].status = "succeeded"]
  BY DEF FinalizeDeletion
<1>3. operations' \in [Ops -> OperationRow]
  BY <1>1, <1>2 DEF OperationRow, TerminalStatus
<1>4. NoCommand \in CommandRow
  BY NoCommandTyped
<1>5. commands' \in [Ops -> CommandRow]
  BY <1>1, <1>4 DEF FinalizeDeletion
<1>6. outbox' \in [Ops -> {"none", "pending", "deferred", "processed"}]
  BY DEF FinalizeDeletion, TypeOK
<1>7. endpoints' = [endpoints EXCEPT ![operations[o].endpoint].status = "deleted",
                                     ![operations[o].endpoint].desired = "stopped",
                                     ![operations[o].endpoint].telemetry = FALSE]
  BY DEF FinalizeDeletion
<1>8. endpoints' \in [Endpoints -> EndpointRow]
  BY <1>1, <1>7 DEF EndpointRow
<1>9. \A p \in Ops : operations'[p].endpoint = operations[p].endpoint
  BY <1>1, <1>2 DEF OperationRow
<1>10. \A p \in Ops : p # o => operations'[p] = operations[p]
  BY <1>1, <1>2
<1> QED BY <1>1, <1>3, <1>5, <1>6, <1>8, <1>9, <1>10 DEF TypeOK

LEMMA InvalidateTyped ==
  ASSUME TypeOK, NEW n \in Nodes, NEW c \in BOOLEAN, InvalidateIf(c, n)
  PROVE  /\ operations' \in [Ops -> OperationRow]
         /\ commands' \in [Ops -> CommandRow]
         /\ \A o \in Ops : operations'[o].status # "none" => operations'[o].endpoint \in Endpoints
<1>1. operations \in [Ops -> OperationRow] /\ commands \in [Ops -> CommandRow]
  BY DEF TypeOK
<1>2. CASE ~c
  BY <1>1, <1>2 DEF InvalidateIf, TypeOK
<1>3. CASE c
  <2>1. ASSUME NEW p \in Ops
        PROVE  /\ [operations[p] EXCEPT !.status = "stale"] \in OperationRow
               /\ [operations[p] EXCEPT !.status = "stale"].endpoint = operations[p].endpoint
    BY <1>1 DEF OperationRow, TerminalStatus
  <2>2. ASSUME NEW p \in Ops
        PROVE  [commands[p] EXCEPT !.status = "stale", !.resulted = TRUE, !.expired = FALSE]
                 \in CommandRow
    BY <1>1 DEF CommandRow, TerminalStatus
  <2>3. operations' \in [Ops -> OperationRow]
    BY <1>1, <1>3, <2>1 DEF InvalidateIf, InvalidateLeases
  <2>4. commands' \in [Ops -> CommandRow]
    BY <1>1, <1>3, <2>2 DEF InvalidateIf, InvalidateLeases
  <2>5. ASSUME NEW o \in Ops, operations'[o].status # "none"
        PROVE  operations'[o].endpoint \in Endpoints
    <3>1. CASE operations[o].node = n /\ operations[o].status = "running"
      <4>1. operations'[o] = [operations[o] EXCEPT !.status = "stale"]
        BY <1>3, <3>1 DEF InvalidateIf, InvalidateLeases
      <4> QED BY <2>1, <3>1, <4>1 DEF TypeOK
    <3>2. CASE ~(operations[o].node = n /\ operations[o].status = "running")
      BY <1>3, <2>5, <3>2 DEF InvalidateIf, InvalidateLeases, TypeOK
    <3> QED BY <3>1, <3>2
  <2> QED BY <2>3, <2>4, <2>5
<1> QED BY <1>2, <1>3

LEMMA StoreReportsTyped ==
  ASSUME TypeOK, NEW R, StoreReports(R)
  PROVE  endpoints' \in [Endpoints -> EndpointRow]
<1>1. endpoints \in [Endpoints -> EndpointRow]
  BY DEF TypeOK
<1>2. ASSUME NEW e \in Endpoints PROVE [endpoints[e] EXCEPT !.telemetry = TRUE] \in EndpointRow
  BY <1>1 DEF EndpointRow
<1> QED BY <1>1, <1>2 DEF StoreReports

LEMMA DetachTyped ==
  ASSUME TypeOK, NEW n \in Nodes, NEW S, Detach(n, S)
  PROVE  endpoints' \in [Endpoints -> EndpointRow]
<1>1. endpoints \in [Endpoints -> EndpointRow]
  BY DEF TypeOK
<1>2. ASSUME NEW e \in Endpoints PROVE [endpoints[e] EXCEPT !.node = None] \in EndpointRow
  BY <1>1 DEF EndpointRow
<1> QED BY <1>1, <1>2 DEF Detach

LEMMA AdvertiseTyped ==
  ASSUME TypeOK, NEW n \in Nodes, NEW b \in AgentBuilds, AdvertiseBuild(n, b)
  PROVE  nodes' \in [Nodes -> NodeRow]
<1>1. nodes \in [Nodes -> NodeRow]
  BY DEF TypeOK
<1>2. b.routing \in BOOLEAN
  BY InputAssumption
<1>3. nodes' = [nodes EXCEPT ![n].routing = @ \/ b.routing,
                  ![n].artifact = IF b.artifact = "absent" THEN @ ELSE b.artifact = "current"]
  BY DEF AdvertiseBuild
<1> DEFINE routing  == nodes[n].routing \/ b.routing
           artifact == IF b.artifact = "absent" THEN nodes[n].artifact
                       ELSE b.artifact = "current"
<1>4. nodes[n].routing \in BOOLEAN /\ nodes[n].artifact \in BOOLEAN
  BY <1>1 DEF NodeRow
<1>5. routing \in BOOLEAN /\ artifact \in BOOLEAN
  BY <1>2, <1>4, Zenon
<1>6. nodes' = [nodes EXCEPT ![n].routing = routing, ![n].artifact = artifact]
  BY <1>3, Zenon
<1> HIDE DEF routing, artifact
<1>7. ASSUME NEW r \in BOOLEAN, NEW x \in BOOLEAN, NEW row \in NodeRow
      PROVE  [row EXCEPT !.routing = r, !.artifact = x] \in NodeRow
  BY DEF NodeRow
<1>8. nodes' = [nodes EXCEPT ![n] = [@ EXCEPT !.routing = routing, !.artifact = artifact]]
  BY <1>6
<1> QED BY <1>1, <1>5, <1>7, <1>8

-----------------------------------------------------------------------------
(* Typing of the actions *)

LEMMA RequestsTyped ==
  ASSUME TypeOK, Requests
  PROVE  TypeOK'
<1>0. endpoints \in [Endpoints -> EndpointRow]
  BY DEF TypeOK
<1>1. ASSUME NEW e \in Endpoints, NEW n \in Nodes \cup {None}, createEndpoint(e, n)
      PROVE  TypeOK'
  <2>1. endpoints' = [endpoints EXCEPT ![e].status = "live", ![e].node = n]
    BY <1>1 DEF createEndpoint
  <2>2. endpoints' \in [Endpoints -> EndpointRow]
    BY <1>0, <2>1 DEF EndpointRow
  <2> QED BY <1>1, <2>2 DEF createEndpoint, TypeOK
<1>2. ASSUME NEW e \in Endpoints, NEW action \in UserActions, mutateEndpoint(e, action)
      PROVE  TypeOK'
  <2> DEFINE g == GenerationAfter(e, action)
             d == DesiredAfter(e, action)
  <2>1. action \in Actions
    BY InputAssumption
  <2>2. endpoints[e].generation \in Nat /\ endpoints[e].desired \in {"running", "stopped"}
    BY <1>0 DEF EndpointRow
  <2>3. g \in Nat
    BY <2>2 DEF GenerationAfter
  <2>4. d \in {"running", "stopped"}
    BY <2>2 DEF DesiredAfter
  <2>5. endpoints' = [endpoints EXCEPT ![e].generation = g, ![e].desired = d]
    BY <1>2 DEF mutateEndpoint
  <2> HIDE DEF g, d
  <2>6. endpoints' \in [Endpoints -> EndpointRow]
    BY <1>0, <2>3, <2>4, <2>5 DEF EndpointRow
  <2>7. PICK f \in Batches({e}) :
          InsertOperations([o \in DOMAIN f |-> NewOperation(e, g, action, "user")],
                           IF action = "force-restart" THEN {e} ELSE {})
    BY <1>2 DEF mutateEndpoint, g
  <2>8. DOMAIN f \subseteq Ops
    BY <2>7 DEF Batches
  <2>9. NewRows([o \in DOMAIN f |-> NewOperation(e, g, action, "user")])
    BY <2>1, <2>3, <2>8, RowTyped DEF NewRows
  <2> QED BY <1>2, <2>6, <2>7, <2>9, InsertTyped DEF mutateEndpoint, TypeOK
<1>3. ASSUME NEW x \in Expiries, setWorkspaceExpiry(x)
      PROVE  TypeOK'
  BY <1>3, InputAssumption DEF setWorkspaceExpiry, TypeOK
<1> QED BY <1>1, <1>2, <1>3 DEF Requests

LEMMA WorkerRequestsTyped ==
  ASSUME TypeOK, processExpiredWorkspaces \/ reclaimStaleEndpoints
  PROVE  TypeOK'
<1>0. /\ endpoints \in [Endpoints -> EndpointRow]
      /\ \A e \in Endpoints : endpoints[e].generation \in Nat
  BY DEF TypeOK, EndpointRow
<1>1. CASE processExpiredWorkspaces
  <2> DEFINE S == {e \in Endpoints : ExpiryEnqueues(e)}
             action == ExpiryAction
             trigger == ExpiryTrigger
  <2>1. action \in Actions /\ trigger \in {"user", "expiry-stop", "expiry-delete", "reclaim"}
    BY DEF ExpiryAction, ExpiryTrigger, Actions
  <2>2. PICK f \in Batches(S) :
          InsertOperations(
            [o \in DOMAIN f |-> NewOperation(f[o], endpoints[f[o]].generation + 1, action, trigger)],
            {e \in S : ActiveOn(e) # {}})
    BY <1>1 DEF processExpiredWorkspaces
  <2>3. endpoints' = [e \in Endpoints |->
          IF e \in S
          THEN [endpoints[e] EXCEPT !.generation = @ + 1,
                  !.desired = IF expiry = "due" THEN @ ELSE "stopped"]
          ELSE endpoints[e]]
    BY <1>1 DEF processExpiredWorkspaces
  <2> HIDE DEF action, trigger
  <2>4. DOMAIN f \subseteq Ops /\ \A o \in DOMAIN f : f[o] \in Endpoints
    BY <2>2 DEF Batches
  <2>5. NewRows([o \in DOMAIN f |->
          NewOperation(f[o], endpoints[f[o]].generation + 1, action, trigger)])
    BY <1>0, <2>1, <2>4, RowTyped DEF NewRows
  <2>6. ASSUME NEW row \in EndpointRow, NEW d \in {"running", "stopped"}
        PROVE  [row EXCEPT !.generation = @ + 1, !.desired = d] \in EndpointRow
    <3>1. row.generation + 1 \in Nat
      BY DEF EndpointRow
    <3> QED BY <3>1 DEF EndpointRow
  <2>7. \A e \in Endpoints :
          (IF expiry = "due" THEN endpoints[e].desired ELSE "stopped") \in {"running", "stopped"}
    BY <1>0 DEF EndpointRow
  <2>8. endpoints' \in [Endpoints -> EndpointRow]
    BY <1>0, <2>3, <2>6, <2>7
  <2>9. UNCHANGED <<nodes, expiry, clock, claims>>
    BY <1>1 DEF processExpiredWorkspaces
  <2> QED BY <2>2, <2>5, <2>8, <2>9, InsertTyped DEF TypeOK
<1>2. CASE reclaimStaleEndpoints
  <2> DEFINE S == {e \in Endpoints : ReclaimCandidate(e) /\ ~SucceededIn(RecentReclaims(e))}
  <2>1. PICK f \in Batches(S) :
          InsertOperations(
            [o \in DOMAIN f |->
               NewOperation(f[o], endpoints[f[o]].generation, "read-container-logs", "reclaim")], {})
    BY <1>2 DEF reclaimStaleEndpoints
  <2>2. DOMAIN f \subseteq Ops /\ \A o \in DOMAIN f : f[o] \in Endpoints
    BY <2>1 DEF Batches
  <2>3. "read-container-logs" \in Actions
    BY DEF Actions, ReadOnlyActions
  <2>4. NewRows([o \in DOMAIN f |->
          NewOperation(f[o], endpoints[f[o]].generation, "read-container-logs", "reclaim")])
    BY <1>0, <2>2, <2>3, RowTyped DEF NewRows
  <2>5. UNCHANGED <<nodes, endpoints, expiry, clock, claims>>
    BY <1>2 DEF reclaimStaleEndpoints
  <2> QED BY <2>1, <2>4, <2>5, InsertTyped DEF TypeOK
<1> QED BY <1>1, <1>2

LEMMA DispatchTyped ==
  ASSUME TypeOK, NEW o \in Ops, processOne(o)
  PROVE  TypeOK'
<1>0. /\ nodes \in [Nodes -> NodeRow]
      /\ endpoints \in [Endpoints -> EndpointRow]
      /\ operations \in [Ops -> OperationRow]
      /\ commands \in [Ops -> CommandRow]
      /\ clock \in Nat
  BY DEF TypeOK
<1>1. Verdict(o) # "settled" =>
        operations[o].status = "queued" /\ operations[o].endpoint \in Endpoints
  BY DEF Verdict, TypeOK
<1>2. CASE SettleEvent(o)
  <2> DEFINE status == IF Verdict(o) = "settled" THEN operations[o].status ELSE Verdict(o)
  <2>1. operations[o].status \in {"none"} \cup ActiveStatus \cup TerminalStatus
    BY <1>0 DEF OperationRow
  <2>2. status \in {"none"} \cup ActiveStatus \cup TerminalStatus
    BY <1>2, <2>1 DEF SettleEvent
  <2>3. operations' = [operations EXCEPT ![o].status = status]
    BY <1>2 DEF SettleEvent
  <2>4. status # "none" => operations[o].status # "none"
    BY <1>1
  <2> HIDE DEF status
  <2>5. operations' \in [Ops -> OperationRow]
    BY <1>0, <2>2, <2>3 DEF OperationRow
  <2>6. \A p \in Ops : operations'[p].status # "none" => operations'[p].endpoint \in Endpoints
    BY <1>0, <2>3, <2>4 DEF TypeOK, OperationRow
  <2> QED BY <1>2, <2>5, <2>6 DEF SettleEvent, TypeOK
<1>3. CASE DeferEvent(o)
  BY <1>3 DEF DeferEvent, TypeOK
<1>4. CASE DispatchEvent(o)
  <2> DEFINE n == NodeOf(o)
  <2>1. Verdict(o) = "dispatched"
    BY <1>4 DEF DispatchEvent
  <2>2. operations[o].status = "queued" /\ operations[o].endpoint \in Endpoints /\ n # None
    BY <1>1, <2>1 DEF Verdict
  <2>3. n \in Nodes
    BY <1>0, <2>2 DEF NodeOf, EndpointRow
  <2>4. nodes[n].epoch \in Nat
    BY <1>0, <2>3 DEF NodeRow
  <2> DEFINE k == nodes[n].epoch
  <2>5. operations' = [operations EXCEPT ![o].status = "running", ![o].node = n,
                                         ![o].epoch = k]
    BY <1>4 DEF DispatchEvent
  <2>6. commands' = [commands EXCEPT ![o] =
          IF @.status # "none" THEN @
          ELSE FreshCommand("queued", n, k, 0, clock + 1)]
    BY <1>4 DEF DispatchEvent
  <2>a. operations \in [Ops -> OperationRow] /\ k \in Nat /\ clock + 1 \in Nat
    BY <1>0, <2>4
  <2> HIDE DEF n, k
  <2>7. operations' \in [Ops -> OperationRow]
    <3>1. ASSUME NEW row \in OperationRow
          PROVE  [row EXCEPT !.status = "running", !.node = n, !.epoch = k] \in OperationRow
      BY <2>3, <2>a DEF OperationRow, ActiveStatus
    <3>2. operations' = [operations EXCEPT ![o] =
            [@ EXCEPT !.status = "running", !.node = n, !.epoch = k]]
      BY <2>5
    <3> QED BY <2>a, <3>1, <3>2
  <2>8. FreshCommand("queued", n, k, 0, clock + 1) \in CommandRow
    BY <2>3, <2>a, StagedTyped
  <2>9. commands' \in [Ops -> CommandRow]
    BY <1>0, <2>6, <2>8, <2>a
  <2>10. \A p \in Ops : operations'[p].endpoint = operations[p].endpoint
    BY <1>0, <2>5 DEF OperationRow
  <2>11. \A p \in Ops : p # o => operations'[p].status = operations[p].status
    BY <1>0, <2>5
  <2>12. \A p \in Ops : operations'[p].status # "none" => operations'[p].endpoint \in Endpoints
    BY <2>2, <2>10, <2>11 DEF TypeOK
  <2>13. /\ outbox' = [outbox EXCEPT ![o] = "processed"]
         /\ clock' = clock + 1
         /\ UNCHANGED <<nodes, endpoints, expiry, claims>>
    BY <1>4 DEF DispatchEvent
  <2> QED BY <2>7, <2>9, <2>12, <2>13 DEF TypeOK
<1>5. CASE DeleteUnassigned(o)
  <2>1. Active(o)
    BY <1>1, <1>5 DEF DeleteUnassigned, Active, ActiveStatus
  <2> QED BY <1>5, <2>1, FinalizeTyped DEF DeleteUnassigned, TypeOK
<1> QED BY <1>2, <1>3, <1>4, <1>5 DEF processOne

LEMMA FreshTyped ==
  ASSUME NEW row \in NodeRow, NEW t \in BOOLEAN
  PROVE  [row EXCEPT !.fresh = t] \in NodeRow
  BY DEF NodeRow

LEMMA ConnectTyped ==
  ASSUME NEW row \in NodeRow, NEW k \in Nat, NEW s \in Sessions, NEW t \in BOOLEAN
  PROVE  [row EXCEPT !.fresh = t, !.epoch = k, !.session = s] \in NodeRow
  BY DEF NodeRow

LEMMA TakeoverTyped ==
  ASSUME NEW row \in NodeRow, NEW k \in Nat, NEW s \in Sessions, NEW R \in SUBSET Sessions,
         NEW t \in BOOLEAN
  PROVE  [row EXCEPT !.fresh = t, !.epoch = k, !.session = s, !.retired = R] \in NodeRow
  BY DEF NodeRow

LEMMA RestagedTyped ==
  ASSUME NEW row \in OperationRow, NEW k \in Nat
  PROVE  [row EXCEPT !.status = "running", !.epoch = k + 1] \in OperationRow
<1>1. k + 1 \in Nat
  OBVIOUS
<1> QED BY <1>1 DEF OperationRow, ActiveStatus

LEMMA LeasedTyped ==
  ASSUME NEW c \in CommandRow, NEW a \in 0..MaxAttempts
  PROVE  [c EXCEPT !.status = "leased", !.attempts = a, !.expired = FALSE, !.sequence = 0]
           \in CommandRow
<1>1. 0 \in 0..MaxSequence
  BY BoundsAssumption
<1> QED BY <1>1 DEF CommandRow, LiveCommand

LEMMA HeartbeatTyped ==
  ASSUME TypeOK, NEW n \in Nodes, NEW R,
         \/ HeartbeatSame(n, R)
         \/ \E s \in Sessions : HeartbeatFirst(n, s, R) \/ HeartbeatTakeover(n, s, R)
  PROVE  TypeOK'
<1>0. /\ nodes \in [Nodes -> NodeRow]
      /\ operations \in [Ops -> OperationRow]
      /\ commands \in [Ops -> CommandRow]
  BY DEF TypeOK
<1>1. CASE HeartbeatSame(n, R)
  <2>1. nodes' = [nodes EXCEPT ![n].fresh = TRUE]
    BY <1>1 DEF HeartbeatSame
  <2>2. nodes' \in [Nodes -> NodeRow]
    BY <1>0, <2>1, FreshTyped
  <2> QED BY <1>1, <2>2, StoreReportsTyped DEF HeartbeatSame, TypeOK
<1>2. ASSUME NEW s \in Sessions, HeartbeatFirst(n, s, R)
      PROVE  TypeOK'
  <2> DEFINE k == nodes[n].epoch + 1
  <2>1. k \in Nat
    BY <1>0 DEF NodeRow
  <2>2. nodes' = [nodes EXCEPT ![n].fresh = TRUE, ![n].epoch = k, ![n].session = s]
    BY <1>2 DEF HeartbeatFirst
  <2> HIDE DEF k
  <2>3. nodes' \in [Nodes -> NodeRow]
    BY <1>0, <2>1, <2>2, ConnectTyped
  <2> QED BY <1>2, <2>3, StoreReportsTyped DEF HeartbeatFirst, TypeOK
<1>3. ASSUME NEW s \in Sessions, HeartbeatTakeover(n, s, R)
      PROVE  TypeOK'
  <2> DEFINE old == nodes[n].epoch
             held == nodes[n].session
             restaged(o) == operations[o].action = "delete" /\ Active(o)
  <2>1. held \in Sessions
    BY <1>0, <1>3 DEF HeartbeatTakeover, MayTakeOver, NodeRow
  <2>2. old \in Nat
    BY <1>0 DEF NodeRow
  <2> DEFINE R2 == nodes[n].retired \cup {held}
  <2>3. nodes' = [nodes EXCEPT ![n].fresh = TRUE, ![n].epoch = old + 1, ![n].session = s,
                               ![n].retired = R2]
    BY <1>3 DEF HeartbeatTakeover
  <2>6. R2 \in SUBSET Sessions
    BY <1>0, <2>1 DEF NodeRow
  <2>4. commands' = [o \in Ops |->
          IF ~(commands[o].node = n /\ commands[o].epoch = old /\ commands[o].status \in LiveCommand)
          THEN commands[o]
          ELSE IF restaged(o)
          THEN Restage(commands[o])
          ELSE [commands[o] EXCEPT !.status = "stale", !.resulted = TRUE, !.expired = FALSE]]
    BY <1>3 DEF HeartbeatTakeover
  <2>5. operations' = [o \in Ops |->
          IF ~(operations[o].node = n /\ operations[o].epoch = old /\ Active(o))
          THEN operations[o]
          ELSE IF restaged(o)
          THEN [operations[o] EXCEPT !.status = "running", !.epoch = old + 1]
          ELSE [operations[o] EXCEPT !.status = "failed"]]
    BY <1>3 DEF HeartbeatTakeover
  <2> HIDE DEF held, old, restaged, R2
  <2>7. nodes' \in [Nodes -> NodeRow]
    <3>1. old + 1 \in Nat
      BY <2>2
    <3>2. [nodes[n] EXCEPT !.fresh = TRUE, !.epoch = old + 1, !.session = s, !.retired = R2]
            \in NodeRow
      BY <1>0, <2>6, <3>1, TakeoverTyped
    <3>3. nodes' = [nodes EXCEPT ![n] =
            [nodes[n] EXCEPT !.fresh = TRUE, !.epoch = old + 1, !.session = s, !.retired = R2]]
      BY <2>3
    <3> QED BY <1>0, <3>2, <3>3
  <2>8. ASSUME NEW c \in CommandRow, c.node = n
        PROVE  /\ Restage(c) \in CommandRow
               /\ [c EXCEPT !.status = "stale", !.resulted = TRUE, !.expired = FALSE] \in CommandRow
    <3>1. c.epoch + 1 \in Nat /\ c.id + 1 \in Nat /\ c.created \in Nat
      BY DEF CommandRow
    <3>2. Restage(c) \in CommandRow
      BY <2>8, <3>1, StagedTyped DEF Restage
    <3>3. [c EXCEPT !.status = "stale", !.resulted = TRUE, !.expired = FALSE] \in CommandRow
      BY DEF CommandRow, TerminalStatus
    <3> QED BY <3>2, <3>3
  <2>9. commands' \in [Ops -> CommandRow]
    BY <1>0, <2>4, <2>8
  <2>10. ASSUME NEW row \in OperationRow
         PROVE  /\ [row EXCEPT !.status = "running", !.epoch = old + 1] \in OperationRow
                /\ [row EXCEPT !.status = "failed"] \in OperationRow
                /\ [row EXCEPT !.status = "running", !.epoch = old + 1].endpoint = row.endpoint
                /\ [row EXCEPT !.status = "failed"].endpoint = row.endpoint
    <3>1. [row EXCEPT !.status = "running", !.epoch = old + 1] \in OperationRow
      BY <2>2, RestagedTyped
    <3>2. [row EXCEPT !.status = "failed"] \in OperationRow
      BY DEF OperationRow, TerminalStatus
    <3> QED BY <3>1, <3>2 DEF OperationRow
  <2>11. operations' \in [Ops -> OperationRow]
    BY <1>0, <2>5, <2>10
  <2>12. ASSUME NEW o \in Ops, operations'[o].status # "none"
         PROVE  operations'[o].endpoint \in Endpoints
    <3>1. operations[o].status # "none"
      BY <2>5, <2>12 DEF Active, ActiveStatus
    <3>2. operations'[o].endpoint = operations[o].endpoint
      BY <1>0, <2>5, <2>10
    <3> QED BY <3>1, <3>2 DEF TypeOK
  <2> QED BY <1>3, <2>7, <2>9, <2>11, <2>12, StoreReportsTyped DEF HeartbeatTakeover, TypeOK
<1> QED BY <1>1, <1>2, <1>3

LEMMA ClaimTyped ==
  ASSUME TypeOK, NEW n \in Nodes, NEW b \in AgentBuilds, claimAgentCommand(n, b)
  PROVE  TypeOK'
<1>0. /\ nodes \in [Nodes -> NodeRow]
      /\ operations \in [Ops -> OperationRow]
      /\ commands \in [Ops -> CommandRow]
  BY DEF TypeOK
<1>1. CASE ClaimNothing(n, b)
  BY <1>1, AdvertiseTyped DEF ClaimNothing, TypeOK
<1>2. ASSUME NEW o \in Ops, Connected(n), Oldest(o, Claimable(n)), HasBudget(o)
      PROVE  /\ ClaimOf(n, o) \in Claim
             /\ commands[o].attempts + 1 \in 0..MaxAttempts
  <2>1. nodes[n].session \in Sessions
    BY <1>0, <1>2 DEF Connected, NodeRow
  <2>2. commands[o].id \in Nat /\ commands[o].epoch \in Nat /\ commands[o].attempts \in 0..MaxAttempts
    BY <1>0 DEF CommandRow
  <2>3. commands[o].attempts + 1 \in 0..MaxAttempts
    BY <1>2, <2>2, BoundsAssumption DEF HasBudget
  <2>4. commands[o].attempts + 1 \in Nat
    BY <2>2
  <2> QED BY <2>1, <2>2, <2>3, <2>4 DEF ClaimOf, Claim
<1>3. ASSUME NEW o \in Ops, ClaimLease(n, b, o)
      PROVE  TypeOK'
  <2> DEFINE a == commands[o].attempts + 1
  <2>1. ClaimOf(n, o) \in Claim /\ a \in 0..MaxAttempts
    BY <1>2, <1>3 DEF ClaimLease
  <2>2. commands' = [commands EXCEPT ![o] =
          [@ EXCEPT !.status = "leased", !.attempts = a, !.expired = FALSE, !.sequence = 0]]
    BY <1>3 DEF ClaimLease
  <2> HIDE DEF a
  <2>3. ASSUME NEW c \in CommandRow
        PROVE  [c EXCEPT !.status = "leased", !.attempts = a, !.expired = FALSE, !.sequence = 0]
                 \in CommandRow
    BY <2>1, LeasedTyped
  <2>4. commands' \in [Ops -> CommandRow]
    BY <1>0, <2>2, <2>3
  <2> QED BY <1>3, <2>1, <2>4, AdvertiseTyped DEF ClaimLease, TypeOK
<1>4. ASSUME NEW o \in Ops, ClaimCancelled(n, b, o)
      PROVE  TypeOK'
  <2> DEFINE a == commands[o].attempts + 1
  <2>1. ClaimOf(n, o) \in Claim /\ a \in 0..MaxAttempts
    BY <1>2, <1>4 DEF ClaimCancelled
  <2>2. commands' = [commands EXCEPT ![o] =
          [@ EXCEPT !.status = "stale", !.attempts = a, !.resulted = TRUE]]
    BY <1>4 DEF ClaimCancelled
  <2> HIDE DEF a
  <2>3. ASSUME NEW c \in CommandRow
        PROVE  [c EXCEPT !.status = "stale", !.attempts = a, !.resulted = TRUE] \in CommandRow
    BY <2>1 DEF CommandRow, TerminalStatus
  <2>4. commands' \in [Ops -> CommandRow]
    BY <1>0, <2>2, <2>3
  <2> QED BY <1>4, <2>1, <2>4, AdvertiseTyped DEF ClaimCancelled, TypeOK
<1>5. ASSUME NEW o \in Ops, ClaimExhausted(n, b, o)
      PROVE  TypeOK'
  <2>1. ASSUME NEW c \in CommandRow
        PROVE  [c EXCEPT !.status = "failed", !.resulted = TRUE, !.expired = FALSE] \in CommandRow
    BY DEF CommandRow, TerminalStatus
  <2>2. commands' = [commands EXCEPT ![o] =
          [@ EXCEPT !.status = "failed", !.resulted = TRUE, !.expired = FALSE]]
    BY <1>5 DEF ClaimExhausted
  <2>3. commands' \in [Ops -> CommandRow]
    BY <1>0, <2>1, <2>2
  <2>4. operations' = [operations EXCEPT ![o].status = IF @ = "running" THEN "failed" ELSE @]
    BY <1>5 DEF ClaimExhausted
  <2>5. operations' \in [Ops -> OperationRow]
    BY <1>0, <2>4 DEF OperationRow, TerminalStatus
  <2>6. ASSUME NEW p \in Ops, operations'[p].status # "none"
        PROVE  operations'[p].endpoint \in Endpoints
    <3>1. operations'[p].endpoint = operations[p].endpoint
      BY <1>0, <2>4 DEF OperationRow
    <3>2. operations[p].status # "none"
      BY <1>0, <2>4, <2>6 DEF OperationRow
    <3> QED BY <3>1, <3>2 DEF TypeOK
  <2> QED BY <1>5, <2>3, <2>5, <2>6, AdvertiseTyped DEF ClaimExhausted, TypeOK
<1> QED BY <1>1, <1>3, <1>4, <1>5 DEF claimAgentCommand

\* A claim names an operation that exists once its result is applied.
LEMMA ResultFacts ==
  ASSUME TypeOK, NEW m \in claims, ResultFence(m)
  PROVE  /\ m.op \in Ops
         /\ operations[m.op].status = "running"
         /\ operations[m.op].endpoint \in Endpoints
  BY DEF ResultFence, TypeOK, Claim

LEMMA ReportsTyped ==
  ASSUME TypeOK, NEW m \in claims,
         \/ recordAgentReceipt(m)
         \/ \E q \in 1..MaxSequence : recordAgentProgress(m, q)
         \/ recordAgentResult(m)
  PROVE  TypeOK'
<1>0. /\ nodes \in [Nodes -> NodeRow]
      /\ operations \in [Ops -> OperationRow]
      /\ commands \in [Ops -> CommandRow]
      /\ m.op \in Ops /\ m.node \in Nodes
  BY DEF TypeOK, Claim
<1>1. CASE recordAgentReceipt(m)
  <2>1. ASSUME NEW c \in CommandRow PROVE [c EXCEPT !.receipt = TRUE] \in CommandRow
    BY DEF CommandRow
  <2>2. commands' = [commands EXCEPT ![m.op].receipt = TRUE]
    BY <1>1 DEF recordAgentReceipt
  <2>3. commands' \in [Ops -> CommandRow]
    BY <1>0, <2>1, <2>2
  <2> QED BY <1>1, <2>3 DEF recordAgentReceipt, TypeOK
<1>2. ASSUME NEW q \in 1..MaxSequence, recordAgentProgress(m, q)
      PROVE  TypeOK'
  <2>1. q \in 0..MaxSequence
    BY BoundsAssumption
  <2>2. ASSUME NEW c \in CommandRow
        PROVE  [c EXCEPT !.sequence = q, !.expired = FALSE] \in CommandRow
    BY <2>1 DEF CommandRow
  <2>3. commands' = [commands EXCEPT ![m.op].sequence = q, ![m.op].expired = FALSE]
    BY <1>2 DEF recordAgentProgress
  <2>4. commands' \in [Ops -> CommandRow]
    BY <1>0, <2>2, <2>3
  <2>5. nodes' = [nodes EXCEPT ![m.node].fresh = TRUE]
    BY <1>2 DEF recordAgentProgress
  <2>6. nodes' \in [Nodes -> NodeRow]
    BY <1>0, <2>5, FreshTyped
  <2> QED BY <1>2, <2>4, <2>6 DEF recordAgentProgress, TypeOK
<1>3. CASE ResultUnknown(m)
  <2>1. 0 \in 0..MaxSequence
    BY BoundsAssumption
  <2>2. ASSUME NEW c \in CommandRow
        PROVE  [c EXCEPT !.expired = TRUE, !.sequence = 0] \in CommandRow
    BY <2>1 DEF CommandRow
  <2>3. commands' = [commands EXCEPT ![m.op].expired = TRUE, ![m.op].sequence = 0]
    BY <1>3 DEF ResultUnknown
  <2>4. commands' \in [Ops -> CommandRow]
    BY <1>0, <2>2, <2>3
  <2> QED BY <1>3, <2>4 DEF ResultUnknown, TypeOK
<1>4. ASSUME NEW outcome \in {"succeeded", "failed"}, ResultFinal(m, outcome)
      PROVE  TypeOK'
  <2>1. ASSUME NEW c \in CommandRow
        PROVE  [c EXCEPT !.status = outcome, !.resulted = TRUE, !.expired = FALSE] \in CommandRow
    BY DEF CommandRow, TerminalStatus
  <2>2. commands' = [commands EXCEPT ![m.op].status = outcome, ![m.op].resulted = TRUE,
                                     ![m.op].expired = FALSE]
    BY <1>4 DEF ResultFinal
  <2>3. commands' \in [Ops -> CommandRow]
    BY <1>0, <2>1, <2>2
  <2>4. operations' = [operations EXCEPT ![m.op].status = outcome]
    BY <1>4 DEF ResultFinal
  <2>5. operations' \in [Ops -> OperationRow]
    BY <1>0, <2>4 DEF OperationRow, TerminalStatus
  <2>6. ASSUME NEW p \in Ops, operations'[p].status # "none"
        PROVE  operations'[p].endpoint \in Endpoints
    <3>1. operations'[p].endpoint = operations[p].endpoint
      BY <1>0, <2>4 DEF OperationRow
    <3>2. p # m.op => operations'[p] = operations[p]
      BY <1>0, <2>4
    <3>3. operations[m.op].endpoint \in Endpoints
      BY <1>4, ResultFacts DEF ResultFinal
    <3> QED BY <2>6, <3>1, <3>2, <3>3 DEF TypeOK
  <2> QED BY <1>4, <2>3, <2>5, <2>6 DEF ResultFinal, TypeOK
<1>5. CASE ResultDeleted(m)
  <2>1. Active(m.op)
    BY <1>5, ResultFacts DEF ResultDeleted, Active, ActiveStatus
  <2>2. FinalizeDeletion(m.op)
    BY <1>5 DEF ResultDeleted
  <2> QED BY <1>0, <1>5, <2>1, <2>2, FinalizeTyped DEF ResultDeleted, TypeOK
<1> QED BY <1>1, <1>2, <1>3, <1>4, <1>5 DEF recordAgentResult

LEMMA TimeTyped ==
  ASSUME TypeOK, Time
  PROVE  TypeOK'
<1>0. /\ nodes \in [Nodes -> NodeRow]
      /\ endpoints \in [Endpoints -> EndpointRow]
      /\ commands \in [Ops -> CommandRow]
  BY DEF TypeOK
<1>1. CASE GraceElapses
  BY <1>1 DEF GraceElapses, TypeOK
<1>2. ASSUME NEW o \in Ops, DeferralElapses(o)
      PROVE  TypeOK'
  BY <1>2 DEF DeferralElapses, TypeOK
<1>3. ASSUME NEW o \in Ops, LeaseExpires(o)
      PROVE  TypeOK'
  <2>1. ASSUME NEW c \in CommandRow PROVE [c EXCEPT !.expired = TRUE] \in CommandRow
    BY DEF CommandRow
  <2>2. commands' = [commands EXCEPT ![o].expired = TRUE]
    BY <1>3 DEF LeaseExpires
  <2>3. commands' \in [Ops -> CommandRow]
    BY <1>0, <2>1, <2>2
  <2> QED BY <1>3, <2>3 DEF LeaseExpires, TypeOK
<1>4. ASSUME NEW n \in Nodes, NodeGoesStale(n)
      PROVE  TypeOK'
  <2>1. nodes' = [nodes EXCEPT ![n].fresh = FALSE]
    BY <1>4 DEF NodeGoesStale
  <2>2. nodes' \in [Nodes -> NodeRow]
    BY <1>0, <2>1, FreshTyped
  <2> QED BY <1>4, <2>2 DEF NodeGoesStale, TypeOK
<1>5. ASSUME NEW e \in Endpoints, TelemetryGoesStale(e)
      PROVE  TypeOK'
  <2>1. ASSUME NEW row \in EndpointRow PROVE [row EXCEPT !.telemetry = FALSE] \in EndpointRow
    BY DEF EndpointRow
  <2>2. endpoints' = [endpoints EXCEPT ![e].telemetry = FALSE]
    BY <1>5 DEF TelemetryGoesStale
  <2>3. endpoints' \in [Endpoints -> EndpointRow]
    BY <1>0, <2>1, <2>2
  <2> QED BY <1>5, <2>3 DEF TelemetryGoesStale, TypeOK
<1> QED BY <1>1, <1>2, <1>3, <1>4, <1>5 DEF Time

LEMMA AccessRowTyped ==
  ASSUME NEW row \in NodeRow, NEW x \in BOOLEAN, NEW y \in BOOLEAN,
         NEW p \in {"absent", "enabled", "disabled"}
  PROVE  /\ [row EXCEPT !.granted = x] \in NodeRow
         /\ [row EXCEPT !.owned = x, !.pool = p] \in NodeRow
         /\ [row EXCEPT !.pool = p, !.granted = x] \in NodeRow
         /\ [row EXCEPT !.owned = x, !.pool = p, !.granted = y] \in NodeRow
         /\ [row EXCEPT !.revoked = x, !.granted = y, !.pool = p] \in NodeRow
<1>1. [row EXCEPT !.granted = x] \in NodeRow
  BY DEF NodeRow
<1>2. [row EXCEPT !.owned = x, !.pool = p] \in NodeRow
  BY DEF NodeRow
<1>3. [row EXCEPT !.pool = p, !.granted = x] \in NodeRow
  BY DEF NodeRow
<1>4. [row EXCEPT !.owned = x, !.pool = p, !.granted = y] \in NodeRow
  BY DEF NodeRow
<1>5. [row EXCEPT !.revoked = x, !.granted = y, !.pool = p] \in NodeRow
  BY DEF NodeRow
<1> QED BY <1>1, <1>2, <1>3, <1>4, <1>5

LEMMA PlatformOwnerTyped ==
  ASSUME TypeOK, PlatformOwner
  PROVE  TypeOK'
<1>0. nodes \in [Nodes -> NodeRow]
  BY DEF TypeOK
<1>1. PICK n \in Nodes :
        \/ ShareNode(n) \/ UnshareNode(n) \/ grantSharedNode(n) \/ grantNode(n)
        \/ revokeNodeGrant(n) \/ revokeSharedNode(n) \/ deleteNode(n)
  BY DEF PlatformOwner
<1>2. nodes[n] \in NodeRow /\ nodes[n].granted \in BOOLEAN
  BY <1>0 DEF NodeRow
<1>3. CASE ShareNode(n)
  <2>1. nodes' = [nodes EXCEPT ![n].owned = FALSE, ![n].pool = "enabled"]
    BY <1>3 DEF ShareNode
  <2>2. nodes' \in [Nodes -> NodeRow]
    BY <1>0, <1>2, <2>1, AccessRowTyped
  <2> QED BY <1>3, <2>2 DEF ShareNode, TypeOK
<1>4. CASE UnshareNode(n)
  <2>1. nodes' = [nodes EXCEPT ![n].pool = "disabled", ![n].granted = FALSE]
    BY <1>4 DEF UnshareNode
  <2>2. nodes' \in [Nodes -> NodeRow]
    BY <1>0, <1>2, <2>1, AccessRowTyped
  <2>3. endpoints' \in [Endpoints -> EndpointRow]
    BY <1>4, DetachTyped DEF UnshareNode
  <2> QED BY <1>4, <2>2, <2>3, InvalidateTyped DEF UnshareNode, TypeOK
<1>5. CASE grantSharedNode(n)
  <2>1. nodes' = [nodes EXCEPT ![n].granted = TRUE]
    BY <1>5 DEF grantSharedNode
  <2>2. nodes' \in [Nodes -> NodeRow]
    BY <1>0, <1>2, <2>1, AccessRowTyped
  <2> QED BY <1>5, <2>2 DEF grantSharedNode, TypeOK
<1>6. CASE grantNode(n)
  <2>1. nodes' = [nodes EXCEPT ![n].owned = FALSE, ![n].pool = "enabled", ![n].granted = TRUE]
    BY <1>6 DEF grantNode
  <2>2. nodes' \in [Nodes -> NodeRow]
    BY <1>0, <1>2, <2>1, AccessRowTyped
  <2> QED BY <1>6, <2>2 DEF grantNode, TypeOK
<1>7. CASE revokeNodeGrant(n)
  <2>1. nodes' = [nodes EXCEPT ![n].granted = FALSE]
    BY <1>7 DEF revokeNodeGrant
  <2>2. nodes' \in [Nodes -> NodeRow]
    BY <1>0, <1>2, <2>1, AccessRowTyped
  <2>3. endpoints' \in [Endpoints -> EndpointRow]
    BY <1>7, DetachTyped DEF revokeNodeGrant
  <2>4. InvalidateIf(TRUE, n)
    BY <1>7 DEF revokeNodeGrant, InvalidateIf
  <2> QED BY <1>7, <2>2, <2>3, <2>4, InvalidateTyped DEF revokeNodeGrant, TypeOK
<1>8. CASE revokeSharedNode(n)
  <2>1. nodes' = [nodes EXCEPT ![n].granted = FALSE]
    BY <1>8 DEF revokeSharedNode
  <2>2. nodes' \in [Nodes -> NodeRow]
    BY <1>0, <1>2, <2>1, AccessRowTyped
  <2>3. endpoints' \in [Endpoints -> EndpointRow]
    BY <1>8, DetachTyped DEF revokeSharedNode
  <2> QED BY <1>2, <1>8, <2>2, <2>3, InvalidateTyped DEF revokeSharedNode, TypeOK
<1>9. CASE deleteNode(n)
  <2>1. nodes' = [nodes EXCEPT ![n].revoked = TRUE, ![n].granted = FALSE, ![n].pool = "absent"]
    BY <1>9 DEF deleteNode
  <2>2. nodes' \in [Nodes -> NodeRow]
    BY <1>0, <1>2, <2>1, AccessRowTyped
  <2>3. endpoints' \in [Endpoints -> EndpointRow]
    BY <1>9, DetachTyped DEF deleteNode
  <2> QED BY <1>9, <2>2, <2>3, InvalidateTyped DEF deleteNode, TypeOK
<1> QED BY <1>1, <1>3, <1>4, <1>5, <1>6, <1>7, <1>8, <1>9

-----------------------------------------------------------------------------
(* Theorems *)

LEMMA StepTyped == TypeOK /\ [Next]_vars => TypeOK'
<1> SUFFICES ASSUME TypeOK, [Next]_vars PROVE TypeOK'
  OBVIOUS
<1>1. CASE Requests
  BY <1>1, RequestsTyped
<1>2. CASE Worker
  BY <1>2, WorkerRequestsTyped, DispatchTyped DEF Worker
<1>3. CASE Agents
  BY <1>3, HeartbeatTyped, ClaimTyped, ReportsTyped DEF Agents
<1>4. CASE Time
  BY <1>4, TimeTyped
<1>5. CASE PlatformOwner
  BY <1>5, PlatformOwnerTyped
<1>6. CASE UNCHANGED vars
  BY <1>6 DEF vars, TypeOK, Claim, NodeRow, EndpointRow, OperationRow, CommandRow
<1> QED BY <1>1, <1>2, <1>3, <1>4, <1>5, <1>6 DEF Next

\* Every table keeps its shape under every transaction, whatever the sizes of
\* the instance: attempts never exceed maxCommandAttempts, a claim always names
\* a session, and an operation that exists names an endpoint.
THEOREM TypeCorrect == Spec => []TypeOK
<1>1. Init => TypeOK
  BY InitTyped
<1>2. TypeOK /\ [Next]_vars => TypeOK'
  BY StepTyped
<1> QED BY <1>1, <1>2, PTL DEF Spec

-----------------------------------------------------------------------------
(***************************************************************************)
(* One active operation per endpoint, always of the endpoint's current      *)
(* generation, and outcomes that stay.                                      *)
(*                                                                          *)
(* The two invariants are inductive only together: a deletion leaves no     *)
(* active operation on the endpoint it removes because it was the only one, *)
(* and a new operation is the only one of its generation because those it   *)
(* found were superseded in the same transaction.                           *)
(***************************************************************************)

Core == TypeOK /\ OneActiveOperation /\ ActiveOperationIsCurrent

\* The part of a step that TerminalIsFinal speaks of.
OutcomesStay ==
  \A o \in Ops : operations[o].status \in TerminalStatus
    => operations'[o].status = operations[o].status

Preserved == OneActiveOperation' /\ ActiveOperationIsCurrent' /\ OutcomesStay

-----------------------------------------------------------------------------
(* The two ways a step can change operations *)

\* No operation becomes active and no active one changes what it is about; an
\* endpoint whose status or generation changes has no active operation left.
LEMMA QuietStep ==
  ASSUME Core, TypeOK', OutcomesStay,
         \A o \in Ops : operations'[o].status \in ActiveStatus =>
           /\ Active(o)
           /\ operations'[o].endpoint = operations[o].endpoint
           /\ operations'[o].generation = operations[o].generation,
         \A e \in Endpoints :
           \/ /\ endpoints'[e].status = endpoints[e].status
              /\ endpoints'[e].generation = endpoints[e].generation
           \/ \A o \in Ops : operations'[o].status \in ActiveStatus => operations'[o].endpoint # e
  PROVE  Preserved
<1>1. OneActiveOperation'
  BY DEF Core, OneActiveOperation, Active
<1>2. ASSUME NEW o \in Ops, operations'[o].status \in ActiveStatus
      PROVE  /\ operations'[o].endpoint \in Endpoints
             /\ endpoints'[operations'[o].endpoint].status = "live"
             /\ endpoints'[operations'[o].endpoint].generation = operations'[o].generation
  BY <1>2 DEF Core, ActiveOperationIsCurrent, Live
<1>3. ActiveOperationIsCurrent'
  BY <1>2 DEF ActiveOperationIsCurrent, Active, Live
<1> QED BY <1>1, <1>3 DEF Preserved

\* A step that leaves endpoints and operations alone.
LEMMA UntouchedStep ==
  ASSUME Core, TypeOK', operations' = operations,
         \A e \in Endpoints : /\ endpoints'[e].status = endpoints[e].status
                              /\ endpoints'[e].generation = endpoints[e].generation
  PROVE  Preserved
<1>1. OutcomesStay
  BY DEF OutcomesStay
<1> QED BY <1>1, QuietStep DEF Active

LEMMA BatchFacts ==
  ASSUME NEW S, NEW f \in Batches(S)
  PROVE  /\ DOMAIN f \subseteq Ops
         /\ \A o \in DOMAIN f : f[o] \in S /\ operations[o].status = "none"
         /\ \A o, p \in DOMAIN f : f[o] = f[p] => o = p
  BY DEF Batches

\* New operations, one per endpoint of S, on endpoints whose earlier operations
\* are over or are superseded with it.
LEMMA InsertStep ==
  ASSUME Core, NEW S \in SUBSET Endpoints, NEW f \in Batches(S), NEW rows, NEW over,
         DOMAIN rows = DOMAIN f,
         \A o \in DOMAIN f : /\ rows[o].status = "queued"
                             /\ rows[o].endpoint = f[o]
                             /\ rows[o].generation = endpoints'[f[o]].generation,
         InsertOperations(rows, over),
         \A e \in S : Live(e) /\ (ActiveOn(e) = {} \/ e \in over),
         \A e \in Endpoints : endpoints'[e].status = endpoints[e].status,
         \A e \in Endpoints \ S : endpoints'[e].generation = endpoints[e].generation
  PROVE  Preserved
<1>1. /\ DOMAIN f \subseteq Ops
      /\ \A o \in DOMAIN f : f[o] \in S /\ operations[o].status = "none"
      /\ \A o, p \in DOMAIN f : f[o] = f[p] => o = p
  BY BatchFacts
<1>2. \A o \in DOMAIN f : o \in Ops /\ operations'[o] = rows[o]
  BY <1>1 DEF InsertOperations
<1>3. ASSUME NEW o \in Ops, o \notin DOMAIN f, operations'[o].status \in ActiveStatus
      PROVE  /\ operations'[o] = operations[o]
             /\ Active(o)
             /\ operations[o].endpoint \in Endpoints \ S
  <2>1. ~(Active(o) /\ operations[o].endpoint \in over)
    <3> SUFFICES ASSUME Active(o), operations[o].endpoint \in over PROVE FALSE
      OBVIOUS
    <3>1. operations'[o] = [operations[o] EXCEPT !.status = "stale"]
      BY <1>3 DEF InsertOperations
    <3>2. operations[o] \in OperationRow
      BY DEF Core, TypeOK
    <3>3. operations'[o].status = "stale"
      BY <3>1, <3>2 DEF OperationRow
    <3> QED BY <1>3, <3>3 DEF ActiveStatus
  <2>2. operations'[o] = operations[o]
    BY <1>3, <2>1 DEF InsertOperations
  <2>3. Active(o)
    BY <1>3, <2>2 DEF Active
  <2>4. operations[o].endpoint \in Endpoints /\ operations[o].endpoint \notin over
    BY <2>1, <2>3 DEF Core, ActiveOperationIsCurrent
  <2>5. o \in ActiveOn(operations[o].endpoint)
    BY <2>3 DEF ActiveOn
  <2> QED BY <2>2, <2>3, <2>4, <2>5
<1>4. OneActiveOperation'
  <2> SUFFICES ASSUME NEW o \in Ops, NEW p \in Ops,
                      operations'[o].status \in ActiveStatus, operations'[p].status \in ActiveStatus,
                      operations'[o].endpoint = operations'[p].endpoint
               PROVE  o = p
    BY DEF OneActiveOperation, Active
  <2>1. CASE o \in DOMAIN f /\ p \in DOMAIN f
    BY <1>1, <1>2, <2>1
  <2>2. CASE o \in DOMAIN f /\ p \notin DOMAIN f
    BY <1>1, <1>2, <1>3, <2>2
  <2>3. CASE o \notin DOMAIN f /\ p \in DOMAIN f
    BY <1>1, <1>2, <1>3, <2>3
  <2>4. CASE o \notin DOMAIN f /\ p \notin DOMAIN f
    BY <1>3, <2>4 DEF Core, OneActiveOperation
  <2> QED BY <2>1, <2>2, <2>3, <2>4
<1>5. ActiveOperationIsCurrent'
  <2> SUFFICES ASSUME NEW o \in Ops, operations'[o].status \in ActiveStatus
               PROVE  /\ operations'[o].endpoint \in Endpoints
                      /\ endpoints'[operations'[o].endpoint].status = "live"
                      /\ endpoints'[operations'[o].endpoint].generation = operations'[o].generation
    BY DEF ActiveOperationIsCurrent, Active, Live
  <2>1. CASE o \in DOMAIN f
    BY <1>1, <1>2, <2>1 DEF Live
  <2>2. CASE o \notin DOMAIN f
    BY <1>3, <2>2 DEF Core, ActiveOperationIsCurrent, Live
  <2> QED BY <2>1, <2>2
<1>6. OutcomesStay
  <2> SUFFICES ASSUME NEW o \in Ops, operations[o].status \in TerminalStatus
               PROVE  operations'[o].status = operations[o].status
    BY DEF OutcomesStay
  <2>1. o \notin DOMAIN f /\ ~Active(o)
    BY <1>1 DEF TerminalStatus, Active, ActiveStatus
  <2> QED BY <2>1 DEF InsertOperations
<1> QED BY <1>4, <1>5, <1>6 DEF Preserved

-----------------------------------------------------------------------------
(* Every action is one of the two *)

LEMMA RequestsPreserve ==
  ASSUME Core, TypeOK', Requests
  PROVE  Preserved
<1>0. endpoints \in [Endpoints -> EndpointRow]
  BY DEF Core, TypeOK
<1>1. ASSUME NEW e \in Endpoints, NEW n \in Nodes \cup {None}, createEndpoint(e, n)
      PROVE  Preserved
  <2>1. /\ endpoints' = [endpoints EXCEPT ![e].status = "live", ![e].node = n]
        /\ operations' = operations
        /\ endpoints[e].status = "absent"
    BY <1>1 DEF createEndpoint
  <2>2. \A x \in Endpoints : /\ x # e => endpoints'[x] = endpoints[x]
                             /\ endpoints'[x].generation = endpoints[x].generation
    BY <1>0, <2>1 DEF EndpointRow
  <2>3. \A o \in Ops : operations'[o].status \in ActiveStatus => operations'[o].endpoint # e
    BY <2>1 DEF Core, ActiveOperationIsCurrent, Active, Live
  <2>4. OutcomesStay
    BY <2>1 DEF OutcomesStay
  <2> QED BY <2>1, <2>2, <2>3, <2>4, QuietStep DEF Active
<1>2. ASSUME NEW e \in Endpoints, NEW action \in UserActions, mutateEndpoint(e, action)
      PROVE  Preserved
  <2> DEFINE g == GenerationAfter(e, action)
             d == DesiredAfter(e, action)
             over == IF action = "force-restart" THEN {e} ELSE {}
  <2>1. /\ endpoints' = [endpoints EXCEPT ![e].generation = g, ![e].desired = d]
        /\ Live(e)
        /\ ActiveOn(e) = {} \/ action = "force-restart"
    BY <1>2 DEF mutateEndpoint, MayMutate
  <2>2. PICK f \in Batches({e}) :
          InsertOperations([o \in DOMAIN f |-> NewOperation(e, g, action, "user")], over)
    BY <1>2 DEF mutateEndpoint
  <2>3. ActiveOn(e) = {} \/ e \in over
    BY <2>1
  <2> HIDE DEF g, d, over
  <2>4. \A x \in Endpoints : /\ endpoints'[x].status = endpoints[x].status
                             /\ x # e => endpoints'[x] = endpoints[x]
    BY <1>0, <2>1 DEF EndpointRow
  <2>5. endpoints'[e].generation = g
    BY <1>0, <2>1 DEF EndpointRow
  <2> DEFINE rows == [o \in DOMAIN f |-> NewOperation(e, g, action, "user")]
  <2>6. DOMAIN rows = DOMAIN f
    OBVIOUS
  <2>7. \A o \in DOMAIN f : f[o] = e
    BY BatchFacts
  <2>8. \A o \in DOMAIN f : /\ rows[o].status = "queued"
                            /\ rows[o].endpoint = f[o]
                            /\ rows[o].generation = endpoints'[f[o]].generation
    BY <2>5, <2>7 DEF NewOperation, NoOperation
  <2>9. InsertOperations(rows, over)
    BY <2>2
  <2> HIDE DEF rows
  <2>10. {e} \in SUBSET Endpoints
    OBVIOUS
  <2>11. \A x \in {e} : Live(x) /\ (ActiveOn(x) = {} \/ x \in over)
    BY <2>1, <2>3
  <2>12. \A x \in Endpoints \ {e} : endpoints'[x].generation = endpoints[x].generation
    BY <2>4
  <2> QED BY <2>4, <2>6, <2>8, <2>9, <2>10, <2>11, <2>12, InsertStep
<1>3. ASSUME NEW x \in Expiries, setWorkspaceExpiry(x)
      PROVE  Preserved
  BY <1>3, UntouchedStep DEF setWorkspaceExpiry
<1> QED BY <1>1, <1>2, <1>3 DEF Requests

LEMMA WorkerRequestsPreserve ==
  ASSUME Core, TypeOK', processExpiredWorkspaces \/ reclaimStaleEndpoints
  PROVE  Preserved
<1>0. endpoints \in [Endpoints -> EndpointRow]
  BY DEF Core, TypeOK
<1>1. CASE processExpiredWorkspaces
  <2> DEFINE S == {e \in Endpoints : ExpiryEnqueues(e)}
             over == {e \in S : ActiveOn(e) # {}}
  <2>1. PICK f \in Batches(S) :
          InsertOperations(
            [o \in DOMAIN f |->
               NewOperation(f[o], endpoints[f[o]].generation + 1, ExpiryAction, ExpiryTrigger)],
            over)
    BY <1>1 DEF processExpiredWorkspaces
  <2>2. endpoints' = [e \in Endpoints |->
          IF e \in S
          THEN [endpoints[e] EXCEPT !.generation = @ + 1,
                  !.desired = IF expiry = "due" THEN @ ELSE "stopped"]
          ELSE endpoints[e]]
    BY <1>1 DEF processExpiredWorkspaces
  <2>3. \A e \in S : Live(e) /\ (ActiveOn(e) = {} \/ e \in over)
    BY DEF ExpiryEnqueues
  <2>4. S \in SUBSET Endpoints
    OBVIOUS
  <2> HIDE DEF S, over
  <2>5. ASSUME NEW row \in EndpointRow, NEW d
        PROVE  /\ [row EXCEPT !.generation = @ + 1, !.desired = d].status = row.status
               /\ [row EXCEPT !.generation = @ + 1, !.desired = d].generation = row.generation + 1
    BY DEF EndpointRow
  <2>6. \A e \in Endpoints : /\ endpoints'[e].status = endpoints[e].status
                             /\ e \in S => endpoints'[e].generation = endpoints[e].generation + 1
                             /\ e \notin S => endpoints'[e].generation = endpoints[e].generation
    BY <1>0, <2>2, <2>5
  <2> DEFINE rows == [o \in DOMAIN f |->
               NewOperation(f[o], endpoints[f[o]].generation + 1, ExpiryAction, ExpiryTrigger)]
  <2>7. DOMAIN rows = DOMAIN f /\ InsertOperations(rows, over)
    BY <2>1
  <2>8. \A o \in DOMAIN f : f[o] \in S /\ f[o] \in Endpoints
    BY <2>4, BatchFacts
  <2>9. \A o \in DOMAIN f : /\ rows[o].status = "queued"
                            /\ rows[o].endpoint = f[o]
                            /\ rows[o].generation = endpoints[f[o]].generation + 1
    BY DEF NewOperation, NoOperation
  <2> HIDE DEF rows
  <2>10. \A o \in DOMAIN f : /\ rows[o].status = "queued"
                             /\ rows[o].endpoint = f[o]
                             /\ rows[o].generation = endpoints'[f[o]].generation
    BY <2>6, <2>8, <2>9
  <2> QED BY <2>3, <2>4, <2>6, <2>7, <2>10, InsertStep
<1>2. CASE reclaimStaleEndpoints
  <2> DEFINE S == {e \in Endpoints : ReclaimCandidate(e) /\ ~SucceededIn(RecentReclaims(e))}
  <2>1. PICK f \in Batches(S) :
          InsertOperations(
            [o \in DOMAIN f |->
               NewOperation(f[o], endpoints[f[o]].generation, "read-container-logs", "reclaim")], {})
    BY <1>2 DEF reclaimStaleEndpoints
  <2>2. endpoints' = endpoints
    BY <1>2 DEF reclaimStaleEndpoints
  <2>3. S \in SUBSET Endpoints
    OBVIOUS
  <2>4. \A e \in S : Live(e) /\ (ActiveOn(e) = {} \/ e \in {})
    BY DEF ReclaimCandidate
  <2> HIDE DEF S
  <2> DEFINE rows == [o \in DOMAIN f |->
               NewOperation(f[o], endpoints[f[o]].generation, "read-container-logs", "reclaim")]
  <2>5. DOMAIN rows = DOMAIN f /\ InsertOperations(rows, {})
    BY <2>1
  <2>6. \A o \in DOMAIN f : /\ rows[o].status = "queued"
                            /\ rows[o].endpoint = f[o]
                            /\ rows[o].generation = endpoints'[f[o]].generation
    BY <2>2 DEF NewOperation, NoOperation
  <2> HIDE DEF rows
  <2> QED BY <2>2, <2>3, <2>4, <2>5, <2>6, InsertStep
<1> QED BY <1>1, <1>2

\* The deletion that removes an endpoint is its only active operation.
LEMMA FinalizePreserves ==
  ASSUME Core, TypeOK', NEW o \in Ops, Active(o), FinalizeDeletion(o)
  PROVE  Preserved
<1> DEFINE e == operations[o].endpoint
<1>1. /\ operations \in [Ops -> OperationRow]
      /\ endpoints \in [Endpoints -> EndpointRow]
      /\ e \in Endpoints
  BY DEF Core, TypeOK, Active, ActiveStatus
<1>2. operations' = [operations EXCEPT ![o].status = "succeeded"]
  BY DEF FinalizeDeletion
<1>3. /\ operations'[o].status = "succeeded"
      /\ \A p \in Ops : p # o => operations'[p] = operations[p]
  BY <1>1, <1>2 DEF OperationRow
<1>4. endpoints' = [endpoints EXCEPT ![e].status = "deleted", ![e].desired = "stopped",
                                     ![e].telemetry = FALSE]
  BY DEF FinalizeDeletion
<1> HIDE DEF e
<1>5. \A x \in Endpoints : x # e => endpoints'[x] = endpoints[x]
  BY <1>1, <1>4
<1>6. \A p \in Ops : operations'[p].status \in ActiveStatus =>
        p # o /\ Active(p) /\ operations'[p].endpoint # e
  BY <1>3 DEF Core, OneActiveOperation, Active, ActiveStatus, e
<1>7. OutcomesStay
  BY <1>3 DEF OutcomesStay, Active, ActiveStatus, TerminalStatus
<1> QED BY <1>3, <1>5, <1>6, <1>7, QuietStep

\* A step that gives one operation another status and leaves endpoints alone.
LEMMA StatusStep ==
  ASSUME Core, TypeOK', NEW o \in Ops, NEW status,
         operations[o].status \in TerminalStatus => status = operations[o].status,
         status \in ActiveStatus => Active(o),
         /\ operations'[o].status = status
         /\ operations'[o].endpoint = operations[o].endpoint
         /\ operations'[o].generation = operations[o].generation,
         \A p \in Ops : p # o => operations'[p] = operations[p],
         endpoints' = endpoints
  PROVE  Preserved
<1>1. OutcomesStay
  BY DEF OutcomesStay
<1>2. \A p \in Ops : operations'[p].status \in ActiveStatus =>
        /\ Active(p)
        /\ operations'[p].endpoint = operations[p].endpoint
        /\ operations'[p].generation = operations[p].generation
  BY DEF Active
<1> QED BY <1>1, <1>2, QuietStep

LEMMA DispatchPreserves ==
  ASSUME Core, TypeOK', NEW o \in Ops, processOne(o)
  PROVE  Preserved
<1>0. operations \in [Ops -> OperationRow]
  BY DEF Core, TypeOK
<1>1. Verdict(o) # "settled" => operations[o].status = "queued"
  BY DEF Verdict
<1>2. CASE SettleEvent(o)
  <2> DEFINE status == IF Verdict(o) = "settled" THEN operations[o].status ELSE Verdict(o)
  <2>1. operations' = [operations EXCEPT ![o].status = status] /\ endpoints' = endpoints
    BY <1>2 DEF SettleEvent
  <2>2. operations[o].status \in TerminalStatus => status = operations[o].status
    BY <1>1 DEF TerminalStatus
  <2>3. status \in ActiveStatus => Active(o)
    BY <1>2 DEF SettleEvent, Active, ActiveStatus, TerminalStatus
  <2> HIDE DEF status
  <2>4. /\ operations'[o].status = status
        /\ operations'[o].endpoint = operations[o].endpoint
        /\ operations'[o].generation = operations[o].generation
        /\ \A p \in Ops : p # o => operations'[p] = operations[p]
    BY <1>0, <2>1 DEF OperationRow
  <2> QED BY <2>1, <2>2, <2>3, <2>4, StatusStep
<1>3. CASE DeferEvent(o)
  BY <1>3, UntouchedStep DEF DeferEvent
<1>4. CASE DispatchEvent(o)
  <2> DEFINE n == NodeOf(o)
             k == nodes[n].epoch
  <2>1. operations[o].status = "queued"
    BY <1>1, <1>4 DEF DispatchEvent
  <2>2. operations' = [operations EXCEPT ![o].status = "running", ![o].node = n, ![o].epoch = k]
    BY <1>4 DEF DispatchEvent
  <2>3. endpoints' = endpoints
    BY <1>4 DEF DispatchEvent
  <2> HIDE DEF n, k
  <2>4. ASSUME NEW row \in OperationRow
        PROVE  LET r == [row EXCEPT !.status = "running", !.node = n, !.epoch = k]
               IN  r.status = "running" /\ r.endpoint = row.endpoint /\ r.generation = row.generation
    BY DEF OperationRow
  <2>5. operations' = [operations EXCEPT ![o] =
          [@ EXCEPT !.status = "running", !.node = n, !.epoch = k]]
    BY <2>2
  <2>6. /\ operations'[o].status = "running"
        /\ operations'[o].endpoint = operations[o].endpoint
        /\ operations'[o].generation = operations[o].generation
        /\ \A p \in Ops : p # o => operations'[p] = operations[p]
    BY <1>0, <2>4, <2>5
  <2>7. Active(o) /\ operations[o].status \notin TerminalStatus
    BY <2>1 DEF Active, ActiveStatus, TerminalStatus
  <2> QED BY <2>3, <2>6, <2>7, StatusStep
<1>5. CASE DeleteUnassigned(o)
  <2>1. Active(o) /\ FinalizeDeletion(o)
    BY <1>1, <1>5 DEF DeleteUnassigned, Active, ActiveStatus
  <2> QED BY <2>1, FinalizePreserves
<1> QED BY <1>2, <1>3, <1>4, <1>5 DEF processOne

LEMMA ReportsKeepEndpoints ==
  ASSUME TypeOK, NEW R, StoreReports(R)
  PROVE  \A e \in Endpoints : /\ endpoints'[e].status = endpoints[e].status
                              /\ endpoints'[e].generation = endpoints[e].generation
  BY DEF StoreReports, TypeOK, EndpointRow

LEMMA HeartbeatPreserves ==
  ASSUME Core, TypeOK', NEW n \in Nodes, NEW R,
         \/ HeartbeatSame(n, R)
         \/ \E s \in Sessions : HeartbeatFirst(n, s, R) \/ HeartbeatTakeover(n, s, R)
  PROVE  Preserved
<1>0. TypeOK /\ operations \in [Ops -> OperationRow]
  BY DEF Core, TypeOK
<1>1. CASE HeartbeatSame(n, R)
  BY <1>0, <1>1, ReportsKeepEndpoints, UntouchedStep DEF HeartbeatSame
<1>2. ASSUME NEW s \in Sessions, HeartbeatFirst(n, s, R)
      PROVE  Preserved
  BY <1>0, <1>2, ReportsKeepEndpoints, UntouchedStep DEF HeartbeatFirst
<1>3. ASSUME NEW s \in Sessions, HeartbeatTakeover(n, s, R)
      PROVE  Preserved
  <2> DEFINE old == nodes[n].epoch
             held(o) == operations[o].node = n /\ operations[o].epoch = old /\ Active(o)
             restaged(o) == operations[o].action = "delete" /\ Active(o)
  <2>1. operations' = [o \in Ops |->
          IF ~held(o) THEN operations[o]
          ELSE IF restaged(o)
          THEN [operations[o] EXCEPT !.status = "running", !.epoch = old + 1]
          ELSE [operations[o] EXCEPT !.status = "failed"]]
    BY <1>3 DEF HeartbeatTakeover
  <2>2. \A o \in Ops : held(o) => Active(o)
    OBVIOUS
  <2> HIDE DEF old, held, restaged
  <2>3. ASSUME NEW row \in OperationRow
        PROVE  LET r == [row EXCEPT !.status = "running", !.epoch = old + 1]
                   f == [row EXCEPT !.status = "failed"]
               IN  /\ r.status = "running" /\ r.endpoint = row.endpoint
                   /\ r.generation = row.generation /\ f.status = "failed"
    BY DEF OperationRow
  <2>4. ASSUME NEW o \in Ops
        PROVE  \/ operations'[o] = operations[o]
               \/ /\ Active(o)
                  /\ \/ operations'[o].status = "failed"
                     \/ /\ operations'[o].endpoint = operations[o].endpoint
                        /\ operations'[o].generation = operations[o].generation
    BY <1>0, <2>1, <2>2, <2>3
  <2>5. OutcomesStay
    BY <2>4 DEF OutcomesStay, Active, ActiveStatus, TerminalStatus
  <2>6. \A o \in Ops : operations'[o].status \in ActiveStatus =>
          /\ Active(o)
          /\ operations'[o].endpoint = operations[o].endpoint
          /\ operations'[o].generation = operations[o].generation
    BY <2>4 DEF Active, ActiveStatus
  <2>7. StoreReports(R)
    BY <1>3 DEF HeartbeatTakeover
  <2> QED BY <1>0, <2>5, <2>6, <2>7, ReportsKeepEndpoints, QuietStep
<1> QED BY <1>1, <1>2, <1>3

LEMMA ClaimPreserves ==
  ASSUME Core, TypeOK', NEW n \in Nodes, NEW b \in AgentBuilds, claimAgentCommand(n, b)
  PROVE  Preserved
<1>0. operations \in [Ops -> OperationRow]
  BY DEF Core, TypeOK
<1>1. CASE ClaimNothing(n, b)
  BY <1>1, UntouchedStep DEF ClaimNothing
<1>2. ASSUME NEW o \in Ops, ClaimLease(n, b, o) \/ ClaimCancelled(n, b, o)
      PROVE  Preserved
  BY <1>2, UntouchedStep DEF ClaimLease, ClaimCancelled
<1>3. ASSUME NEW o \in Ops, ClaimExhausted(n, b, o)
      PROVE  Preserved
  <2> DEFINE status == IF operations[o].status = "running" THEN "failed"
                       ELSE operations[o].status
  <2>1. operations' = [operations EXCEPT ![o].status = status] /\ endpoints' = endpoints
    BY <1>3 DEF ClaimExhausted
  <2>2. operations[o].status \in TerminalStatus => status = operations[o].status
    BY DEF TerminalStatus
  <2>3. status \in ActiveStatus => Active(o)
    BY DEF Active, ActiveStatus
  <2> HIDE DEF status
  <2>4. /\ operations'[o].status = status
        /\ operations'[o].endpoint = operations[o].endpoint
        /\ operations'[o].generation = operations[o].generation
        /\ \A p \in Ops : p # o => operations'[p] = operations[p]
    BY <1>0, <2>1 DEF OperationRow
  <2> QED BY <2>1, <2>2, <2>3, <2>4, StatusStep
<1> QED BY <1>1, <1>2, <1>3 DEF claimAgentCommand

LEMMA ReportsPreserve ==
  ASSUME Core, TypeOK', NEW m \in claims,
         \/ recordAgentReceipt(m)
         \/ \E q \in 1..MaxSequence : recordAgentProgress(m, q)
         \/ recordAgentResult(m)
  PROVE  Preserved
<1>0. TypeOK /\ operations \in [Ops -> OperationRow] /\ m.op \in Ops
  BY DEF Core, TypeOK, Claim
<1>1. CASE recordAgentReceipt(m) \/ ResultUnknown(m) \/ \E q \in 1..MaxSequence : recordAgentProgress(m, q)
  BY <1>1, UntouchedStep DEF recordAgentReceipt, ResultUnknown, recordAgentProgress
<1>2. ASSUME NEW outcome \in {"succeeded", "failed"}, ResultFinal(m, outcome)
      PROVE  Preserved
  <2>1. operations' = [operations EXCEPT ![m.op].status = outcome] /\ endpoints' = endpoints
    BY <1>2 DEF ResultFinal
  <2>2. operations[m.op].status = "running"
    BY <1>0, <1>2, ResultFacts DEF ResultFinal
  <2>3. /\ operations'[m.op].status = outcome
        /\ operations'[m.op].endpoint = operations[m.op].endpoint
        /\ operations'[m.op].generation = operations[m.op].generation
        /\ \A p \in Ops : p # m.op => operations'[p] = operations[p]
    BY <1>0, <2>1 DEF OperationRow
  <2>4. outcome \notin ActiveStatus /\ operations[m.op].status \notin TerminalStatus
    BY <2>2 DEF ActiveStatus, TerminalStatus
  <2> QED BY <1>0, <2>1, <2>3, <2>4, StatusStep
<1>3. CASE ResultDeleted(m)
  <2>1. Active(m.op) /\ FinalizeDeletion(m.op)
    BY <1>0, <1>3, ResultFacts DEF ResultDeleted, Active, ActiveStatus
  <2> QED BY <1>0, <2>1, FinalizePreserves
<1> QED BY <1>1, <1>2, <1>3 DEF recordAgentResult

LEMMA TimePreserves ==
  ASSUME Core, TypeOK', Time
  PROVE  Preserved
<1>1. ASSUME NEW e \in Endpoints, TelemetryGoesStale(e)
      PROVE  Preserved
  <2>1. endpoints' = [endpoints EXCEPT ![e].telemetry = FALSE] /\ operations' = operations
    BY <1>1 DEF TelemetryGoesStale
  <2>2. \A x \in Endpoints : /\ endpoints'[x].status = endpoints[x].status
                             /\ endpoints'[x].generation = endpoints[x].generation
    BY <2>1 DEF Core, TypeOK, EndpointRow
  <2> QED BY <2>1, <2>2, UntouchedStep
<1>2. CASE GraceElapses
  BY <1>2, UntouchedStep DEF GraceElapses
<1>3. ASSUME NEW o \in Ops, DeferralElapses(o) \/ LeaseExpires(o)
      PROVE  Preserved
  BY <1>3, UntouchedStep DEF DeferralElapses, LeaseExpires
<1>4. ASSUME NEW n \in Nodes, NodeGoesStale(n)
      PROVE  Preserved
  BY <1>4, UntouchedStep DEF NodeGoesStale
<1> QED BY <1>1, <1>2, <1>3, <1>4, Zenon DEF Time

LEMMA AccessStep ==
  ASSUME Core, TypeOK', NEW n \in Nodes, NEW S, NEW c \in BOOLEAN, Detach(n, S), InvalidateIf(c, n)
  PROVE  Preserved
<1>1. \A e \in Endpoints : /\ endpoints'[e].status = endpoints[e].status
                           /\ endpoints'[e].generation = endpoints[e].generation
  BY DEF Core, Detach, TypeOK, EndpointRow
<1>2. CASE ~c
  BY <1>1, <1>2, UntouchedStep DEF InvalidateIf
<1>3. CASE c
  <2>1. operations' = [o \in Ops |->
          IF operations[o].node = n /\ operations[o].status = "running"
          THEN [operations[o] EXCEPT !.status = "stale"] ELSE operations[o]]
    BY <1>3 DEF InvalidateIf, InvalidateLeases
  <2>2. ASSUME NEW row \in OperationRow PROVE [row EXCEPT !.status = "stale"].status = "stale"
    BY DEF OperationRow
  <2>3. ASSUME NEW o \in Ops
        PROVE  \/ operations'[o] = operations[o]
               \/ operations[o].status = "running" /\ operations'[o].status = "stale"
    BY <2>1, <2>2 DEF Core, TypeOK
  <2>4. OutcomesStay
    BY <2>3 DEF OutcomesStay, TerminalStatus
  <2>5. \A o \in Ops : operations'[o].status \in ActiveStatus =>
          Active(o) /\ operations'[o] = operations[o]
    BY <2>3 DEF Active, ActiveStatus
  <2> QED BY <1>1, <2>4, <2>5, QuietStep
<1> QED BY <1>2, <1>3

LEMMA PlatformOwnerPreserves ==
  ASSUME Core, TypeOK', PlatformOwner
  PROVE  Preserved
<1>0. TypeOK
  BY DEF Core
<1>1. PICK n \in Nodes :
        \/ ShareNode(n) \/ UnshareNode(n) \/ grantSharedNode(n) \/ grantNode(n)
        \/ revokeNodeGrant(n) \/ revokeSharedNode(n) \/ deleteNode(n)
  BY DEF PlatformOwner
<1>2. nodes[n].granted \in BOOLEAN
  BY <1>0 DEF TypeOK, NodeRow
<1>3. CASE ShareNode(n) \/ grantSharedNode(n) \/ grantNode(n)
  BY <1>3, UntouchedStep DEF ShareNode, grantSharedNode, grantNode
<1>4. CASE UnshareNode(n)
  BY <1>4, AccessStep DEF UnshareNode
<1>5. CASE revokeNodeGrant(n)
  <2>1. InvalidateIf(TRUE, n) /\ Detach(n, {e \in Endpoints : Live(e)})
    BY <1>5 DEF revokeNodeGrant, InvalidateIf
  <2> QED BY <2>1, AccessStep
<1>6. CASE revokeSharedNode(n)
  BY <1>2, <1>6, AccessStep DEF revokeSharedNode
<1>7. CASE deleteNode(n)
  BY <1>7, AccessStep DEF deleteNode
<1> QED BY <1>1, <1>3, <1>4, <1>5, <1>6, <1>7

-----------------------------------------------------------------------------
(* Theorems *)

LEMMA CoreInitially == Init => Core
<1> SUFFICES ASSUME Init PROVE Core
  OBVIOUS
<1>1. \A o \in Ops : ~Active(o)
  BY DEF Init, NoOperation, Active, ActiveStatus
<1> QED BY <1>1, InitTyped DEF Core, OneActiveOperation, ActiveOperationIsCurrent

LEMMA CoreStep == Core /\ [Next]_vars => Core' /\ OutcomesStay
<1> SUFFICES ASSUME Core, [Next]_vars PROVE Core' /\ OutcomesStay
  OBVIOUS
<1>0. TypeOK /\ TypeOK'
  BY StepTyped DEF Core
<1> SUFFICES Preserved
  BY <1>0 DEF Preserved, Core
<1>1. CASE Requests
  BY <1>0, <1>1, RequestsPreserve
<1>2. CASE Worker
  BY <1>0, <1>2, WorkerRequestsPreserve, DispatchPreserves DEF Worker
<1>3. CASE Agents
  BY <1>0, <1>3, HeartbeatPreserves, ClaimPreserves, ReportsPreserve DEF Agents
<1>4. CASE Time
  BY <1>0, <1>4, TimePreserves
<1>5. CASE PlatformOwner
  BY <1>0, <1>5, PlatformOwnerPreserves
<1>6. CASE UNCHANGED vars
  BY <1>0, <1>6, UntouchedStep DEF vars
<1> QED BY <1>1, <1>2, <1>3, <1>4, <1>5, <1>6 DEF Next

\* The unique index operations_one_active never refuses an INSERT: whatever
\* users, the sweeps and superseding requests do, an endpoint has at most one
\* active operation.
THEOREM OneActiveOperationHolds == Spec => []OneActiveOperation
<1>1. Core => OneActiveOperation
  BY DEF Core
<1> QED BY <1>1, CoreInitially, CoreStep, PTL DEF Spec

\* The generation fences of processOne and recordAgentResult never strand an
\* operation: while it is active its endpoint is live and of its generation.
THEOREM ActiveOperationStaysCurrent == Spec => []ActiveOperationIsCurrent
<1>1. Core => ActiveOperationIsCurrent
  BY DEF Core
<1> QED BY <1>1, CoreInitially, CoreStep, PTL DEF Spec

\* No late result, takeover, withdrawal or sweep rewrites an outcome.
THEOREM OutcomeIsFinal == Spec => TerminalIsFinal
<1>1. Core /\ [Next]_vars =>
        [\A o \in Ops : operations[o].status \in TerminalStatus
           => operations'[o].status = operations[o].status]_vars
  BY CoreStep DEF OutcomesStay
<1> QED BY <1>1, CoreInitially, CoreStep, PTL DEF Spec, TerminalIsFinal

-----------------------------------------------------------------------------
(* Leases, events and claims: what keeps an agent's lease, the operation     *)
(* behind it, the event that dispatches it and the claims agents still hold  *)
(* in step.  None of those invariants is inductive by itself.  Books adds     *)
(* what ties the tables together: a row without an operation or with a queued *)
(* one names no node and has no command, a command that is still live agrees  *)
(* with its operation on node and epoch, and a node that may be withdrawn     *)
(* from the workspace is one that left its owner.                             *)

OpenEvent == {"pending", "deferred"}

\* A node in the shared pool left its owner, and only a pooled node is granted.
PoolBooks(n) ==
  /\ nodes[n].granted => nodes[n].pool = "enabled"
  /\ nodes[n].pool = "enabled" => ~nodes[n].owned

\* Sessions are retired by a later session only.
SessionBooks(n) ==
  /\ nodes[n].session \notin nodes[n].retired
  /\ nodes[n].session = None => nodes[n].retired = {}

\* A row that is unused or queued has no node and no command, and its event is
\* open exactly while it is queued.
EventBooks(o) ==
  /\ operations[o].status = "none" => operations[o].endpoint = None
  /\ operations[o].status \in {"none", "queued"} =>
       operations[o].node = None /\ commands[o].status = "none"
  /\ operations[o].status = "queued" <=> outbox[o] \in OpenEvent

DeletedBooks(o) ==
  operations[o].endpoint \in Endpoints /\ endpoints[operations[o].endpoint].status = "deleted"
    => /\ operations[o].status \in TerminalStatus
       /\ commands[o].status = "none"
       /\ outbox[o] = "none"

\* A live command is the command of its operation, in the operation's epoch.
\* A withdrawal ends operations and leases and leaves the queued commands: such
\* a command outlives its operation on a node that left its owner or is revoked.
CommandBooks(o) ==
  commands[o].status \in LiveCommand =>
    /\ commands[o].node \in Nodes
    /\ operations[o].node = commands[o].node
    /\ operations[o].epoch = commands[o].epoch
    /\ ~commands[o].resulted
    /\ \/ operations[o].status = "running"
       \/ /\ operations[o].status = "stale"
          /\ ~nodes[commands[o].node].owned \/ nodes[commands[o].node].revoked

\* A lease is one of the session that owns the node.
LeaseBooks(o) ==
  commands[o].status = "leased" =>
    /\ commands[o].epoch = nodes[commands[o].node].epoch
    /\ nodes[commands[o].node].session # None
    /\ operations[o].status = "running" \/ ~nodes[commands[o].node].owned

RunningBooks(o) ==
  operations[o].status = "running" =>
    /\ operations[o].node \in Nodes
    /\ commands[o].node = operations[o].node
    /\ \/ commands[o].status \in LiveCommand
       \/ commands[o].status = "stale" /\ ~nodes[operations[o].node].owned

RowBooks(o) ==
  /\ EventBooks(o)
  /\ DeletedBooks(o)
  /\ CommandBooks(o)
  /\ LeaseBooks(o)
  /\ RunningBooks(o)

\* A claim carries an epoch its node had while the claim's session owned it.
EpochBooks(m) ==
  /\ m.epoch <= nodes[m.node].epoch
  /\ m.session \in nodes[m.node].retired => m.epoch < nodes[m.node].epoch

\* The command of a running operation is not behind a claim handed out for it.
AttemptBooks(m) ==
  /\ operations[m.op].status \notin {"none", "queued"}
  /\ operations[m.op].status = "running" =>
       \/ m.id < commands[m.op].id
       \/ m.id = commands[m.op].id /\ m.attempt <= commands[m.op].attempts

Books ==
  /\ \A n \in Nodes : PoolBooks(n) /\ SessionBooks(n)
  /\ \A o \in Ops : RowBooks(o)
  /\ \A m \in claims : EpochBooks(m) /\ AttemptBooks(m)

-----------------------------------------------------------------------------
(* How a step moves a node *)

\* What a node gives away it does not get back.
OwnersStep ==
  \A n \in Nodes : /\ nodes'[n].owned => nodes[n].owned
                   /\ nodes[n].revoked => nodes'[n].revoked

\* No heartbeat gives the node to another session.
SeatKept(n) ==
  /\ nodes'[n].epoch = nodes[n].epoch
  /\ nodes'[n].session = nodes[n].session
  /\ nodes'[n].retired = nodes[n].retired

\* A session takes an epoch of its own; the one before it is retired.
SeatTaken(n) ==
  /\ nodes'[n].epoch = nodes[n].epoch + 1
  /\ nodes'[n].session # None
  /\ nodes'[n].session \notin nodes'[n].retired
  /\ nodes'[n].retired \subseteq nodes[n].retired \cup {nodes[n].session}

\* Only a step of the platform owner moves a grant.
GrantsKept == \A n \in Nodes : nodes'[n].granted = nodes[n].granted

NodesStep ==
  /\ OwnersStep
  /\ \A n \in Nodes : PoolBooks(n)' /\ (SeatKept(n) \/ SeatTaken(n))

\* A step that keeps who owns, pools and is granted a node, and its seat.
LEMMA NodesKept ==
  ASSUME \A n \in Nodes : PoolBooks(n),
         \A n \in Nodes : /\ SeatKept(n)
                          /\ nodes'[n].owned = nodes[n].owned
                          /\ nodes'[n].revoked = nodes[n].revoked
                          /\ nodes'[n].pool = nodes[n].pool
                          /\ nodes'[n].granted = nodes[n].granted
  PROVE  NodesStep /\ GrantsKept
  BY DEF NodesStep, OwnersStep, PoolBooks, GrantsKept

LEMMA NodesUntouched ==
  ASSUME \A n \in Nodes : PoolBooks(n), nodes' = nodes
  PROVE  NodesStep /\ GrantsKept
  BY NodesKept DEF SeatKept

\* Freshness and the advertised build are nobody's business here.
LEMMA NodesFresh ==
  ASSUME TypeOK, \A n \in Nodes : PoolBooks(n), NEW n \in Nodes, NEW t,
         nodes' = [nodes EXCEPT ![n].fresh = t]
  PROVE  NodesStep /\ GrantsKept
<1>1. nodes \in [Nodes -> NodeRow]
  BY DEF TypeOK
<1>2. \A x \in Nodes : /\ SeatKept(x)
                       /\ nodes'[x].owned = nodes[x].owned
                       /\ nodes'[x].revoked = nodes[x].revoked
                       /\ nodes'[x].pool = nodes[x].pool
                       /\ nodes'[x].granted = nodes[x].granted
  BY <1>1 DEF NodeRow, SeatKept
<1> QED BY <1>2, NodesKept

LEMMA NodesAdvertise ==
  ASSUME TypeOK, \A n \in Nodes : PoolBooks(n), NEW n \in Nodes, NEW b, AdvertiseBuild(n, b)
  PROVE  NodesStep /\ GrantsKept
<1>1. nodes \in [Nodes -> NodeRow]
  BY DEF TypeOK
<1>2. PICK r, a : nodes' = [nodes EXCEPT ![n].routing = r, ![n].artifact = a]
  BY DEF AdvertiseBuild
<1>3. \A x \in Nodes : /\ SeatKept(x)
                       /\ nodes'[x].owned = nodes[x].owned
                       /\ nodes'[x].revoked = nodes[x].revoked
                       /\ nodes'[x].pool = nodes[x].pool
                       /\ nodes'[x].granted = nodes[x].granted
  BY <1>1, <1>2 DEF NodeRow, SeatKept
<1> QED BY <1>3, NodesKept

LEMMA NodesHeartbeat ==
  ASSUME TypeOK, \A n \in Nodes : PoolBooks(n) /\ SessionBooks(n), NEW n \in Nodes, NEW R,
         \/ HeartbeatSame(n, R)
         \/ \E s \in Sessions : HeartbeatFirst(n, s, R) \/ HeartbeatTakeover(n, s, R)
  PROVE  NodesStep /\ GrantsKept
<1>1. nodes \in [Nodes -> NodeRow]
  BY DEF TypeOK
<1>2. CASE HeartbeatSame(n, R)
  BY <1>2, NodesFresh DEF HeartbeatSame
<1>3. ASSUME NEW s \in Sessions, HeartbeatFirst(n, s, R)
      PROVE  NodesStep /\ GrantsKept
  <2>1. nodes' = [nodes EXCEPT ![n].fresh = TRUE, ![n].epoch = @ + 1, ![n].session = s]
    BY <1>3 DEF HeartbeatFirst
  <2>2. nodes[n].retired = {} /\ s # None
    BY <1>3, NoneAssumption DEF HeartbeatFirst, SessionBooks
  <2>3. \A x \in Nodes : /\ nodes'[x].owned = nodes[x].owned
                         /\ nodes'[x].revoked = nodes[x].revoked
                         /\ nodes'[x].pool = nodes[x].pool
                         /\ nodes'[x].granted = nodes[x].granted
                         /\ nodes'[x].retired = nodes[x].retired
                         /\ x # n => nodes'[x] = nodes[x]
    BY <1>1, <2>1 DEF NodeRow
  <2>4. nodes'[n].epoch = nodes[n].epoch + 1 /\ nodes'[n].session = s
    BY <1>1, <2>1 DEF NodeRow
  <2>5. SeatTaken(n)
    BY <2>2, <2>3, <2>4 DEF SeatTaken
  <2>6. \A x \in Nodes : x # n => SeatKept(x)
    BY <2>3 DEF SeatKept
  <2> QED BY <2>3, <2>5, <2>6 DEF NodesStep, OwnersStep, PoolBooks, GrantsKept
<1>4. ASSUME NEW s \in Sessions, HeartbeatTakeover(n, s, R)
      PROVE  NodesStep /\ GrantsKept
  <2>1. nodes' = [nodes EXCEPT ![n].fresh = TRUE, ![n].epoch = @ + 1, ![n].session = s,
                               ![n].retired = @ \cup {nodes[n].session}]
    BY <1>4 DEF HeartbeatTakeover
  <2>2. s \notin nodes[n].retired \cup {nodes[n].session} /\ s # None
    BY <1>4, NoneAssumption DEF HeartbeatTakeover, MayTakeOver
  <2>3. \A x \in Nodes : /\ nodes'[x].owned = nodes[x].owned
                         /\ nodes'[x].revoked = nodes[x].revoked
                         /\ nodes'[x].pool = nodes[x].pool
                         /\ nodes'[x].granted = nodes[x].granted
                         /\ x # n => nodes'[x] = nodes[x]
    BY <1>1, <2>1 DEF NodeRow
  <2>4. /\ nodes'[n].epoch = nodes[n].epoch + 1 /\ nodes'[n].session = s
        /\ nodes'[n].retired = nodes[n].retired \cup {nodes[n].session}
    BY <1>1, <2>1 DEF NodeRow
  <2>5. SeatTaken(n)
    BY <2>2, <2>4 DEF SeatTaken
  <2>6. \A x \in Nodes : x # n => SeatKept(x)
    BY <2>3 DEF SeatKept
  <2> QED BY <2>3, <2>5, <2>6 DEF NodesStep, OwnersStep, PoolBooks, GrantsKept
<1> QED BY <1>2, <1>3, <1>4

\* Access moves away from the owner; a withdrawal takes the grant.
LEMMA NodesAccess ==
  ASSUME TypeOK, \A n \in Nodes : PoolBooks(n), NEW n \in Nodes,
         \/ ShareNode(n) \/ UnshareNode(n) \/ grantSharedNode(n) \/ grantNode(n)
         \/ revokeNodeGrant(n) \/ revokeSharedNode(n) \/ deleteNode(n)
  PROVE  NodesStep
<1>1. nodes \in [Nodes -> NodeRow]
  BY DEF TypeOK
<1>2. \A x \in Nodes : /\ SeatKept(x)
                       /\ x # n => nodes'[x] = nodes[x]
  BY <1>1 DEF NodeRow, SeatKept, ShareNode, UnshareNode, grantSharedNode, grantNode,
              revokeNodeGrant, revokeSharedNode, deleteNode
<1>3. PoolBooks(n)' /\ (nodes'[n].owned => nodes[n].owned) /\ (nodes[n].revoked => nodes'[n].revoked)
  BY <1>1 DEF NodeRow, PoolBooks, ShareNode, UnshareNode, grantSharedNode, grantNode,
              revokeNodeGrant, revokeSharedNode, deleteNode
<1> QED BY <1>2, <1>3 DEF NodesStep, OwnersStep, PoolBooks

-----------------------------------------------------------------------------
(* How a step moves the rows of an operation *)

\* What Books says of the claims of an operation survives the step.
ClaimsKept(o) ==
  operations[o].status \notin {"none", "queued"} =>
    /\ operations'[o].status \notin {"none", "queued"}
    /\ operations'[o].status = "running" =>
         /\ operations[o].status = "running"
         /\ \/ commands[o].id < commands'[o].id
            \/ commands[o].id = commands'[o].id /\ commands[o].attempts <= commands'[o].attempts

RowStep(o) == RowBooks(o)' /\ ClaimsKept(o)

\* The rows keep everything but the fields no book speaks of, the endpoint is
\* not deleted, and a lease keeps its seat.
RowKept(o) ==
  /\ operations'[o] = operations[o]
  /\ commands'[o].status = commands[o].status
  /\ commands'[o].node = commands[o].node
  /\ commands'[o].id = commands[o].id
  /\ commands'[o].epoch = commands[o].epoch
  /\ commands'[o].attempts = commands[o].attempts
  /\ commands'[o].resulted = commands[o].resulted
  /\ outbox'[o] = outbox[o] \/ {outbox[o], outbox'[o]} \subseteq OpenEvent
  /\ operations[o].endpoint \in Endpoints
     /\ endpoints'[operations[o].endpoint].status = "deleted"
       => endpoints[operations[o].endpoint].status = "deleted"
  /\ commands[o].status = "leased" =>
       \/ SeatKept(commands[o].node)
       \/ nodes[commands[o].node].session = None

LEMMA RowStays ==
  ASSUME TypeOK, NEW o \in Ops, RowBooks(o), RowKept(o), OwnersStep
  PROVE  RowStep(o)
<1>1. commands[o].id \in Nat /\ commands[o].attempts \in Nat
  BY DEF TypeOK, CommandRow
<1>2. ClaimsKept(o)
  BY <1>1 DEF RowKept, ClaimsKept
<1>3. EventBooks(o)'
  BY DEF RowBooks, RowKept, EventBooks
<1>4. DeletedBooks(o)'
  BY DEF RowBooks, RowKept, DeletedBooks, OpenEvent
<1>5. CommandBooks(o)'
  BY DEF RowBooks, RowKept, CommandBooks, OwnersStep
<1>6. LeaseBooks(o)'
  <2> SUFFICES ASSUME commands'[o].status = "leased" PROVE LeaseBooks(o)'
    BY DEF LeaseBooks
  <2>1. commands[o].status = "leased" /\ commands[o].node \in Nodes
    BY DEF RowBooks, RowKept, CommandBooks, LiveCommand
  <2> QED BY <2>1 DEF RowBooks, RowKept, LeaseBooks, SeatKept, OwnersStep
<1>7. RunningBooks(o)'
  BY DEF RowBooks, RowKept, RunningBooks, OwnersStep
<1> QED BY <1>2, <1>3, <1>4, <1>5, <1>6, <1>7 DEF RowStep, RowBooks

\* A row the step does not write, while no endpoint is deleted.
LEMMA RowSame ==
  ASSUME TypeOK, NEW o \in Ops, RowBooks(o), OwnersStep, \A n \in Nodes : SeatKept(n),
         operations'[o] = operations[o], commands'[o] = commands[o], outbox'[o] = outbox[o],
         operations[o].endpoint \in Endpoints
           /\ endpoints'[operations[o].endpoint].status = "deleted"
             => endpoints[operations[o].endpoint].status = "deleted"
  PROVE  RowStep(o)
<1>1. commands[o].status = "leased" => commands[o].node \in Nodes
  BY DEF RowBooks, CommandBooks, LiveCommand
<1>2. RowKept(o)
  BY <1>1 DEF RowKept
<1> QED BY <1>2, RowStays

\* A row whose operation is over, with no live command and no open event.
LEMMA RowOver ==
  ASSUME NEW o \in Ops,
         operations'[o].status \in TerminalStatus,
         commands'[o].status \notin LiveCommand,
         outbox'[o] \notin OpenEvent,
         operations'[o].endpoint \in Endpoints
           /\ endpoints'[operations'[o].endpoint].status = "deleted"
             => commands'[o].status = "none" /\ outbox'[o] = "none"
  PROVE  RowStep(o)
<1>1. operations'[o].status \notin {"none", "queued", "running"}
  BY DEF TerminalStatus
<1>2. ClaimsKept(o)
  BY <1>1 DEF ClaimsKept
<1>3. EventBooks(o)'
  BY <1>1 DEF EventBooks
<1>4. DeletedBooks(o)'
  BY DEF DeletedBooks
<1>5. CommandBooks(o)' /\ LeaseBooks(o)'
  BY DEF CommandBooks, LeaseBooks, LiveCommand
<1>6. RunningBooks(o)'
  BY <1>1 DEF RunningBooks
<1> QED BY <1>2, <1>3, <1>4, <1>5, <1>6 DEF RowStep, RowBooks

\* A closed command keeps what identifies it.
LEMMA StaleCommand ==
  ASSUME NEW c \in CommandRow
  PROVE  LET d == [c EXCEPT !.status = "stale", !.resulted = TRUE, !.expired = FALSE]
         IN  /\ d.status = "stale" /\ d.node = c.node /\ d.id = c.id
             /\ d.epoch = c.epoch /\ d.attempts = c.attempts
  BY DEF CommandRow

\* What Books and Core say of a row before the step.
LEMMA RowFacts ==
  ASSUME Core, NEW o \in Ops, RowBooks(o)
  PROVE  /\ commands[o].status \in LiveCommand =>
              operations[o].status \in {"running", "stale"}
         /\ operations[o].status \in ActiveStatus =>
              /\ operations[o].endpoint \in Endpoints
              /\ endpoints[operations[o].endpoint].status = "live"
         /\ operations[o].status # "queued" => outbox[o] \notin OpenEvent
         /\ outbox[o] \in OpenEvent => operations[o].status = "queued"
         /\ commands[o].status \in LiveCommand =>
              ~(operations[o].endpoint \in Endpoints
                /\ endpoints[operations[o].endpoint].status = "deleted")
<1>1. commands[o].status \in LiveCommand => operations[o].status \in {"running", "stale"}
  BY DEF RowBooks, CommandBooks
<1>2. operations[o].status \in ActiveStatus =>
        /\ operations[o].endpoint \in Endpoints
        /\ endpoints[operations[o].endpoint].status = "live"
  BY DEF Core, ActiveOperationIsCurrent, Active, Live
<1>3. commands[o].status \in LiveCommand =>
        ~(operations[o].endpoint \in Endpoints
          /\ endpoints[operations[o].endpoint].status = "deleted")
  BY DEF RowBooks, DeletedBooks, LiveCommand
<1> QED BY <1>1, <1>2, <1>3 DEF RowBooks, EventBooks

-----------------------------------------------------------------------------
(* New operations, and those they supersede *)

LEMMA InsertRows ==
  ASSUME Core, \A o \in Ops : RowBooks(o), nodes' = nodes,
         NEW S \in SUBSET Endpoints, NEW f \in Batches(S), NEW rows, NEW over,
         DOMAIN rows = DOMAIN f,
         \A o \in DOMAIN f : /\ rows[o].status = "queued"
                             /\ rows[o].endpoint = f[o]
                             /\ rows[o].node = None,
         InsertOperations(rows, over),
         \A e \in S : Live(e),
         \A e \in Endpoints : endpoints'[e].status = endpoints[e].status
  PROVE  \A o \in Ops : RowStep(o)
<1>0. /\ TypeOK
      /\ operations \in [Ops -> OperationRow] /\ commands \in [Ops -> CommandRow]
      /\ OwnersStep /\ \A n \in Nodes : SeatKept(n)
  BY DEF Core, TypeOK, OwnersStep, SeatKept
<1>1. ASSUME NEW o \in DOMAIN f
      PROVE  RowStep(o)
  <2>1. o \in Ops /\ f[o] \in Endpoints /\ operations[o].status = "none" /\ Live(f[o])
    BY BatchFacts
  <2>2. operations'[o] = rows[o] /\ outbox'[o] = "pending"
    BY <2>1 DEF InsertOperations
  <2>3. commands[o].status = "none"
    BY <2>1 DEF RowBooks, EventBooks
  <2>4. commands'[o] = commands[o]
    BY <2>1, <2>3 DEF InsertOperations, LiveCommand
  <2>5. ClaimsKept(o)
    BY <2>1 DEF ClaimsKept
  <2>6. EventBooks(o)'
    BY <2>2, <2>3, <2>4 DEF EventBooks, OpenEvent
  <2>7. DeletedBooks(o)'
    BY <2>1, <2>2 DEF DeletedBooks, Live
  <2>8. CommandBooks(o)' /\ LeaseBooks(o)'
    BY <2>3, <2>4 DEF CommandBooks, LeaseBooks, LiveCommand
  <2>9. RunningBooks(o)'
    BY <2>2 DEF RunningBooks
  <2> QED BY <2>1, <2>5, <2>6, <2>7, <2>8, <2>9 DEF RowStep, RowBooks
<1>2. ASSUME NEW o \in Ops, o \notin DOMAIN f
      PROVE  RowStep(o)
  <2> DEFINE hit == operations[o].endpoint \in over
  <2>1. operations'[o] = IF Active(o) /\ hit THEN [operations[o] EXCEPT !.status = "stale"]
                         ELSE operations[o]
    BY <1>2 DEF InsertOperations
  <2>2. outbox'[o] = IF Active(o) /\ hit THEN "processed" ELSE outbox[o]
    BY <1>2 DEF InsertOperations
  <2>3. commands'[o] =
          IF commands[o].status \in LiveCommand /\ hit
          THEN [commands[o] EXCEPT !.status = "stale", !.resulted = TRUE, !.expired = FALSE]
          ELSE commands[o]
    BY DEF InsertOperations
  <2> HIDE DEF hit
  <2>4. /\ commands'[o].status = IF commands[o].status \in LiveCommand /\ hit THEN "stale"
                                 ELSE commands[o].status
        /\ hit => commands'[o].status \notin LiveCommand
    BY <1>0, <2>3, StaleCommand DEF LiveCommand
  <2>5. CASE Active(o) /\ hit
    <3>1. operations'[o].status = "stale" /\ operations'[o].endpoint = operations[o].endpoint
      BY <1>0, <2>1, <2>5 DEF OperationRow
    <3>2. /\ operations[o].endpoint \in Endpoints
          /\ endpoints'[operations[o].endpoint].status = "live"
      BY <2>5, RowFacts DEF Active
    <3> QED BY <2>2, <2>4, <2>5, <3>1, <3>2, RowOver DEF TerminalStatus, OpenEvent
  <2>6. CASE ~Active(o) /\ hit /\ commands[o].status \in LiveCommand
    <3>1. operations'[o] = operations[o] /\ outbox'[o] = outbox[o]
      BY <2>1, <2>2, <2>6
    <3>2. operations[o].status = "stale"
      BY <2>6, RowFacts DEF Active, ActiveStatus
    <3>3. ~(operations[o].endpoint \in Endpoints
            /\ endpoints'[operations[o].endpoint].status = "deleted")
      BY <2>6, RowFacts
    <3>4. outbox[o] \notin OpenEvent
      BY <3>2, RowFacts
    <3> QED BY <2>4, <2>6, <3>1, <3>2, <3>3, <3>4, RowOver DEF TerminalStatus
  <2>7. CASE ~(Active(o) /\ hit) /\ ~(hit /\ commands[o].status \in LiveCommand)
    <3>1. /\ operations'[o] = operations[o] /\ outbox'[o] = outbox[o]
          /\ commands'[o] = commands[o]
      BY <2>1, <2>2, <2>3, <2>7
    <3> QED BY <1>0, <3>1, RowSame
  <2> QED BY <2>5, <2>6, <2>7
<1> QED BY <1>1, <1>2

-----------------------------------------------------------------------------
(* The worker *)

\* The one row a finalized deletion ends is the only active one of its endpoint.
LEMMA FinalizeRows ==
  ASSUME Core, \A o \in Ops : RowBooks(o), nodes' = nodes,
         NEW o \in Ops, Active(o), FinalizeDeletion(o)
  PROVE  \A p \in Ops : RowStep(p)
<1> DEFINE e == operations[o].endpoint
<1>0. /\ TypeOK
      /\ operations \in [Ops -> OperationRow] /\ endpoints \in [Endpoints -> EndpointRow]
      /\ e \in Endpoints
      /\ OwnersStep /\ \A n \in Nodes : SeatKept(n)
  BY DEF Core, TypeOK, OwnersStep, SeatKept, Active, ActiveStatus
<1>1. operations' = [operations EXCEPT ![o].status = "succeeded"]
  BY DEF FinalizeDeletion
<1>2. /\ operations'[o].status = "succeeded" /\ operations'[o].endpoint = e
      /\ \A p \in Ops : p # o => operations'[p] = operations[p]
  BY <1>0, <1>1 DEF OperationRow
<1>3. \A p \in Ops :
        /\ commands'[p] = IF operations[p].endpoint = e THEN NoCommand ELSE commands[p]
        /\ outbox'[p] = IF operations[p].endpoint = e THEN "none" ELSE outbox[p]
  BY DEF FinalizeDeletion
<1>4. endpoints' = [endpoints EXCEPT ![e].status = "deleted", ![e].desired = "stopped",
                                     ![e].telemetry = FALSE]
  BY DEF FinalizeDeletion
<1>5. NoCommand.status = "none"
  BY DEF NoCommand, FreshCommand
<1> HIDE DEF e
<1>6. \A x \in Endpoints : x # e => endpoints'[x] = endpoints[x]
  BY <1>0, <1>4
<1>7. ASSUME NEW p \in Ops, operations[p].endpoint = e
      PROVE  RowStep(p)
  <2>1. operations'[p].status \in TerminalStatus
    <3>1. CASE p = o
      BY <1>2, <3>1 DEF TerminalStatus
    <3>2. CASE p # o
      <4>1. ~Active(p)
        BY <1>7, <3>2 DEF Core, OneActiveOperation, e
      <4>2. operations[p].status # "none"
        BY <1>0, <1>7, NoneAssumption DEF RowBooks, EventBooks
      <4>3. operations[p].status \in {"none"} \cup ActiveStatus \cup TerminalStatus
        BY <1>0 DEF OperationRow
      <4> QED BY <1>2, <3>2, <4>1, <4>2, <4>3 DEF Active
    <3> QED BY <3>1, <3>2
  <2>2. commands'[p].status = "none" /\ outbox'[p] = "none"
    BY <1>3, <1>5, <1>7
  <2> QED BY <2>1, <2>2, RowOver DEF LiveCommand, OpenEvent
<1>8. ASSUME NEW p \in Ops, operations[p].endpoint # e
      PROVE  RowStep(p)
  <2>1. p # o
    BY <1>8 DEF e
  <2>2. /\ operations'[p] = operations[p] /\ commands'[p] = commands[p]
        /\ outbox'[p] = outbox[p]
    BY <1>2, <1>3, <1>8, <2>1
  <2> QED BY <1>0, <1>6, <1>8, <2>2, RowSame
<1> QED BY <1>7, <1>8

LEMMA DispatchRows ==
  ASSUME Core, \A o \in Ops : RowBooks(o), NEW o \in Ops, processOne(o)
  PROVE  \A p \in Ops : RowStep(p)
<1>0. /\ TypeOK
      /\ operations \in [Ops -> OperationRow] /\ commands \in [Ops -> CommandRow]
      /\ outbox \in [Ops -> {"none", "pending", "deferred", "processed"}]
  BY DEF Core, TypeOK
<1>1. nodes' = nodes /\ OwnersStep /\ \A n \in Nodes : SeatKept(n)
  BY DEF processOne, SettleEvent, DeferEvent, DispatchEvent, DeleteUnassigned, OwnersStep, SeatKept
<1>2. CASE SettleEvent(o)
  <2>1. outbox[o] = "pending" /\ operations[o].status = "queued"
    BY <1>2, RowFacts DEF SettleEvent, HeadEvent, OpenEvent
  <2>2. Verdict(o) # "settled"
    BY <2>1 DEF Verdict
  <2>3. Verdict(o) \in TerminalStatus
    BY <1>2, <2>2 DEF SettleEvent
  <2> DEFINE v == Verdict(o)
  <2>4. operations' = [operations EXCEPT ![o].status = v]
    BY <1>2, <2>2 DEF SettleEvent
  <2>5. /\ outbox' = [outbox EXCEPT ![o] = "processed"]
        /\ commands' = commands /\ endpoints' = endpoints
    BY <1>2 DEF SettleEvent
  <2>6. commands[o].status = "none"
    BY <2>1 DEF RowBooks, EventBooks
  <2> HIDE DEF v
  <2>7. /\ operations'[o].status = v /\ operations'[o].endpoint = operations[o].endpoint
        /\ outbox'[o] = "processed"
        /\ \A p \in Ops : p # o => operations'[p] = operations[p] /\ outbox'[p] = outbox[p]
    BY <1>0, <2>4, <2>5 DEF OperationRow
  <2>8. endpoints[operations[o].endpoint].status = "live"
    BY <2>1, RowFacts DEF ActiveStatus
  <2>9. RowStep(o)
    BY <2>3, <2>5, <2>6, <2>7, <2>8, RowOver DEF v, LiveCommand, OpenEvent
  <2>10. \A p \in Ops : p # o => RowStep(p)
    BY <1>0, <1>1, <2>5, <2>7, RowSame
  <2> QED BY <2>9, <2>10
<1>3. CASE DeferEvent(o)
  <2>1. /\ outbox' = [outbox EXCEPT ![o] = "deferred"] /\ outbox[o] = "pending"
        /\ operations' = operations /\ commands' = commands /\ endpoints' = endpoints
    BY <1>3 DEF DeferEvent, HeadEvent
  <2>2. ASSUME NEW p \in Ops PROVE RowKept(p)
    <3>1. outbox'[p] = outbox[p] \/ {outbox[p], outbox'[p]} \subseteq OpenEvent
      BY <1>0, <2>1 DEF OpenEvent
    <3>2. commands[p].status = "leased" => commands[p].node \in Nodes
      BY DEF RowBooks, CommandBooks, LiveCommand
    <3> QED BY <1>1, <2>1, <3>1, <3>2 DEF RowKept
  <2> QED BY <1>0, <1>1, <2>2, RowStays
<1>4. CASE DispatchEvent(o)
  <2> DEFINE n == NodeOf(o)
             k == nodes[n].epoch
  <2>1. outbox[o] = "pending" /\ operations[o].status = "queued"
    BY <1>4, RowFacts DEF DispatchEvent, HeadEvent, OpenEvent
  <2>2. commands[o].status = "none"
    BY <2>1 DEF RowBooks, EventBooks
  <2>3. commands' = [commands EXCEPT ![o] = FreshCommand("queued", n, k, 0, clock + 1)]
    BY <1>4, <2>2 DEF DispatchEvent
  <2>4. /\ operations' = [operations EXCEPT ![o].status = "running", ![o].node = n, ![o].epoch = k]
        /\ outbox' = [outbox EXCEPT ![o] = "processed"] /\ endpoints' = endpoints
    BY <1>4 DEF DispatchEvent
  <2>5. /\ operations[o].endpoint \in Endpoints
        /\ endpoints[operations[o].endpoint].status = "live"
    BY <2>1, RowFacts DEF ActiveStatus
  <2>6. n \in Nodes
    <3>1. Verdict(o) = "dispatched"
      BY <1>4 DEF DispatchEvent
    <3>2. n # None
      BY <3>1 DEF Verdict
    <3> QED BY <1>0, <2>5, <3>2 DEF TypeOK, EndpointRow, NodeOf
  <2> HIDE DEF n, k
  <2>7. /\ commands'[o].status = "queued" /\ commands'[o].node = n
        /\ commands'[o].epoch = k /\ ~commands'[o].resulted
        /\ \A p \in Ops : p # o => commands'[p] = commands[p]
    BY <1>0, <2>3 DEF FreshCommand
  <2>8. /\ operations'[o].status = "running" /\ operations'[o].node = n
        /\ operations'[o].epoch = k /\ operations'[o].endpoint = operations[o].endpoint
        /\ \A p \in Ops : p # o => operations'[p] = operations[p]
    BY <1>0, <2>4 DEF OperationRow
  <2>9. /\ outbox'[o] = "processed"
        /\ \A p \in Ops : p # o => outbox'[p] = outbox[p]
    BY <1>0, <2>4
  <2>10. RowStep(o)
    <3>1. ClaimsKept(o)
      BY <2>1 DEF ClaimsKept
    <3>2. EventBooks(o)' /\ DeletedBooks(o)'
      BY <2>4, <2>5, <2>8, <2>9 DEF EventBooks, DeletedBooks, OpenEvent
    <3>3. CommandBooks(o)' /\ LeaseBooks(o)' /\ RunningBooks(o)'
      BY <2>6, <2>7, <2>8 DEF CommandBooks, LeaseBooks, RunningBooks, LiveCommand
    <3> QED BY <3>1, <3>2, <3>3 DEF RowStep, RowBooks
  <2>11. \A p \in Ops : p # o => RowStep(p)
    BY <1>0, <1>1, <2>4, <2>7, <2>8, <2>9, RowSame
  <2> QED BY <2>10, <2>11
<1>5. CASE DeleteUnassigned(o)
  <2>1. Active(o)
    BY <1>5, RowFacts DEF DeleteUnassigned, HeadEvent, OpenEvent, Active, ActiveStatus
  <2> QED BY <1>1, <1>5, <2>1, FinalizeRows DEF DeleteUnassigned
<1> QED BY <1>2, <1>3, <1>4, <1>5 DEF processOne

-----------------------------------------------------------------------------
(* Agents *)

\* A takeover closes the commands of the epoch that ended, restages the
\* deletions among them, and leaves every other row alone.
LEMMA TakeoverRows ==
  ASSUME Core, \A o \in Ops : RowBooks(o), NodesStep,
         NEW n \in Nodes, NEW s \in Sessions, NEW R, HeartbeatTakeover(n, s, R)
  PROVE  \A o \in Ops : RowStep(o)
<1> DEFINE old == nodes[n].epoch
<1>0. /\ TypeOK /\ OwnersStep
      /\ nodes \in [Nodes -> NodeRow]
      /\ operations \in [Ops -> OperationRow] /\ commands \in [Ops -> CommandRow]
      /\ n # None
  BY NoneAssumption DEF Core, TypeOK, NodesStep
<1>1. /\ \A e \in Endpoints : endpoints'[e].status = endpoints[e].status
      /\ outbox' = outbox
  BY <1>0, ReportsKeepEndpoints DEF HeartbeatTakeover
<1>2. \A x \in Nodes : x # n => nodes'[x] = nodes[x]
  BY <1>0 DEF HeartbeatTakeover
<1> SUFFICES ASSUME NEW o \in Ops PROVE RowStep(o)
  OBVIOUS
<1> DEFINE H == operations[o].node = n /\ operations[o].epoch = old /\ Active(o)
           L == /\ commands[o].node = n /\ commands[o].epoch = old
                /\ commands[o].status \in LiveCommand
           Z == operations[o].action = "delete" /\ Active(o)
           C == [commands[o] EXCEPT !.status = "stale", !.resulted = TRUE, !.expired = FALSE]
<1>3. commands'[o] = IF ~L THEN commands[o] ELSE IF Z THEN Restage(commands[o]) ELSE C
  BY DEF HeartbeatTakeover
<1>4. operations'[o] = IF ~H THEN operations[o]
                       ELSE IF Z
                       THEN [operations[o] EXCEPT !.status = "running", !.epoch = old + 1]
                       ELSE [operations[o] EXCEPT !.status = "failed"]
  BY DEF HeartbeatTakeover
<1>5. C.status = "stale"
  BY <1>0, StaleCommand
<1>6. H => /\ commands[o].status \in LiveCommand => L
           /\ operations[o].status = "running"
           /\ outbox[o] \notin OpenEvent
           /\ operations[o].endpoint \in Endpoints
           /\ endpoints[operations[o].endpoint].status = "live"
  <2> SUFFICES ASSUME H PROVE /\ commands[o].status \in LiveCommand => L
                              /\ operations[o].status = "running"
    BY RowFacts DEF Active
  <2>1. operations[o].status = "running"
    BY <1>0 DEF RowBooks, EventBooks, Active, ActiveStatus
  <2> QED BY <2>1 DEF RowBooks, CommandBooks
<1>7. L /\ ~H => operations[o].status = "stale"
  BY DEF RowBooks, CommandBooks, Active, ActiveStatus
<1>8. L => Z \/ commands'[o].status = "stale"
  BY <1>3, <1>5
<1>9. H /\ Z => /\ operations'[o].status = "running" /\ operations'[o].node = n
                /\ operations'[o].epoch = old + 1
                /\ operations'[o].endpoint = operations[o].endpoint
  BY <1>0, <1>4 DEF OperationRow
<1>10. H /\ ~Z => operations'[o].status = "failed" /\ operations'[o].endpoint = operations[o].endpoint
  BY <1>0, <1>4 DEF OperationRow
<1>11. L /\ Z => /\ commands'[o].status = "queued" /\ commands'[o].node = n
                 /\ commands'[o].epoch = old + 1 /\ ~commands'[o].resulted
                 /\ commands'[o].id = commands[o].id + 1
  BY <1>3 DEF Restage, FreshCommand
<1>12. commands[o].id \in Nat /\ commands[o].attempts \in Nat
  BY <1>0 DEF CommandRow
<1>13. Z => Active(o)
  OBVIOUS
<1>14. H => operations[o].node = n
  OBVIOUS
<1>15. commands[o].status = "leased" /\ commands[o].node = n => L
  BY DEF RowBooks, LeaseBooks, LiveCommand
<1>16. ~L => commands'[o] = commands[o]
  BY <1>3
<1>17. ~H => operations'[o] = operations[o]
  BY <1>4
<1> HIDE DEF old, H, L, Z, C
<1>18. CASE H /\ ~Z
  <2>1. commands'[o].status \notin LiveCommand
    BY <1>6, <1>8, <1>16, <1>18 DEF LiveCommand
  <2> QED BY <1>1, <1>6, <1>10, <1>18, <2>1, RowOver DEF TerminalStatus
<1>19. CASE H /\ Z /\ L
  <2>1. ClaimsKept(o)
    BY <1>6, <1>11, <1>12, <1>9, <1>19 DEF ClaimsKept
  <2>2. EventBooks(o)' /\ DeletedBooks(o)'
    BY <1>1, <1>6, <1>9, <1>19 DEF EventBooks, DeletedBooks
  <2>3. CommandBooks(o)' /\ LeaseBooks(o)' /\ RunningBooks(o)'
    BY <1>9, <1>11, <1>19 DEF CommandBooks, LeaseBooks, RunningBooks, LiveCommand
  <2> QED BY <2>1, <2>2, <2>3 DEF RowStep, RowBooks
<1>20. CASE H /\ Z /\ ~L
  <2>1. /\ commands[o].status = "stale" /\ commands[o].node = n
        /\ ~nodes[n].owned
    BY <1>6, <1>14, <1>20 DEF RowBooks, RunningBooks
  <2>2. commands'[o] = commands[o] /\ ~nodes'[n].owned
    BY <1>0, <1>16, <1>20, <2>1 DEF OwnersStep
  <2>3. ClaimsKept(o)
    BY <1>6, <1>12, <1>9, <1>20, <2>2 DEF ClaimsKept
  <2>4. EventBooks(o)' /\ DeletedBooks(o)'
    BY <1>1, <1>6, <1>9, <1>20 DEF EventBooks, DeletedBooks
  <2>5. CommandBooks(o)' /\ LeaseBooks(o)' /\ RunningBooks(o)'
    BY <1>9, <1>20, <2>1, <2>2 DEF CommandBooks, LeaseBooks, RunningBooks, LiveCommand
  <2> QED BY <2>3, <2>4, <2>5 DEF RowStep, RowBooks
<1>21. CASE ~H /\ L
  <2>1. operations'[o] = operations[o] /\ operations[o].status = "stale"
    BY <1>7, <1>17, <1>21
  <2>2. commands'[o].status = "stale"
    BY <1>8, <1>13, <1>21, <2>1 DEF Active, ActiveStatus
  <2>3. ~(operations[o].endpoint \in Endpoints
          /\ endpoints[operations[o].endpoint].status = "deleted")
    BY <1>21, RowFacts DEF L
  <2>4. outbox[o] \notin OpenEvent
    BY <2>1, RowFacts
  <2> QED BY <1>1, <2>1, <2>2, <2>3, <2>4, RowOver DEF TerminalStatus, LiveCommand
<1>22. CASE ~H /\ ~L
  <2>1. commands'[o] = commands[o] /\ operations'[o] = operations[o]
    BY <1>16, <1>17, <1>22
  <2>2. commands[o].status = "leased" => commands[o].node \in Nodes
    BY DEF RowBooks, CommandBooks, LiveCommand
  <2>3. commands[o].status = "leased" => SeatKept(commands[o].node)
    BY <1>2, <1>15, <1>22, <2>2 DEF SeatKept
  <2>4. RowKept(o)
    BY <1>1, <2>1, <2>3 DEF RowKept
  <2> QED BY <1>0, <2>4, RowStays
<1> QED BY <1>18, <1>19, <1>20, <1>21, <1>22

LEMMA HeartbeatRows ==
  ASSUME Core, \A o \in Ops : RowBooks(o), NodesStep, NEW n \in Nodes, NEW R,
         \/ HeartbeatSame(n, R)
         \/ \E s \in Sessions : HeartbeatFirst(n, s, R) \/ HeartbeatTakeover(n, s, R)
  PROVE  \A o \in Ops : RowStep(o)
<1>0. /\ TypeOK /\ OwnersStep /\ nodes \in [Nodes -> NodeRow]
      /\ \A o \in Ops : commands[o].status = "leased" => commands[o].node \in Nodes
  BY DEF Core, TypeOK, NodesStep, RowBooks, CommandBooks, LiveCommand
<1>1. ASSUME NEW s \in Sessions, HeartbeatTakeover(n, s, R)
      PROVE  \A o \in Ops : RowStep(o)
  BY <1>1, TakeoverRows
<1>2. ASSUME HeartbeatSame(n, R) \/ \E s \in Sessions : HeartbeatFirst(n, s, R)
      PROVE  \A o \in Ops : RowStep(o)
  <2>1. /\ \A e \in Endpoints : endpoints'[e].status = endpoints[e].status
        /\ operations' = operations /\ commands' = commands /\ outbox' = outbox
    BY <1>0, <1>2, ReportsKeepEndpoints DEF HeartbeatSame, HeartbeatFirst
  <2>2. \A x \in Nodes : SeatKept(x) \/ nodes[x].session = None
    BY <1>0, <1>2 DEF HeartbeatSame, HeartbeatFirst, SeatKept, NodeRow
  <2>3. \A o \in Ops : RowKept(o)
    BY <1>0, <2>1, <2>2 DEF RowKept
  <2> QED BY <1>0, <2>3, RowStays
<1> QED BY <1>1, <1>2

LEMMA AdvertiseSeats ==
  ASSUME TypeOK, NEW n \in Nodes, NEW b, AdvertiseBuild(n, b)
  PROVE  /\ OwnersStep /\ \A x \in Nodes : SeatKept(x)
         /\ \A x \in Nodes : nodes'[x].owned = nodes[x].owned
<1>1. nodes \in [Nodes -> NodeRow]
  BY DEF TypeOK
<1>2. PICK r, a : nodes' = [nodes EXCEPT ![n].routing = r, ![n].artifact = a]
  BY DEF AdvertiseBuild
<1> QED BY <1>1, <1>2 DEF NodeRow, SeatKept, OwnersStep

\* What a claim finds in the row it works on.
LEMMA ClaimableFacts ==
  ASSUME Core, NEW n \in Nodes, NEW o \in Ops, RowBooks(o), Oldest(o, Claimable(n))
  PROVE  /\ commands[o].status \in LiveCommand
         /\ commands[o].node = n /\ operations[o].node = n
         /\ commands[o].epoch = nodes[n].epoch /\ operations[o].epoch = commands[o].epoch
         /\ ~commands[o].resulted
         /\ operations[o].status \in {"running", "stale"}
         /\ operations[o].status = "stale" => ~nodes[n].owned \/ nodes[n].revoked
         /\ outbox[o] \notin OpenEvent
         /\ ~(operations[o].endpoint \in Endpoints
              /\ endpoints[operations[o].endpoint].status = "deleted")
<1>1. /\ commands[o].status \in LiveCommand
      /\ commands[o].node = n /\ commands[o].epoch = nodes[n].epoch
  BY DEF Oldest, Claimable, LiveCommand
<1>2. /\ operations[o].node = n /\ operations[o].epoch = commands[o].epoch
      /\ ~commands[o].resulted
      /\ operations[o].status \in {"running", "stale"}
      /\ operations[o].status = "stale" => ~nodes[n].owned \/ nodes[n].revoked
  BY <1>1 DEF RowBooks, CommandBooks
<1> QED BY <1>1, <1>2, RowFacts

LEMMA ClaimRows ==
  ASSUME Core, \A o \in Ops : RowBooks(o), NEW n \in Nodes, NEW b, claimAgentCommand(n, b)
  PROVE  \A o \in Ops : RowStep(o)
<1>0. /\ TypeOK
      /\ operations \in [Ops -> OperationRow] /\ commands \in [Ops -> CommandRow]
  BY DEF Core, TypeOK
<1>1. /\ OwnersStep /\ \A x \in Nodes : SeatKept(x)
      /\ \A x \in Nodes : nodes'[x].owned = nodes[x].owned
      /\ endpoints' = endpoints /\ outbox' = outbox
  <2>1. AdvertiseBuild(n, b)
    BY DEF claimAgentCommand, ClaimNothing, ClaimLease, ClaimCancelled, ClaimExhausted
  <2> QED BY <1>0, <2>1, AdvertiseSeats
          DEF claimAgentCommand, ClaimNothing, ClaimLease, ClaimCancelled, ClaimExhausted
<1>2. CASE ClaimNothing(n, b)
  BY <1>0, <1>1, <1>2, RowSame DEF ClaimNothing
<1>3. ASSUME NEW o \in Ops, ClaimLease(n, b, o)
      PROVE  \A p \in Ops : RowStep(p)
  <2>1. commands' = [commands EXCEPT ![o].status = "leased", ![o].attempts = @ + 1,
                                     ![o].expired = FALSE, ![o].sequence = 0]
    BY <1>3 DEF ClaimLease
  <2>2. /\ commands'[o].status = "leased" /\ commands'[o].attempts = commands[o].attempts + 1
        /\ commands'[o].node = commands[o].node /\ commands'[o].epoch = commands[o].epoch
        /\ commands'[o].id = commands[o].id /\ commands'[o].resulted = commands[o].resulted
        /\ \A p \in Ops : p # o => commands'[p] = commands[p]
    BY <1>0, <2>1 DEF CommandRow
  <2>3. operations' = operations
    BY <1>3 DEF ClaimLease
  <2>4. Oldest(o, Claimable(n)) /\ nodes[n].session # None /\ ~nodes[n].revoked
    BY <1>3 DEF ClaimLease, Connected
  <2>5. commands[o].id \in Nat /\ commands[o].attempts \in Nat
    BY <1>0 DEF CommandRow
  <2>6. RowStep(o)
    <3>1. ClaimsKept(o)
      BY <2>2, <2>3, <2>5 DEF ClaimsKept
    <3>2. EventBooks(o)' /\ DeletedBooks(o)'
      BY <1>1, <2>3, <2>4, ClaimableFacts DEF EventBooks, DeletedBooks
    <3>3. CommandBooks(o)' /\ RunningBooks(o)'
      BY <1>1, <2>2, <2>3, <2>4, ClaimableFacts
         DEF CommandBooks, RunningBooks, LiveCommand, OwnersStep
    <3>4. LeaseBooks(o)'
      BY <1>1, <2>2, <2>3, <2>4, ClaimableFacts DEF LeaseBooks, SeatKept
    <3> QED BY <3>1, <3>2, <3>3, <3>4 DEF RowStep, RowBooks
  <2> QED BY <1>0, <1>1, <2>2, <2>3, <2>6, RowSame
<1>4. ASSUME NEW o \in Ops, ClaimCancelled(n, b, o)
      PROVE  \A p \in Ops : RowStep(p)
  <2>1. commands' = [commands EXCEPT ![o].status = "stale", ![o].attempts = @ + 1,
                                     ![o].resulted = TRUE]
    BY <1>4 DEF ClaimCancelled
  <2>2. /\ commands'[o].status = "stale" /\ commands'[o].attempts = commands[o].attempts + 1
        /\ commands'[o].node = commands[o].node /\ commands'[o].id = commands[o].id
        /\ \A p \in Ops : p # o => commands'[p] = commands[p]
    BY <1>0, <2>1 DEF CommandRow
  <2>3. operations' = operations
    BY <1>4 DEF ClaimCancelled
  <2>4. Oldest(o, Claimable(n)) /\ ~nodes[n].owned
    BY <1>4 DEF ClaimCancelled, Connected, Authorized
  <2>5. commands[o].id \in Nat /\ commands[o].attempts \in Nat
    BY <1>0 DEF CommandRow
  <2>6. RowStep(o)
    <3>1. ClaimsKept(o)
      BY <2>2, <2>3, <2>5 DEF ClaimsKept
    <3>2. EventBooks(o)' /\ DeletedBooks(o)'
      BY <1>1, <2>3, <2>4, ClaimableFacts DEF EventBooks, DeletedBooks
    <3>3. CommandBooks(o)' /\ LeaseBooks(o)'
      BY <2>2 DEF CommandBooks, LeaseBooks, LiveCommand
    <3>4. RunningBooks(o)'
      BY <1>1, <2>2, <2>3, <2>4, ClaimableFacts DEF RunningBooks
    <3> QED BY <3>1, <3>2, <3>3, <3>4 DEF RowStep, RowBooks
  <2> QED BY <1>0, <1>1, <2>2, <2>3, <2>6, RowSame
<1>5. ASSUME NEW o \in Ops, ClaimExhausted(n, b, o)
      PROVE  \A p \in Ops : RowStep(p)
  <2> DEFINE status == IF operations[o].status = "running" THEN "failed" ELSE operations[o].status
  <2>1. /\ operations' = [operations EXCEPT ![o].status = status]
        /\ commands' = [commands EXCEPT ![o].status = "failed", ![o].resulted = TRUE,
                                        ![o].expired = FALSE]
        /\ Oldest(o, Claimable(n))
    BY <1>5 DEF ClaimExhausted
  <2>2. status \in {"failed", "stale"}
    BY <2>1, ClaimableFacts
  <2> HIDE DEF status
  <2>3. /\ commands'[o].status = "failed" /\ operations'[o].status = status
        /\ operations'[o].endpoint = operations[o].endpoint
        /\ \A p \in Ops : p # o => /\ commands'[p] = commands[p]
                                   /\ operations'[p] = operations[p]
    BY <1>0, <2>1 DEF CommandRow, OperationRow
  <2>4. /\ outbox[o] \notin OpenEvent
        /\ ~(operations[o].endpoint \in Endpoints
             /\ endpoints[operations[o].endpoint].status = "deleted")
    BY <2>1, ClaimableFacts
  <2>5. RowStep(o)
    BY <1>1, <2>2, <2>3, <2>4, RowOver DEF TerminalStatus, LiveCommand
  <2> QED BY <1>0, <1>1, <2>3, <2>5, RowSame
<1> QED BY <1>2, <1>3, <1>4, <1>5 DEF claimAgentCommand

\* A step that changes of the commands what no book speaks of.
LEMMA CommandDetails ==
  ASSUME Core, \A o \in Ops : RowBooks(o), OwnersStep, \A n \in Nodes : SeatKept(n),
         operations' = operations, outbox' = outbox,
         \A e \in Endpoints : endpoints'[e].status = endpoints[e].status
                              \/ endpoints'[e].status # "deleted",
         \A o \in Ops : /\ commands'[o].status = commands[o].status
                        /\ commands'[o].node = commands[o].node
                        /\ commands'[o].id = commands[o].id
                        /\ commands'[o].epoch = commands[o].epoch
                        /\ commands'[o].attempts = commands[o].attempts
                        /\ commands'[o].resulted = commands[o].resulted
  PROVE  \A o \in Ops : RowStep(o)
<1>1. \A o \in Ops : commands[o].status = "leased" => commands[o].node \in Nodes
  BY DEF RowBooks, CommandBooks, LiveCommand
<1>2. \A o \in Ops : RowKept(o)
  BY <1>1 DEF RowKept
<1> QED BY <1>2, RowStays DEF Core

LEMMA ReportRows ==
  ASSUME Core, \A o \in Ops : RowBooks(o), NodesStep, NEW m \in claims,
         \/ recordAgentReceipt(m)
         \/ \E q \in 1..MaxSequence : recordAgentProgress(m, q)
         \/ recordAgentResult(m)
  PROVE  \A o \in Ops : RowStep(o)
<1>0. /\ TypeOK /\ m.op \in Ops /\ m.node \in Nodes /\ OwnersStep
      /\ operations \in [Ops -> OperationRow] /\ commands \in [Ops -> CommandRow]
      /\ nodes \in [Nodes -> NodeRow]
  BY DEF Core, TypeOK, Claim, NodesStep
<1>1. ASSUME \/ recordAgentReceipt(m) \/ ResultUnknown(m)
             \/ \E q \in 1..MaxSequence : recordAgentProgress(m, q)
      PROVE  \A o \in Ops : RowStep(o)
  <2>1. operations' = operations /\ outbox' = outbox /\ endpoints' = endpoints
    BY <1>1 DEF recordAgentReceipt, ResultUnknown, recordAgentProgress
  <2>2. \A n \in Nodes : SeatKept(n)
    <3>1. CASE nodes' = nodes
      BY <3>1 DEF SeatKept
    <3>2. CASE nodes' = [nodes EXCEPT ![m.node].fresh = TRUE]
      BY <1>0, <3>2 DEF SeatKept, NodeRow
    <3> QED BY <1>1, <3>1, <3>2 DEF recordAgentReceipt, ResultUnknown, recordAgentProgress
  <2>3. \/ commands' = [commands EXCEPT ![m.op].receipt = TRUE]
        \/ commands' = [commands EXCEPT ![m.op].expired = TRUE, ![m.op].sequence = 0]
        \/ \E q : commands' = [commands EXCEPT ![m.op].sequence = q, ![m.op].expired = FALSE]
    BY <1>1 DEF recordAgentReceipt, ResultUnknown, recordAgentProgress
  <2>4. \A o \in Ops : /\ commands'[o].status = commands[o].status
                       /\ commands'[o].node = commands[o].node
                       /\ commands'[o].id = commands[o].id
                       /\ commands'[o].epoch = commands[o].epoch
                       /\ commands'[o].attempts = commands[o].attempts
                       /\ commands'[o].resulted = commands[o].resulted
    <3>1. CASE commands' = [commands EXCEPT ![m.op].receipt = TRUE]
      BY <1>0, <3>1 DEF CommandRow
    <3>2. CASE commands' = [commands EXCEPT ![m.op].expired = TRUE, ![m.op].sequence = 0]
      BY <1>0, <3>2 DEF CommandRow
    <3>3. ASSUME NEW q, commands' = [commands EXCEPT ![m.op].sequence = q, ![m.op].expired = FALSE]
          PROVE  \A o \in Ops : /\ commands'[o].status = commands[o].status
                                /\ commands'[o].node = commands[o].node
                                /\ commands'[o].id = commands[o].id
                                /\ commands'[o].epoch = commands[o].epoch
                                /\ commands'[o].attempts = commands[o].attempts
                                /\ commands'[o].resulted = commands[o].resulted
      BY <1>0, <3>3 DEF CommandRow
    <3> QED BY <2>3, <3>1, <3>2, <3>3
  <2> QED BY <1>0, <2>1, <2>2, <2>4, CommandDetails
<1>2. ASSUME NEW outcome \in {"succeeded", "failed"}, ResultFinal(m, outcome)
      PROVE  \A o \in Ops : RowStep(o)
  <2>1. /\ operations' = [operations EXCEPT ![m.op].status = outcome]
        /\ commands' = [commands EXCEPT ![m.op].status = outcome, ![m.op].resulted = TRUE,
                                        ![m.op].expired = FALSE]
        /\ endpoints' = endpoints /\ outbox' = outbox /\ nodes' = nodes
    BY <1>2 DEF ResultFinal
  <2>2. operations[m.op].status = "running"
    BY <1>0, <1>2, ResultFacts DEF ResultFinal
  <2>3. /\ commands'[m.op].status = outcome /\ operations'[m.op].status = outcome
        /\ operations'[m.op].endpoint = operations[m.op].endpoint
        /\ \A p \in Ops : p # m.op => /\ commands'[p] = commands[p]
                                      /\ operations'[p] = operations[p]
    BY <1>0, <2>1 DEF CommandRow, OperationRow
  <2>4. endpoints[operations[m.op].endpoint].status = "live" /\ outbox[m.op] \notin OpenEvent
    BY <1>0, <2>2, RowFacts DEF ActiveStatus
  <2>5. RowStep(m.op)
    BY <1>0, <2>1, <2>3, <2>4, RowOver DEF TerminalStatus, LiveCommand
  <2>6. \A n \in Nodes : SeatKept(n)
    BY <2>1 DEF SeatKept
  <2> QED BY <1>0, <2>1, <2>3, <2>5, <2>6, RowSame
<1>3. CASE ResultDeleted(m)
  <2>1. Active(m.op) /\ FinalizeDeletion(m.op) /\ nodes' = nodes
    BY <1>0, <1>3, ResultFacts DEF ResultDeleted, Active, ActiveStatus
  <2> QED BY <1>0, <2>1, FinalizeRows
<1> QED BY <1>1, <1>2, <1>3 DEF recordAgentResult

-----------------------------------------------------------------------------
(* Requests, time and the platform owner *)

LEMMA RequestRows ==
  ASSUME Core, \A o \in Ops : RowBooks(o), Requests
  PROVE  \A o \in Ops : RowStep(o)
<1>0. /\ nodes' = nodes /\ OwnersStep /\ \A n \in Nodes : SeatKept(n)
      /\ endpoints \in [Endpoints -> EndpointRow]
  BY DEF Requests, createEndpoint, mutateEndpoint, setWorkspaceExpiry, OwnersStep, SeatKept,
         Core, TypeOK
<1>1. ASSUME NEW e \in Endpoints, NEW n \in Nodes \cup {None}, createEndpoint(e, n)
      PROVE  \A o \in Ops : RowStep(o)
  <2>1. \A x \in Endpoints : endpoints'[x].status = endpoints[x].status
                             \/ endpoints'[x].status # "deleted"
    BY <1>0, <1>1 DEF createEndpoint, EndpointRow
  <2> QED BY <1>0, <1>1, <2>1, CommandDetails DEF createEndpoint
<1>2. ASSUME NEW e \in Endpoints, NEW action \in UserActions, mutateEndpoint(e, action)
      PROVE  \A o \in Ops : RowStep(o)
  <2> DEFINE g == GenerationAfter(e, action)
             d == DesiredAfter(e, action)
             over == IF action = "force-restart" THEN {e} ELSE {}
  <2>1. endpoints' = [endpoints EXCEPT ![e].generation = g, ![e].desired = d] /\ Live(e)
    BY <1>2 DEF mutateEndpoint
  <2>2. PICK f \in Batches({e}) :
          InsertOperations([o \in DOMAIN f |-> NewOperation(e, g, action, "user")], over)
    BY <1>2 DEF mutateEndpoint
  <2> HIDE DEF g, d, over
  <2>3. \A x \in Endpoints : endpoints'[x].status = endpoints[x].status
    BY <1>0, <2>1 DEF EndpointRow
  <2> DEFINE rows == [o \in DOMAIN f |-> NewOperation(e, g, action, "user")]
  <2>4. DOMAIN rows = DOMAIN f /\ InsertOperations(rows, over)
    BY <2>2
  <2>5. \A o \in DOMAIN f : f[o] = e
    BY BatchFacts
  <2>6. \A o \in DOMAIN f : /\ rows[o].status = "queued"
                            /\ rows[o].endpoint = f[o]
                            /\ rows[o].node = None
    BY <2>5 DEF NewOperation, NoOperation
  <2> HIDE DEF rows
  <2>7. {e} \in SUBSET Endpoints /\ \A x \in {e} : Live(x)
    BY <2>1
  <2> QED BY <1>0, <2>3, <2>4, <2>6, <2>7, InsertRows
<1>3. ASSUME NEW x \in Expiries, setWorkspaceExpiry(x)
      PROVE  \A o \in Ops : RowStep(o)
  BY <1>0, <1>3, CommandDetails DEF setWorkspaceExpiry
<1> QED BY <1>1, <1>2, <1>3 DEF Requests

LEMMA WorkerRequestRows ==
  ASSUME Core, \A o \in Ops : RowBooks(o), processExpiredWorkspaces \/ reclaimStaleEndpoints
  PROVE  \A o \in Ops : RowStep(o)
<1>0. nodes' = nodes /\ endpoints \in [Endpoints -> EndpointRow]
  BY DEF processExpiredWorkspaces, reclaimStaleEndpoints, Core, TypeOK
<1>1. CASE processExpiredWorkspaces
  <2> DEFINE S == {e \in Endpoints : ExpiryEnqueues(e)}
             over == {e \in S : ActiveOn(e) # {}}
  <2>1. PICK f \in Batches(S) :
          InsertOperations(
            [o \in DOMAIN f |->
               NewOperation(f[o], endpoints[f[o]].generation + 1, ExpiryAction, ExpiryTrigger)],
            over)
    BY <1>1 DEF processExpiredWorkspaces
  <2>2. endpoints' = [e \in Endpoints |->
          IF e \in S
          THEN [endpoints[e] EXCEPT !.generation = @ + 1,
                  !.desired = IF expiry = "due" THEN @ ELSE "stopped"]
          ELSE endpoints[e]]
    BY <1>1 DEF processExpiredWorkspaces
  <2>3. S \in SUBSET Endpoints /\ \A e \in S : Live(e)
    BY DEF ExpiryEnqueues
  <2> HIDE DEF S, over
  <2>4. ASSUME NEW row \in EndpointRow, NEW d
        PROVE  [row EXCEPT !.generation = @ + 1, !.desired = d].status = row.status
    BY DEF EndpointRow
  <2>5. \A e \in Endpoints : endpoints'[e].status = endpoints[e].status
    BY <1>0, <2>2, <2>4
  <2> DEFINE rows == [o \in DOMAIN f |->
               NewOperation(f[o], endpoints[f[o]].generation + 1, ExpiryAction, ExpiryTrigger)]
  <2>6. DOMAIN rows = DOMAIN f /\ InsertOperations(rows, over)
    BY <2>1
  <2>7. \A o \in DOMAIN f : /\ rows[o].status = "queued"
                            /\ rows[o].endpoint = f[o]
                            /\ rows[o].node = None
    BY DEF NewOperation, NoOperation
  <2> HIDE DEF rows
  <2> QED BY <1>0, <2>3, <2>5, <2>6, <2>7, InsertRows
<1>2. CASE reclaimStaleEndpoints
  <2> DEFINE S == {e \in Endpoints : ReclaimCandidate(e) /\ ~SucceededIn(RecentReclaims(e))}
  <2>1. PICK f \in Batches(S) :
          InsertOperations(
            [o \in DOMAIN f |->
               NewOperation(f[o], endpoints[f[o]].generation, "read-container-logs", "reclaim")], {})
    BY <1>2 DEF reclaimStaleEndpoints
  <2>2. endpoints' = endpoints
    BY <1>2 DEF reclaimStaleEndpoints
  <2>3. S \in SUBSET Endpoints /\ \A e \in S : Live(e)
    BY DEF ReclaimCandidate
  <2> HIDE DEF S
  <2> DEFINE rows == [o \in DOMAIN f |->
               NewOperation(f[o], endpoints[f[o]].generation, "read-container-logs", "reclaim")]
  <2>4. DOMAIN rows = DOMAIN f /\ InsertOperations(rows, {})
    BY <2>1
  <2>5. \A o \in DOMAIN f : /\ rows[o].status = "queued"
                            /\ rows[o].endpoint = f[o]
                            /\ rows[o].node = None
    BY DEF NewOperation, NoOperation
  <2> HIDE DEF rows
  <2> QED BY <1>0, <2>2, <2>3, <2>4, <2>5, InsertRows
<1> QED BY <1>1, <1>2

LEMMA TimeRows ==
  ASSUME Core, \A o \in Ops : RowBooks(o), Time
  PROVE  \A o \in Ops : RowStep(o)
<1>0. /\ TypeOK
      /\ nodes \in [Nodes -> NodeRow] /\ endpoints \in [Endpoints -> EndpointRow]
      /\ commands \in [Ops -> CommandRow]
      /\ outbox \in [Ops -> {"none", "pending", "deferred", "processed"}]
      /\ \A o \in Ops : commands[o].status = "leased" => commands[o].node \in Nodes
  BY DEF Core, TypeOK, RowBooks, CommandBooks, LiveCommand
<1>1. CASE GraceElapses
  <2>1. OwnersStep /\ \A n \in Nodes : SeatKept(n)
    BY <1>1 DEF GraceElapses, OwnersStep, SeatKept
  <2> QED BY <1>1, <2>1, CommandDetails DEF GraceElapses
<1>2. ASSUME NEW o \in Ops, DeferralElapses(o)
      PROVE  \A p \in Ops : RowStep(p)
  <2>1. OwnersStep /\ \A n \in Nodes : SeatKept(n)
    BY <1>2 DEF DeferralElapses, OwnersStep, SeatKept
  <2>2. \A p \in Ops : outbox'[p] = outbox[p] \/ {outbox[p], outbox'[p]} \subseteq OpenEvent
    BY <1>0, <1>2 DEF DeferralElapses, OpenEvent
  <2>3. \A p \in Ops : RowKept(p)
    BY <1>0, <1>2, <2>1, <2>2 DEF DeferralElapses, RowKept
  <2> QED BY <1>0, <2>1, <2>3, RowStays
<1>3. ASSUME NEW o \in Ops, LeaseExpires(o)
      PROVE  \A p \in Ops : RowStep(p)
  <2>1. OwnersStep /\ \A n \in Nodes : SeatKept(n)
    BY <1>3 DEF LeaseExpires, OwnersStep, SeatKept
  <2>2. commands' = [commands EXCEPT ![o].expired = TRUE]
    BY <1>3 DEF LeaseExpires
  <2>3. \A p \in Ops : /\ commands'[p].status = commands[p].status
                       /\ commands'[p].node = commands[p].node
                       /\ commands'[p].id = commands[p].id
                       /\ commands'[p].epoch = commands[p].epoch
                       /\ commands'[p].attempts = commands[p].attempts
                       /\ commands'[p].resulted = commands[p].resulted
    BY <1>0, <2>2 DEF CommandRow
  <2> QED BY <1>3, <2>1, <2>3, CommandDetails DEF LeaseExpires
<1>4. ASSUME NEW n \in Nodes, NodeGoesStale(n)
      PROVE  \A p \in Ops : RowStep(p)
  <2>1. OwnersStep /\ \A x \in Nodes : SeatKept(x)
    BY <1>0, <1>4 DEF NodeGoesStale, OwnersStep, SeatKept, NodeRow
  <2> QED BY <1>4, <2>1, CommandDetails DEF NodeGoesStale
<1>5. ASSUME NEW e \in Endpoints, TelemetryGoesStale(e)
      PROVE  \A p \in Ops : RowStep(p)
  <2>1. OwnersStep /\ \A n \in Nodes : SeatKept(n)
    BY <1>5 DEF TelemetryGoesStale, OwnersStep, SeatKept
  <2>2. \A x \in Endpoints : endpoints'[x].status = endpoints[x].status
    BY <1>0, <1>5 DEF TelemetryGoesStale, EndpointRow
  <2> QED BY <1>5, <2>1, <2>2, CommandDetails DEF TelemetryGoesStale
<1> QED BY <1>1, <1>2, <1>3, <1>4, <1>5, Zenon DEF Time

\* A withdrawal ends the operations and leases of a node that is not, or no
\* longer, the workspace's own.
LEMMA WithdrawalRows ==
  ASSUME Core, \A o \in Ops : RowBooks(o), OwnersStep, \A x \in Nodes : SeatKept(x),
         NEW n \in Nodes, NEW S, NEW c \in BOOLEAN, Detach(n, S), InvalidateIf(c, n),
         outbox' = outbox, c => ~nodes'[n].owned \/ nodes'[n].revoked
  PROVE  \A o \in Ops : RowStep(o)
<1>0. /\ TypeOK
      /\ operations \in [Ops -> OperationRow] /\ commands \in [Ops -> CommandRow]
      /\ \A e \in Endpoints : endpoints'[e].status = endpoints[e].status
  BY DEF Core, TypeOK, Detach, EndpointRow
<1>1. CASE ~c
  BY <1>0, <1>1, RowSame DEF InvalidateIf
<1>2. CASE c
  <2> SUFFICES ASSUME NEW o \in Ops PROVE RowStep(o)
    OBVIOUS
  <2> DEFINE H == operations[o].node = n /\ operations[o].status = "running"
             L == commands[o].node = n /\ commands[o].status = "leased"
             C == [commands[o] EXCEPT !.status = "stale", !.resulted = TRUE, !.expired = FALSE]
  <2>1. operations'[o] = IF H THEN [operations[o] EXCEPT !.status = "stale"] ELSE operations[o]
    BY <1>2 DEF InvalidateIf, InvalidateLeases
  <2>2. commands'[o] = IF L THEN C ELSE commands[o]
    BY <1>2 DEF InvalidateIf, InvalidateLeases
  <2>3. C.status = "stale"
    BY <1>0, StaleCommand
  <2>4. H => /\ operations'[o].status = "stale"
             /\ operations'[o].endpoint = operations[o].endpoint
             /\ operations'[o].node = operations[o].node
             /\ operations'[o].epoch = operations[o].epoch
    BY <1>0, <2>1 DEF OperationRow
  <2>5. H => /\ outbox[o] \notin OpenEvent
             /\ operations[o].endpoint \in Endpoints
             /\ endpoints[operations[o].endpoint].status = "live"
    BY RowFacts DEF ActiveStatus
  <2>6. L /\ ~H => /\ operations[o].status = "stale" /\ outbox[o] \notin OpenEvent
                   /\ ~(operations[o].endpoint \in Endpoints
                        /\ endpoints[operations[o].endpoint].status = "deleted")
    <3> SUFFICES ASSUME L, ~H PROVE operations[o].status = "stale"
      BY RowFacts DEF LiveCommand
    <3> QED BY DEF RowBooks, CommandBooks, LiveCommand
  <2>7. /\ H => operations[o].status = "running" /\ operations[o].node = n
        /\ L => commands[o].status = "leased"
        /\ H /\ commands[o].status = "leased" => L
    BY DEF RowBooks, CommandBooks, LiveCommand
  <2> HIDE DEF H, L, C
  <2>8. CASE H /\ commands[o].status # "queued"
    <3>1. commands'[o].status \notin LiveCommand
      BY <2>2, <2>3, <2>7, <2>8 DEF LiveCommand
    <3> QED BY <1>0, <2>4, <2>5, <2>8, <3>1, RowOver DEF TerminalStatus
  <2>9. CASE H /\ commands[o].status = "queued"
    <3>1. commands'[o] = commands[o]
      BY <2>2, <2>7, <2>9
    <3>2. /\ commands[o].node = n /\ operations[o].epoch = commands[o].epoch
          /\ ~commands[o].resulted
      BY <2>7, <2>9 DEF RowBooks, CommandBooks, LiveCommand
    <3>3. ClaimsKept(o)
      BY <2>4, <2>9 DEF ClaimsKept
    <3>4. EventBooks(o)' /\ DeletedBooks(o)'
      BY <1>0, <2>4, <2>5, <2>9 DEF EventBooks, DeletedBooks
    <3>5. CommandBooks(o)'
      BY <1>2, <2>4, <2>7, <2>9, <3>1, <3>2 DEF CommandBooks
    <3>6. LeaseBooks(o)' /\ RunningBooks(o)'
      BY <2>4, <2>9, <3>1 DEF LeaseBooks, RunningBooks
    <3> QED BY <3>3, <3>4, <3>5, <3>6 DEF RowStep, RowBooks
  <2>10. CASE ~H /\ L
    <3>1. operations'[o] = operations[o] /\ commands'[o].status = "stale"
      BY <2>1, <2>2, <2>3, <2>10
    <3> QED BY <1>0, <2>6, <2>10, <3>1, RowOver DEF TerminalStatus, LiveCommand
  <2>11. CASE ~H /\ ~L
    <3>1. operations'[o] = operations[o] /\ commands'[o] = commands[o]
      BY <2>1, <2>2, <2>11
    <3> QED BY <1>0, <3>1, RowSame
  <2> QED BY <2>8, <2>9, <2>10, <2>11
<1> QED BY <1>1, <1>2

\* What the seven access steps do to the node they are about.
LEMMA AccessFacts ==
  ASSUME TypeOK, \A x \in Nodes : PoolBooks(x), NEW n \in Nodes,
         \/ ShareNode(n) \/ UnshareNode(n) \/ grantSharedNode(n) \/ grantNode(n)
         \/ revokeNodeGrant(n) \/ revokeSharedNode(n) \/ deleteNode(n)
  PROVE  /\ OwnersStep /\ \A x \in Nodes : SeatKept(x)
         /\ \A x \in Nodes : x # n => nodes'[x] = nodes[x]
         /\ outbox' = outbox
         /\ \/ /\ operations' = operations /\ commands' = commands /\ endpoints' = endpoints
               /\ nodes[n].granted => nodes'[n].granted
            \/ \E S \in SUBSET Endpoints, c \in BOOLEAN :
                 /\ Detach(n, S) /\ InvalidateIf(c, n)
                 /\ c => (~nodes'[n].owned \/ nodes'[n].revoked) /\ ~nodes'[n].granted
                 /\ nodes[n].granted => c
<1>0. nodes \in [Nodes -> NodeRow]
  BY DEF TypeOK
<1>1. /\ OwnersStep /\ outbox' = outbox
      /\ \A x \in Nodes : SeatKept(x) /\ (x # n => nodes'[x] = nodes[x])
  BY <1>0 DEF NodeRow, OwnersStep, SeatKept, ShareNode, UnshareNode, grantSharedNode,
              grantNode, revokeNodeGrant, revokeSharedNode, deleteNode
<1>2. CASE ShareNode(n) \/ grantSharedNode(n) \/ grantNode(n)
  BY <1>0, <1>1, <1>2 DEF NodeRow, ShareNode, grantSharedNode, grantNode
<1>3. CASE UnshareNode(n)
  <2> DEFINE c == nodes[n].pool = "enabled"
             S == IF nodes[n].granted THEN Endpoints ELSE {}
  <2>1. Detach(n, S) /\ InvalidateIf(c, n) /\ S \in SUBSET Endpoints
    BY <1>3 DEF UnshareNode
  <2>2. c => ~nodes'[n].owned /\ ~nodes'[n].granted
    BY <1>0, <1>3 DEF UnshareNode, NodeRow, PoolBooks
  <2>3. nodes[n].granted => c
    BY DEF PoolBooks
  <2>4. c \in BOOLEAN
    OBVIOUS
  <2> HIDE DEF c, S
  <2> QED BY <1>1, <2>1, <2>2, <2>3, <2>4
<1>4. CASE revokeNodeGrant(n)
  <2> DEFINE S == {e \in Endpoints : Live(e)}
  <2>1. Detach(n, S) /\ InvalidateIf(TRUE, n) /\ S \in SUBSET Endpoints
    BY <1>4 DEF revokeNodeGrant, InvalidateIf
  <2>2. ~nodes'[n].owned /\ ~nodes'[n].granted
    BY <1>0, <1>4 DEF revokeNodeGrant, NodeRow, PoolBooks
  <2> HIDE DEF S
  <2> QED BY <1>1, <2>1, <2>2
<1>5. CASE revokeSharedNode(n)
  <2> DEFINE c == nodes[n].granted
  <2>1. Detach(n, Endpoints) /\ InvalidateIf(c, n)
    BY <1>5 DEF revokeSharedNode
  <2>2. c => ~nodes'[n].owned /\ ~nodes'[n].granted
    BY <1>0, <1>5 DEF revokeSharedNode, NodeRow, PoolBooks
  <2>3. c \in BOOLEAN
    BY <1>0 DEF NodeRow
  <2>4. nodes[n].granted => c
    OBVIOUS
  <2> HIDE DEF c
  <2> QED BY <1>1, <2>1, <2>2, <2>3, <2>4
<1>6. CASE deleteNode(n)
  <2> DEFINE c == nodes[n].pool # "absent"
  <2>1. Detach(n, Endpoints) /\ InvalidateIf(c, n)
    BY <1>6 DEF deleteNode
  <2>2. nodes'[n].revoked /\ ~nodes'[n].granted
    BY <1>0, <1>6 DEF deleteNode, NodeRow
  <2>3. nodes[n].granted => c
    BY DEF PoolBooks
  <2>4. c \in BOOLEAN
    OBVIOUS
  <2> HIDE DEF c
  <2> QED BY <1>1, <2>1, <2>2, <2>3, <2>4
<1> QED BY <1>2, <1>3, <1>4, <1>5, <1>6

LEMMA PlatformOwnerRows ==
  ASSUME Core, \A o \in Ops : RowBooks(o), \A x \in Nodes : PoolBooks(x), NEW n \in Nodes,
         \/ ShareNode(n) \/ UnshareNode(n) \/ grantSharedNode(n) \/ grantNode(n)
         \/ revokeNodeGrant(n) \/ revokeSharedNode(n) \/ deleteNode(n)
  PROVE  \A o \in Ops : RowStep(o)
<1>0. TypeOK
  BY DEF Core
<1>1. /\ OwnersStep /\ \A x \in Nodes : SeatKept(x) /\ outbox' = outbox
  BY <1>0, AccessFacts
<1>2. CASE operations' = operations /\ commands' = commands /\ endpoints' = endpoints
  BY <1>0, <1>1, <1>2, RowSame
<1>3. ASSUME NEW S, NEW c \in BOOLEAN, Detach(n, S), InvalidateIf(c, n),
             c => ~nodes'[n].owned \/ nodes'[n].revoked
      PROVE  \A o \in Ops : RowStep(o)
  BY <1>1, <1>3, WithdrawalRows
<1> QED BY <1>0, <1>2, <1>3, AccessFacts

-----------------------------------------------------------------------------
(* Every step *)

LEMMA NodesNext ==
  ASSUME Core, \A n \in Nodes : PoolBooks(n) /\ SessionBooks(n), [Next]_vars
  PROVE  NodesStep /\ (GrantsKept \/ PlatformOwner)
<1>0. TypeOK /\ \A m \in claims : m.node \in Nodes
  BY DEF Core, TypeOK, Claim
<1>1. CASE Requests
  BY <1>1, NodesUntouched DEF Requests, createEndpoint, mutateEndpoint, setWorkspaceExpiry
<1>2. CASE Worker
  BY <1>2, NodesUntouched
     DEF Worker, processExpiredWorkspaces, reclaimStaleEndpoints, processOne, SettleEvent,
         DeferEvent, DispatchEvent, DeleteUnassigned
<1>3. CASE Agents
  <2>1. ASSUME NEW n \in Nodes, NEW b, claimAgentCommand(n, b)
        PROVE  NodesStep /\ GrantsKept
    <3>1. AdvertiseBuild(n, b)
      BY <2>1 DEF claimAgentCommand, ClaimNothing, ClaimLease, ClaimCancelled, ClaimExhausted
    <3> QED BY <1>0, <3>1, NodesAdvertise
  <2>2. ASSUME NEW m \in claims, NEW q, recordAgentProgress(m, q)
        PROVE  NodesStep /\ GrantsKept
    BY <1>0, <2>2, NodesFresh DEF recordAgentProgress
  <2>3. ASSUME NEW m \in claims, recordAgentReceipt(m) \/ recordAgentResult(m)
        PROVE  NodesStep /\ GrantsKept
    BY <2>3, NodesUntouched
       DEF recordAgentReceipt, recordAgentResult, ResultUnknown, ResultFinal, ResultDeleted
  <2> QED BY <1>0, <1>3, <2>1, <2>2, <2>3, NodesHeartbeat DEF Agents
<1>4. CASE Time
  <2>1. ASSUME NEW n \in Nodes, NodeGoesStale(n)
        PROVE  NodesStep /\ GrantsKept
    BY <1>0, <2>1, NodesFresh DEF NodeGoesStale
  <2> QED BY <1>4, <2>1, NodesUntouched
          DEF Time, GraceElapses, DeferralElapses, LeaseExpires, TelemetryGoesStale
<1>5. CASE PlatformOwner
  BY <1>0, <1>5, NodesAccess DEF PlatformOwner
<1>6. CASE UNCHANGED vars
  BY <1>6, NodesUntouched DEF vars
<1> QED BY <1>1, <1>2, <1>3, <1>4, <1>5, <1>6 DEF Next

LEMMA RowsNext ==
  ASSUME Core, Books, [Next]_vars
  PROVE  NodesStep /\ \A o \in Ops : RowStep(o)
<1>0. /\ \A o \in Ops : RowBooks(o)
      /\ \A n \in Nodes : PoolBooks(n) /\ SessionBooks(n)
  BY DEF Books
<1>1. NodesStep
  BY <1>0, NodesNext
<1>2. CASE Requests
  BY <1>0, <1>1, <1>2, RequestRows
<1>3. CASE Worker
  BY <1>0, <1>1, <1>3, WorkerRequestRows, DispatchRows DEF Worker
<1>4. CASE Agents
  BY <1>0, <1>1, <1>4, HeartbeatRows, ClaimRows, ReportRows DEF Agents
<1>5. CASE Time
  BY <1>0, <1>1, <1>5, TimeRows
<1>6. CASE PlatformOwner
  BY <1>0, <1>1, <1>6, PlatformOwnerRows DEF PlatformOwner
<1>7. CASE UNCHANGED vars
  <2>1. \A n \in Nodes : SeatKept(n)
    BY <1>7 DEF vars, SeatKept
  <2> QED BY <1>0, <1>1, <1>7, <2>1, RowSame DEF vars, Core, NodesStep
<1> QED BY <1>1, <1>2, <1>3, <1>4, <1>5, <1>6, <1>7 DEF Next

\* The only step that hands out a claim is one that works on the command it
\* names, under the node's session and epoch.
LEMMA NewClaims ==
  ASSUME Core, \A o \in Ops : RowBooks(o), [Next]_vars, NEW m \in claims', m \notin claims
  PROVE  /\ m.node \in Nodes /\ m.op \in Ops
         /\ SeatKept(m.node)
         /\ m.session = nodes[m.node].session /\ m.epoch = nodes[m.node].epoch
         /\ operations'[m.op].status \in {"running", "stale"}
         /\ m.id = commands'[m.op].id /\ m.attempt = commands'[m.op].attempts
<1>0. TypeOK /\ commands \in [Ops -> CommandRow]
  BY DEF Core, TypeOK
<1>1. PICK n \in Nodes, b \in AgentBuilds, o \in Ops :
        ClaimLease(n, b, o) \/ ClaimCancelled(n, b, o)
  <2>1. claims' # claims
    OBVIOUS
  <2>2. ~Requests
    BY <2>1 DEF Requests, createEndpoint, mutateEndpoint, setWorkspaceExpiry
  <2>3. ~Worker
    BY <2>1 DEF Worker, processExpiredWorkspaces, reclaimStaleEndpoints, processOne,
                SettleEvent, DeferEvent, DispatchEvent, DeleteUnassigned
  <2>4. ~Time
    BY <2>1 DEF Time, GraceElapses, DeferralElapses, LeaseExpires, NodeGoesStale,
                TelemetryGoesStale
  <2>5. ~PlatformOwner
    BY <2>1 DEF PlatformOwner, ShareNode, UnshareNode, grantSharedNode, grantNode,
                revokeNodeGrant, revokeSharedNode, deleteNode
  <2>6. ~UNCHANGED vars
    BY <2>1 DEF vars
  <2>7. \A n \in Nodes : \A R : ~HeartbeatSame(n, R)
    BY <2>1 DEF HeartbeatSame
  <2>8. \A n \in Nodes, s \in Sessions : \A R :
          ~HeartbeatFirst(n, s, R) /\ ~HeartbeatTakeover(n, s, R)
    BY <2>1 DEF HeartbeatFirst, HeartbeatTakeover
  <2>9. \A x \in claims : /\ ~recordAgentReceipt(x) /\ ~recordAgentResult(x)
                          /\ \A q : ~recordAgentProgress(x, q)
    BY <2>1 DEF recordAgentReceipt, recordAgentProgress, recordAgentResult, ResultUnknown,
                ResultFinal, ResultDeleted
  <2>10. \E n \in Nodes, b \in AgentBuilds : claimAgentCommand(n, b)
    BY <2>2, <2>3, <2>4, <2>5, <2>6, <2>7, <2>8, <2>9 DEF Next, Agents
  <2> QED BY <2>1, <2>10 DEF claimAgentCommand, ClaimNothing, ClaimExhausted
<1>2. m = ClaimOf(n, o)
  BY <1>1 DEF ClaimLease, ClaimCancelled
<1>3. /\ m.node = n /\ m.session = nodes[n].session /\ m.op = o
      /\ m.id = commands[o].id /\ m.epoch = commands[o].epoch
      /\ m.attempt = commands[o].attempts + 1
  BY <1>2 DEF ClaimOf
<1>4. SeatKept(n)
  BY <1>0, <1>1, AdvertiseSeats DEF ClaimLease, ClaimCancelled
<1>5. commands[o].epoch = nodes[n].epoch /\ operations[o].status \in {"running", "stale"}
  BY <1>1, ClaimableFacts DEF ClaimLease, ClaimCancelled
<1>6. operations' = operations
  BY <1>1 DEF ClaimLease, ClaimCancelled
<1>7. commands'[o].id = commands[o].id /\ commands'[o].attempts = commands[o].attempts + 1
  <2>1. CASE ClaimLease(n, b, o)
    BY <1>0, <2>1 DEF ClaimLease, CommandRow
  <2>2. CASE ClaimCancelled(n, b, o)
    BY <1>0, <2>2 DEF ClaimCancelled, CommandRow
  <2> QED BY <1>1, <2>1, <2>2
<1> QED BY <1>3, <1>4, <1>5, <1>6, <1>7

LEMMA BooksInitially == Init => Books
<1> SUFFICES ASSUME Init PROVE Books
  OBVIOUS
<1>1. \A n \in Nodes : PoolBooks(n) /\ SessionBooks(n)
  BY DEF Init, PoolBooks, SessionBooks
<1>2. \A o \in Ops : operations[o] = NoOperation /\ commands[o] = NoCommand /\ outbox[o] = "none"
  BY DEF Init
<1>3. NoOperation.status = "none" /\ NoOperation.endpoint = None /\ NoOperation.node = None
  BY DEF NoOperation
<1>4. NoCommand.status = "none"
  BY DEF NoCommand, FreshCommand
<1>5. \A o \in Ops : RowBooks(o)
  BY <1>2, <1>3, <1>4, NoneAssumption
     DEF RowBooks, EventBooks, DeletedBooks, CommandBooks, LeaseBooks, RunningBooks,
         LiveCommand, OpenEvent
<1> QED BY <1>1, <1>5 DEF Books, Init

LEMMA BooksStep == Core /\ Core' /\ Books /\ [Next]_vars => Books'
<1> SUFFICES ASSUME Core, Core', Books, [Next]_vars PROVE Books'
  OBVIOUS
<1>0. /\ NodesStep /\ \A o \in Ops : RowStep(o)
      /\ \A o \in Ops : RowBooks(o)
  BY RowsNext DEF Books
<1>1. ASSUME NEW n \in Nodes PROVE PoolBooks(n)' /\ SessionBooks(n)'
  BY <1>0, <1>1 DEF Books, NodesStep, SessionBooks, SeatKept, SeatTaken
<1>2. ASSUME NEW m \in claims, m \in claims' PROVE EpochBooks(m)' /\ AttemptBooks(m)'
  <2>1. m.node \in Nodes /\ m.op \in Ops /\ m.epoch \in Nat /\ m.id \in Nat /\ m.attempt \in Nat
    BY DEF Core, TypeOK, Claim
  <2>2. nodes[m.node].epoch \in Nat
    BY <2>1 DEF Core, TypeOK, NodeRow
  <2>3. EpochBooks(m)'
    <3>1. CASE SeatKept(m.node)
      BY <3>1 DEF Books, EpochBooks, SeatKept
    <3>2. CASE SeatTaken(m.node)
      BY <2>1, <2>2, <3>2 DEF Books, EpochBooks, SeatTaken
    <3> QED BY <1>0, <2>1, <3>1, <3>2 DEF NodesStep
  <2>4. /\ commands[m.op].id \in Nat /\ commands[m.op].attempts \in Nat
        /\ commands'[m.op].id \in Nat /\ commands'[m.op].attempts \in Nat
    BY <2>1 DEF Core, TypeOK, CommandRow
  <2>5. AttemptBooks(m) /\ ClaimsKept(m.op)
    BY <1>0, <2>1 DEF Books, RowStep
  <2>6. AttemptBooks(m)'
    BY <2>1, <2>4, <2>5 DEF AttemptBooks, ClaimsKept
  <2> QED BY <2>3, <2>6
<1>3. ASSUME NEW m \in claims', m \notin claims PROVE EpochBooks(m)' /\ AttemptBooks(m)'
  <2>1. /\ m.node \in Nodes /\ m.op \in Ops
        /\ SeatKept(m.node)
        /\ m.session = nodes[m.node].session /\ m.epoch = nodes[m.node].epoch
        /\ operations'[m.op].status \in {"running", "stale"}
        /\ m.id = commands'[m.op].id /\ m.attempt = commands'[m.op].attempts
    BY <1>0, <1>3, NewClaims
  <2>2. SessionBooks(m.node) /\ nodes[m.node].epoch \in Nat /\ commands'[m.op].attempts \in Nat
    BY <2>1 DEF Books, Core, TypeOK, NodeRow, CommandRow
  <2> QED BY <2>1, <2>2 DEF EpochBooks, AttemptBooks, SessionBooks, SeatKept
<1> QED BY <1>0, <1>1, <1>2, <1>3 DEF Books, RowStep

Ledger == Core /\ Books

LEMMA LedgerInitially == Init => Ledger
  BY CoreInitially, BooksInitially DEF Ledger

LEMMA LedgerStep == Ledger /\ [Next]_vars => Ledger'
  BY CoreStep, BooksStep DEF Ledger

-----------------------------------------------------------------------------
(* Withdrawals and deletions *)

\* A withdrawal of a grant leaves nothing of the node running or leased.
LEMMA WithdrawalEndsWork ==
  ASSUME TypeOK, NEW n \in Nodes, InvalidateLeases(n), NEW o \in Ops
  PROVE  /\ ~(operations'[o].node = n /\ operations'[o].status = "running")
         /\ ~(commands'[o].node = n /\ commands'[o].status = "leased")
<1>0. operations \in [Ops -> OperationRow] /\ commands \in [Ops -> CommandRow]
  BY DEF TypeOK
<1> DEFINE S == [operations[o] EXCEPT !.status = "stale"]
           C == [commands[o] EXCEPT !.status = "stale", !.resulted = TRUE, !.expired = FALSE]
<1>1. operations'[o] = IF operations[o].node = n /\ operations[o].status = "running"
                       THEN S ELSE operations[o]
  BY DEF InvalidateLeases
<1>2. commands'[o] = IF commands[o].node = n /\ commands[o].status = "leased"
                     THEN C ELSE commands[o]
  BY DEF InvalidateLeases
<1>3. S.status = "stale" /\ C.status = "stale"
  BY <1>0, StaleCommand DEF OperationRow
<1> HIDE DEF S, C
<1> QED BY <1>1, <1>2, <1>3

LEMMA GrantTaken ==
  ASSUME Ledger, [Next]_vars, NEW n \in Nodes, NEW o \in Ops,
         nodes[n].granted, ~nodes'[n].granted
  PROVE  /\ ~(operations'[o].node = n /\ operations'[o].status = "running")
         /\ ~(commands'[o].node = n /\ commands'[o].status = "leased")
<1>0. /\ Core /\ TypeOK /\ nodes \in [Nodes -> NodeRow]
      /\ \A x \in Nodes : PoolBooks(x) /\ SessionBooks(x)
  BY DEF Ledger, Books, Core, TypeOK
<1>1. PlatformOwner
  BY <1>0, NodesNext DEF GrantsKept
<1>2. PICK x \in Nodes :
        \/ ShareNode(x) \/ UnshareNode(x) \/ grantSharedNode(x) \/ grantNode(x)
        \/ revokeNodeGrant(x) \/ revokeSharedNode(x) \/ deleteNode(x)
  BY <1>1 DEF PlatformOwner
<1>3. x = n
  BY <1>0, <1>2, AccessFacts
<1>4. InvalidateLeases(n)
  BY <1>0, <1>2, <1>3, AccessFacts DEF InvalidateIf
<1> QED BY <1>0, <1>4, WithdrawalEndsWork

\* An insert supersedes only the operations of the endpoints it names.
LEMMA InsertSpares ==
  ASSUME NEW S, NEW f \in Batches(S), NEW rows, NEW over, DOMAIN rows = DOMAIN f,
         InsertOperations(rows, over),
         NEW o \in Ops, Active(o), operations[o].endpoint \notin over
  PROVE  operations'[o] = operations[o]
<1>1. o \notin DOMAIN f
  BY BatchFacts DEF Active, ActiveStatus
<1> QED BY <1>1 DEF InsertOperations

LEMMA RequestsSpareDeletions ==
  ASSUME Core, NEW o \in Ops, Active(o), operations[o].action = "delete",
         Requests \/ processExpiredWorkspaces \/ reclaimStaleEndpoints
  PROVE  operations'[o] = operations[o]
<1>0. o \in ActiveOn(operations[o].endpoint) /\ operations[o].endpoint \in Endpoints
  BY DEF ActiveOn, Core, ActiveOperationIsCurrent
<1>1. ASSUME NEW e \in Endpoints, NEW action \in UserActions, mutateEndpoint(e, action)
      PROVE  operations'[o] = operations[o]
  <2> DEFINE g == GenerationAfter(e, action)
             over == IF action = "force-restart" THEN {e} ELSE {}
  <2>1. PICK f \in Batches({e}) :
          InsertOperations([p \in DOMAIN f |-> NewOperation(e, g, action, "user")], over)
    BY <1>1 DEF mutateEndpoint
  <2>2. operations[o].endpoint \notin over
    BY <1>0, <1>1 DEF mutateEndpoint, MayMutate
  <2> DEFINE rows == [p \in DOMAIN f |-> NewOperation(e, g, action, "user")]
  <2>3. DOMAIN rows = DOMAIN f /\ InsertOperations(rows, over)
    BY <2>1
  <2> HIDE DEF rows, over
  <2> QED BY <2>2, <2>3, InsertSpares
<1>2. CASE processExpiredWorkspaces
  <2> DEFINE S == {e \in Endpoints : ExpiryEnqueues(e)}
             over == {e \in S : ActiveOn(e) # {}}
  <2>1. PICK f \in Batches(S) :
          InsertOperations(
            [p \in DOMAIN f |->
               NewOperation(f[p], endpoints[f[p]].generation + 1, ExpiryAction, ExpiryTrigger)],
            over)
    BY <1>2 DEF processExpiredWorkspaces
  <2>2. operations[o].endpoint \notin over
    BY <1>0 DEF ExpiryEnqueues
  <2> DEFINE rows == [p \in DOMAIN f |->
               NewOperation(f[p], endpoints[f[p]].generation + 1, ExpiryAction, ExpiryTrigger)]
  <2>3. DOMAIN rows = DOMAIN f /\ InsertOperations(rows, over)
    BY <2>1
  <2> HIDE DEF rows, over, S
  <2> QED BY <2>2, <2>3, InsertSpares
<1>3. CASE reclaimStaleEndpoints
  <2> DEFINE S == {e \in Endpoints : ReclaimCandidate(e) /\ ~SucceededIn(RecentReclaims(e))}
  <2>1. PICK f \in Batches(S) :
          InsertOperations(
            [p \in DOMAIN f |->
               NewOperation(f[p], endpoints[f[p]].generation, "read-container-logs", "reclaim")], {})
    BY <1>3 DEF reclaimStaleEndpoints
  <2> DEFINE rows == [p \in DOMAIN f |->
               NewOperation(f[p], endpoints[f[p]].generation, "read-container-logs", "reclaim")]
  <2>2. DOMAIN rows = DOMAIN f /\ InsertOperations(rows, {})
    BY <2>1
  <2> HIDE DEF rows, S
  <2> QED BY <2>2, InsertSpares
<1>4. CASE \E e \in Endpoints, n \in Nodes \cup {None} : createEndpoint(e, n)
  BY <1>4 DEF createEndpoint
<1>5. CASE \E x \in Expiries : setWorkspaceExpiry(x)
  BY <1>5 DEF setWorkspaceExpiry
<1> QED BY <1>1, <1>2, <1>3, <1>4, <1>5 DEF Requests

\* Dispatch, heartbeats, claims, reports and time turn no active operation stale.
LEMMA WorkEndsOtherwise ==
  ASSUME Core, NEW o \in Ops, Active(o), operations'[o].status = "stale",
         \/ \E p \in Ops : processOne(p)
         \/ Agents
         \/ Time
  PROVE  FALSE
<1>0. /\ TypeOK /\ operations \in [Ops -> OperationRow]
      /\ operations[o].status # "stale"
  BY DEF Core, TypeOK, Active, ActiveStatus
<1>1. ASSUME NEW p \in Ops, NEW status, operations' = [operations EXCEPT ![p].status = status],
             status # "stale" \/ status = operations[p].status
      PROVE  FALSE
  BY <1>0, <1>1 DEF OperationRow
<1>2. ASSUME operations' = operations PROVE FALSE
  BY <1>0, <1>2
<1>3. ASSUME NEW p \in Ops, FinalizeDeletion(p)
      PROVE  FALSE
  BY <1>1, <1>3 DEF FinalizeDeletion
<1>4. ASSUME NEW p \in Ops, processOne(p)
      PROVE  FALSE
  <2>1. CASE SettleEvent(p)
    <3> DEFINE status == IF Verdict(p) = "settled" THEN operations[p].status ELSE Verdict(p)
    <3>1. operations' = [operations EXCEPT ![p].status = status]
      BY <2>1 DEF SettleEvent
    <3>2. Verdict(p) # "stale"
      BY DEF Verdict, Core, ActiveOperationIsCurrent, Active, ActiveStatus
    <3>3. status # "stale" \/ status = operations[p].status
      BY <3>2
    <3> HIDE DEF status
    <3> QED BY <1>1, <3>1, <3>3
  <2>2. CASE DispatchEvent(p)
    <3> DEFINE n == NodeOf(p)
               k == nodes[n].epoch
    <3>1. operations' = [operations EXCEPT ![p].status = "running", ![p].node = n, ![p].epoch = k]
      BY <2>2 DEF DispatchEvent
    <3> HIDE DEF n, k
    <3> QED BY <1>0, <3>1 DEF OperationRow
  <2> QED BY <1>2, <1>3, <1>4, <2>1, <2>2 DEF processOne, DeferEvent, DeleteUnassigned
<1>5. ASSUME NEW n \in Nodes, NEW s \in Sessions, NEW R, HeartbeatTakeover(n, s, R)
      PROVE  FALSE
  <2> DEFINE old == nodes[n].epoch
             H == operations[o].node = n /\ operations[o].epoch = old /\ Active(o)
             Z == operations[o].action = "delete" /\ Active(o)
  <2>1. operations'[o] = IF ~H THEN operations[o]
                         ELSE IF Z
                         THEN [operations[o] EXCEPT !.status = "running", !.epoch = old + 1]
                         ELSE [operations[o] EXCEPT !.status = "failed"]
    BY <1>5 DEF HeartbeatTakeover
  <2> HIDE DEF old, H, Z
  <2> QED BY <1>0, <2>1 DEF OperationRow
<1>6. ASSUME NEW n \in Nodes, NEW b, claimAgentCommand(n, b)
      PROVE  FALSE
  <2>1. ASSUME NEW p \in Ops, ClaimExhausted(n, b, p)
        PROVE  FALSE
    <3> DEFINE status == IF operations[p].status = "running" THEN "failed"
                         ELSE operations[p].status
    <3>1. operations' = [operations EXCEPT ![p].status = status]
      BY <2>1 DEF ClaimExhausted
    <3>2. status # "stale" \/ status = operations[p].status
      OBVIOUS
    <3> HIDE DEF status
    <3> QED BY <1>1, <3>1, <3>2
  <2> QED BY <1>2, <1>6, <2>1 DEF claimAgentCommand, ClaimNothing, ClaimLease, ClaimCancelled
<1>7. ASSUME NEW m \in claims, recordAgentResult(m)
      PROVE  FALSE
  <2>1. m.op \in Ops
    BY <1>0 DEF TypeOK, Claim
  <2>2. ASSUME NEW outcome \in {"succeeded", "failed"}, ResultFinal(m, outcome)
        PROVE  FALSE
    BY <1>1, <2>1, <2>2 DEF ResultFinal
  <2> QED BY <1>2, <1>3, <1>7, <2>1, <2>2 DEF recordAgentResult, ResultUnknown, ResultDeleted
<1>8. CASE Agents
  BY <1>2, <1>5, <1>6, <1>7, <1>8
     DEF Agents, HeartbeatSame, HeartbeatFirst, recordAgentReceipt, recordAgentProgress
<1>9. CASE Time
  BY <1>2, <1>9
     DEF Time, GraceElapses, DeferralElapses, LeaseExpires, NodeGoesStale, TelemetryGoesStale
<1> QED BY <1>4, <1>8, <1>9

LEMMA DeletionGoesStale ==
  ASSUME Ledger, [Next]_vars, NEW o \in Ops, Active(o), operations[o].action = "delete",
         operations'[o].status = "stale"
  PROVE  \E n \in Nodes : operations[o].node = n /\ ~Authorized(n)'
<1>0. /\ Core /\ TypeOK /\ operations \in [Ops -> OperationRow]
      /\ \A x \in Nodes : PoolBooks(x)
      /\ operations[o].status # "stale"
  BY DEF Ledger, Books, Core, TypeOK, Active, ActiveStatus
<1>1. ~(Requests \/ Worker \/ Agents \/ Time)
  BY <1>0, RequestsSpareDeletions, WorkEndsOtherwise DEF Worker
<1>2. PlatformOwner
  BY <1>0, <1>1 DEF Next, vars
<1>3. PICK n \in Nodes :
        \/ ShareNode(n) \/ UnshareNode(n) \/ grantSharedNode(n) \/ grantNode(n)
        \/ revokeNodeGrant(n) \/ revokeSharedNode(n) \/ deleteNode(n)
  BY <1>2 DEF PlatformOwner
<1>4. PICK c \in BOOLEAN : /\ InvalidateIf(c, n)
                           /\ c => (~nodes'[n].owned \/ nodes'[n].revoked) /\ ~nodes'[n].granted
  BY <1>0, <1>3, AccessFacts
<1>5. c /\ operations[o].node = n
  BY <1>0, <1>4 DEF InvalidateIf, InvalidateLeases
<1> QED BY <1>4, <1>5 DEF Authorized

-----------------------------------------------------------------------------
(* Theorems *)

\* The transactional outbox loses nothing: a queued operation has the event
\* that will dispatch it and no command, and an open event has its operation.
THEOREM QueuedOperationsHaveEvents == Spec => []QueuedOperationHasEvent
<1>1. Ledger => QueuedOperationHasEvent
  BY DEF Ledger, Books, RowBooks, EventBooks, QueuedOperationHasEvent, OpenEvent
<1> QED BY <1>1, LedgerInitially, LedgerStep, PTL DEF Spec

\* Nothing of a deleted endpoint can reach an agent or the worker again.
THEOREM DeletedEndpointsAreQuiet == Spec => []DeletedEndpointIsQuiet
<1>1. Ledger => DeletedEndpointIsQuiet
  BY DEF Ledger, Books, RowBooks, DeletedBooks, DeletedEndpointIsQuiet
<1> QED BY <1>1, LedgerInitially, LedgerStep, PTL DEF Spec

\* A lease is held under the node and epoch of its operation, which runs unless
\* a node that left its owner was withdrawn from under it.
THEOREM LeasedCommandsAreRunning == Spec => []LeasedCommandIsRunning
<1>1. ASSUME Ledger, NEW o \in Ops, commands[o].status = "leased"
      PROVE  /\ operations[o].node = commands[o].node
             /\ operations[o].epoch = commands[o].epoch
             /\ commands[o].node \in Nodes
             /\ commands[o].epoch = nodes[commands[o].node].epoch
             /\ ~commands[o].resulted
             /\ \/ operations[o].status = "running"
                \/ operations[o].status = "stale" /\ ~nodes[commands[o].node].owned
  <2>1. CommandBooks(o) /\ LeaseBooks(o)
    BY <1>1 DEF Ledger, Books, RowBooks
  <2> QED BY <1>1, <2>1 DEF CommandBooks, LeaseBooks, LiveCommand
<1>2. Ledger => LeasedCommandIsRunning
  BY <1>1 DEF LeasedCommandIsRunning
<1> QED BY <1>2, LedgerInitially, LedgerStep, PTL DEF Spec

\* A running operation is never lost: its command is live under the same node
\* and epoch, or the claim guard cancelled it after the node left its owner.
THEOREM RunningOperationsHaveCommands == Spec => []RunningOperationHasCommand
<1>1. Ledger => RunningOperationHasCommand
  BY DEF Ledger, Books, RowBooks, RunningBooks, CommandBooks, RunningOperationHasCommand
<1> QED BY <1>1, LedgerInitially, LedgerStep, PTL DEF Spec

\* A session that was taken over never owns the node again, and every claim it
\* still holds carries an epoch the node has left.
THEOREM RetiredSessionsStayOut == Spec => []RetiredSessionStaysOut
<1>1. Ledger => RetiredSessionStaysOut
  BY DEF Ledger, Books, SessionBooks, EpochBooks, RetiredSessionStaysOut
<1> QED BY <1>1, LedgerInitially, LedgerStep, PTL DEF Spec

\* In whatever order results arrive, the claim whose result is applied is the
\* newest one handed out for the operation.
THEOREM NewestClaimWins == Spec => []NewestClaimOnly
<1>1. ASSUME Ledger, NEW m \in claims, NEW x \in claims, ResultFence(m), x.op = m.op
      PROVE  x.id < m.id \/ (x.id = m.id /\ x.attempt <= m.attempt)
  <2>1. operations[m.op].status = "running"
    BY <1>1 DEF ResultFence
  <2>2. commands[m.op].id = m.id /\ commands[m.op].attempts = m.attempt
    BY <1>1 DEF ResultFence, SessionFence, AttemptFence
  <2>3. AttemptBooks(x)
    BY <1>1 DEF Ledger, Books
  <2> QED BY <1>1, <2>1, <2>2, <2>3 DEF AttemptBooks
<1>2. Ledger => NewestClaimOnly
  BY <1>1 DEF NewestClaimOnly
<1> QED BY <1>2, LedgerInitially, LedgerStep, PTL DEF Spec

\* The step that takes a grant away ends the work its node holds.
THEOREM RevocationsEndLeases == Spec => RevocationEndsLeases
<1>1. Ledger /\ [Next]_vars =>
        [\A n \in Nodes, o \in Ops :
           nodes[n].granted /\ ~nodes'[n].granted =>
             /\ ~(operations'[o].node = n /\ operations'[o].status = "running")
             /\ ~(commands'[o].node = n /\ commands'[o].status = "leased")]_vars
  BY GrantTaken
<1> QED BY <1>1, LedgerInitially, LedgerStep, PTL DEF Spec, RevocationEndsLeases

\* Nothing supersedes a deletion under way: it goes stale only with its node.
THEOREM DeletionsAreNotSuperseded == Spec => DeletionIsNotSuperseded
<1>1. Ledger /\ [Next]_vars =>
        [\A o \in Ops :
           Active(o) /\ operations[o].action = "delete" /\ operations'[o].status = "stale"
             => \E n \in Nodes : operations[o].node = n /\ ~Authorized(n)']_vars
  BY DeletionGoesStale
<1> QED BY <1>1, LedgerInitially, LedgerStep, PTL DEF Spec, DeletionIsNotSuperseded

=============================================================================
