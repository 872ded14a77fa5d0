------------------------------ MODULE Runtime -------------------------------
(***************************************************************************)
(* The runtime providers of the agent: how NapCat, SnowLuma and LLBot turn  *)
(* a command into calls of the Docker client, of the Kubernetes driver, or  *)
(* of the adapter that shows Kubernetes as Docker, and what a crash, an     *)
(* error, a lost lease or a slow cluster leaves behind between two calls.   *)
(***************************************************************************)
EXTENDS DockerDriver, KubernetesDriver

Lifecycle == {"start", "stop", "restart", "force-restart", "update-endpoint-proxy"}

\* inspect: an id is the pod's on Kubernetes, the StatefulSet's without a pod.
Inspected ==
  IF host.workload = None THEN None
  ELSE [owner |-> host.workload.owner, spec |-> host.workload.spec,
        id |-> IF host.pod = None THEN host.workload.id ELSE host.pod.id,
        running |-> IF Kubernetes THEN IsRunning ELSE host.workload.on]

-----------------------------------------------------------------------------
(* Plans: the calls a provider makes for command c, given what it inspected. *)

Throw == <<"throw">>
Record == <<"record">>
IsRunningView(view) == view # None /\ view.running

Ensure == <<"support", "claim", "workload">>

\* The claim goes last, and only with the endpoint: the pod mounts it until then.
AdaptedRemoval(call) ==
  CASE call = "rm"      -> <<"drop">>
    [] call = "discard" -> <<"drop", "dropData">>
    [] call = "rmHost"  -> <<>>

\* What the adapter makes of a call of the Docker client.
Adapted(call) ==
  CASE call \in {"rm", "discard", "rmHost"} -> AdaptedRemoval(call)
    [] call = "create"  -> Ensure
    [] call = "start"   -> <<"scaleUp", "awaitRunning">>
    [] call = "startId" -> <<"resolve", "scaleUp", "awaitRunning">>
    [] call = "kill"    -> <<"resolve", "mark">>
    [] call = "restart" -> <<"mark">>
    [] call = "stop"    -> <<"scaleDown", "awaitGone">>
    [] call = "dirs"    -> <<>>
    [] OTHER -> <<call>>

\* On Docker, discarding data is removeHostEndpoint's work.
Plain(call) == IF call = "discard" THEN <<"rm">> ELSE <<call>>

\* A call of the Docker client, through the adapter where the backend is Kubernetes.
Client(call) == IF Kubernetes THEN Adapted(call) ELSE Plain(call)

\* NapCat with a Docker client.  A changed proxy alone replaces the container of
\* an endpoint that is meant to stay stopped; there the spec is its proxy.
ReplaceContainer(view) ==
  When(view # None, Client("rm")) \o Client("dirs") \o Client("create")

NapCatLifecycle(c, view) ==
  LET created == c.action # "stop" /\ (view = None \/ view.spec # c.spec) IN
  When(created, ReplaceContainer(view))
    \o (CASE c.action = "stop"    -> When(view # None, <<"stop">>)
          [] c.action = "restart" -> <<"restart">>
          [] OTHER                -> When(created, <<"start">>))
    \o When(c.action = "refresh-login-qr",
            IF created \/ IsRunningView(view) THEN <<"provider">> ELSE Throw)

NapCatDocker(c, view) ==
  CASE c.action = "delete" -> When(view # None, <<"rm">>) \o <<"rmHost", "forget">>
    [] c.action = "force-restart" ->
         <<"save">> \o (IF view = None THEN Throw
                        ELSE When(view.running, <<"kill">>) \o <<"startId", "verify">>)
    [] c.action = "read-container-logs" ->
         <<"save">> \o (IF view = None THEN Throw ELSE <<"provider">>)
    [] c.action = "update-onebot-websockets" ->
         <<"save">> \o (IF IsRunningView(view) THEN <<"provider">> ELSE Throw)
    [] c.action = "update-endpoint-proxy" /\ c.desired = "stopped" ->
         <<"save">> \o When(view # None /\ view.spec # c.spec, <<"rm">>)
    [] OTHER -> <<"save">> \o NapCatLifecycle(c, view)

\* NapCat with the Kubernetes driver; what is no lifecycle takes the plan above.
NapCatDriver(c, view) ==
  LET stopped == c.action = "stop" \/ (c.action = "update-endpoint-proxy" /\ c.desired = "stopped")
  IN
  CASE c.action = "delete" -> <<"drop", "dropData", "forget">>
    [] c.action \in Lifecycle ->
         <<"save">> \o When(c.action # "stop", Ensure)
           \o (CASE stopped -> When(view # None \/ c.action # "stop", <<"scaleDown", "awaitGone">>)
                 [] c.action = "start" -> <<"scaleUp", "awaitRunning">>
                 [] OTHER -> <<"mark">>)
           \o <<"save">>
    [] c.action = "refresh-login-qr" ->
         <<"save">> \o (IF IsRunningView(view) THEN <<"provider">> ELSE Throw)
    [] OTHER -> NapCatDocker(c, view)

\* SnowLuma and LLBot know only a Docker client.  On Kubernetes the resources
\* inspect reports never equal the desired ones: the swap limit it gives is the
\* memory limit, where the provider asks for 512 MiB more.
Drift(c, view) == view = None \/ view.spec # c.spec \/ Kubernetes

\* Only SnowLuma makes sure of the image before it gives the old runtime up.
SnowlumaReplace(view) == Client("pull") \o ReplaceContainer(view)
LLBotReplace(view) == ReplaceContainer(view)

Replace(c, view) ==
  When(c.action # "stop" /\ Drift(c, view),
       IF setup.provider = "snowluma" THEN SnowlumaReplace(view) ELSE LLBotReplace(view))

ForceRestart(view) ==
  IF view = None THEN Throw ELSE When(view.running, Client("kill")) \o Client("startId")

ChangeState(c, view) ==
  CASE c.action = "stop" -> When(view # None, Client("stop"))
    [] c.action = "force-restart" -> ForceRestart(view)
    [] c.action = "start" -> Client("start")
    [] OTHER -> Client("restart")

\* SnowLuma reloads its OneBot service, LLBot only with the whole runtime.
SnowlumaOneBot == <<"save", "provider">>
LLBotOneBot == <<"save", "provider">> \o Client("restart")

DeleteEndpoint(view) == When(view # None, Client("discard")) \o Client("rmHost") \o <<"forget">>

DockerProvider(c, view) ==
  CASE c.action = "delete" -> DeleteEndpoint(view)
    [] c.action = "read-container-logs" -> IF view = None THEN Throw ELSE <<"provider">>
    [] c.action = "refresh-login-qr" -> Throw
    [] c.action = "update-onebot-websockets" ->
         IF ~IsRunningView(view) THEN Throw
         ELSE IF setup.provider = "snowluma" THEN SnowlumaOneBot ELSE LLBotOneBot
    [] c.action = "update-endpoint-proxy" /\ view # None /\ ~IsRunningView(view) -> <<"save">>
    [] OTHER -> Replace(c, view) \o ChangeState(c, view) \o <<"save">>

Plan(c, view) ==
  (CASE setup.provider = "napcat" /\ Kubernetes  -> NapCatDriver(c, view)
     [] setup.provider = "napcat" /\ ~Kubernetes -> NapCatDocker(c, view)
     [] OTHER                                    -> DockerProvider(c, view))
  \o Record

-----------------------------------------------------------------------------
(* The agent *)

FencedNever(known, g) == FALSE

\* The generation fence: the last accepted command is newer than g.
Fenced(known, g) == known > g

\* A process reads the accepted commands once.
LoadCommands == IF proc.memory = None THEN saved ELSE proc.memory

\* ownsContainer, by the labels of the workspace, the endpoint and the provider.
ForeignWorkload == host.workload # None /\ host.workload.owner = "foreign"

\* applySerial up to the plan: load the accepted commands, refuse one older
\* than the last accepted, inspect, refuse a workload of another owner.  A
\* superseded command may turn up late, once.
Accept(g) ==
  LET known == LoadCommands
      refused == Fenced(known, g) \/ ForeignWorkload IN
  /\ proc.cur = 0
  /\ outcome[g] \in {"leased", "stale"}
  /\ proc' = IF refused THEN [proc EXCEPT !.memory = known]
             ELSE [proc EXCEPT !.memory = known, !.cur = g, !.existing = Inspected,
                               !.todo = Plan(commands[g], Inspected)]
  /\ outcome' = [outcome EXCEPT ![g] = IF @ = "stale" THEN "late"
                                        ELSE IF refused THEN "failed" ELSE @]
  /\ UNCHANGED <<setup, commands, saved, host, acted, faults>>

\* persistCommands with this command's entry, or without the endpoint's.
Save ==
  /\ At("save")
  /\ proc' = [Rest EXCEPT !.memory = proc.cur]
  /\ saved' = proc.cur
  /\ UNCHANGED <<setup, commands, outcome, host, acted, faults>>

Forget ==
  /\ At("forget")
  /\ proc' = [Rest EXCEPT !.memory = 0]
  /\ saved' = 0
  /\ UNCHANGED <<setup, commands, outcome, host, acted, faults>>

\* An exchange with the provider inside the runtime changes nothing here.
AskProvider == At("provider") /\ Returns(host)

ThrowError == At("throw") /\ Throws

RecordResultOnly ==
  /\ At("record")
  /\ proc' = Rest
  /\ outcome' = [outcome EXCEPT ![proc.cur] = IF @ = "leased" THEN "succeeded" ELSE @]
  /\ UNCHANGED <<setup, commands, saved, host, acted, faults>>

\* The result is recorded; for a command superseded meanwhile it is refused.
RecordResult ==
  /\ At("record")
  /\ proc' = Idle
  /\ outcome' = [outcome EXCEPT ![proc.cur] = IF @ = "leased" THEN "succeeded" ELSE @]
  /\ UNCHANGED <<setup, commands, saved, host, acted, faults>>

AgentCall ==
  DockerCall \/ KubernetesCall \/ Save \/ Forget \/ AskProvider \/ ThrowError \/ RecordResult

-----------------------------------------------------------------------------
(* What happens to the agent and to its host *)

Deleted == \E g \in 1..Len(commands): commands[g].action = "delete" /\ outcome[g] = "succeeded"

\* The control plane has one unfinished command for an endpoint; a forced restart
\* and the deletion of an expired workspace's endpoint supersede it.
Superseding == {"force-restart", "delete"}

Issue(c) ==
  LET open == {g \in 1..Len(commands): outcome[g] = "leased"} IN
  /\ ~Deleted /\ Len(commands) < MaxCommands
  /\ open = {} \/ c.action \in Superseding
  /\ commands' = Append(commands, c)
  /\ outcome' = [g \in Generations |-> IF g = Len(commands) + 1 THEN "leased"
                                       ELSE IF g \in open THEN "stale" ELSE outcome[g]]
  /\ UNCHANGED <<setup, proc, saved, host, acted, faults>>

Faulty == proc.cur # 0 /\ faults < MaxFaults /\ faults' = faults + 1

\* The process dies; its lease expires, and the command is claimed again.
Crash ==
  /\ Faulty
  /\ proc' = FreshProcess
  /\ UNCHANGED <<setup, commands, outcome, saved, host, acted>>

\* A report is refused or lost: the command ends here, and may be claimed again.
LeaseLost ==
  /\ Faulty
  /\ proc' = Idle
  /\ UNCHANGED <<setup, commands, outcome, saved, host, acted>>

\* A call fails without effect, or the deadline passes.  The commands map was
\* changed before the write that fails.
IoError ==
  /\ Faulty
  /\ proc' = [Idle EXCEPT !.memory = IF At("save") THEN proc.cur
                                     ELSE IF At("forget") THEN 0 ELSE @]
  /\ outcome' = [outcome EXCEPT ![proc.cur] = IF @ = "leased" THEN "failed" ELSE @]
  /\ UNCHANGED <<setup, commands, saved, host, acted>>

\* The registry goes down, for an image the node does not hold, or comes back.
RegistryFails ==
  /\ host.registry = "up" /\ faults < MaxFaults
  /\ host' = Set("registry", "down")
  /\ faults' = faults + 1
  /\ UNCHANGED <<setup, commands, outcome, proc, saved, acted>>

RegistryReturns ==
  /\ host.registry = "down"
  /\ host' = Set("registry", "up")
  /\ UNCHANGED <<setup, commands, outcome, proc, saved, acted, faults>>

-----------------------------------------------------------------------------
\* The desired state is read for a proxy update only, the spec by what may
\* create or replace a workload.
ReadsSpec == {"start", "restart", "force-restart", "update-endpoint-proxy", "refresh-login-qr"}

CommandInputs ==
  {c \in [action: Actions, spec: {Small, Big}, desired: {"running", "stopped"}]:
     /\ c.desired = "stopped" => c.action = "update-endpoint-proxy"
     /\ c.spec = Big => c.action \in ReadsSpec}

EmptyHost == [workload |-> None, pod |-> None, data |-> "none", support |-> FALSE,
              registry |-> "up", exited |-> FALSE, ids |-> 0]

\* An endpoint whose first command succeeded: running, or stopped since.
Provisioned(s, on) ==
  LET kubernetes == s.backend = "kubernetes" IN
  [EmptyHost EXCEPT
     !.workload = [owner |-> "ours", spec |-> Small, id |-> 1, on |-> on, marker |-> 0],
     !.pod = IF kubernetes /\ on
             THEN [id |-> 2, spec |-> Small, marker |-> 0, phase |-> "running"] ELSE None,
     !.data = "ours", !.support = kubernetes, !.ids = 2,
     !.registry = "local"]

\* The name is taken by a workload of another endpoint, or only its claim is.
Taken(s) ==
  {[EmptyHost EXCEPT !.workload = [owner |-> "foreign", spec |-> Small, id |-> 1,
                                   on |-> FALSE, marker |-> 0],
                     !.data = "foreign", !.ids = 1],
   [EmptyHost EXCEPT !.data = IF s.backend = "kubernetes" THEN "foreign" ELSE "none"]}

\* The command that provisioned an endpoint is generation 0 here.  SnowLuma's
\* replacement may need an image the node does not hold yet.
Init ==
  /\ setup \in Setups
  /\ host \in {EmptyHost} \cup Taken(setup)
             \cup {Provisioned(setup, on): on \in BOOLEAN}
             \cup {[Provisioned(s, TRUE) EXCEPT !.registry = "up"]:
                     s \in {setup} \cap [provider: {"snowluma"}, backend: Backends, room: BOOLEAN]}
  /\ commands = <<>> /\ saved = 0
  /\ outcome = [g \in Generations |-> "unsent"]
  /\ proc = FreshProcess
  /\ acted = 0 /\ faults = 0

Next ==
  \/ \E c \in CommandInputs: Issue(c)
  \/ \E g \in Generations: ~Deleted /\ Accept(g)
  \/ AgentCall
  \/ Crash \/ LeaseLost \/ IoError
  \/ ContainerExits \/ ClusterStep \/ WaitTimesOut
  \/ RegistryFails \/ RegistryReturns

\* The agent keeps working on the command in hand, and the cluster reconciles.
Fairness == WF_vars(AgentCall) /\ WF_vars(ClusterStep)

Spec == Init /\ [][Next]_vars /\ Fairness

-----------------------------------------------------------------------------
(* Properties *)

Serving == IF Kubernetes THEN IsRunning ELSE host.workload # None /\ host.workload.on
ServedSpec == IF Kubernetes THEN host.pod.spec ELSE host.workload.spec

\* What the agent can know of a container: it started it, and did not stop it.
Started == Serving \/ (~Kubernetes /\ host.workload # None /\ host.exited)
Succeeds(g) == outcome[g] = "leased" /\ outcome'[g] = "succeeded"

\* The login state of an endpoint goes only with a command to delete it: no
\* replacement, restart, crash or retry discards the directories or the claim.  A
\* workload or a claim of another endpoint under the same name stays as it is,
\* whatever commands come (ownsContainer, owned, and deleteData's owner).
DataKept ==
  [][/\ host.data = "ours" /\ host'.data = "none" => Cmd.action = "delete"
     /\ host.data = "foreign" => host'.data = "foreign"
     /\ (host.workload # None /\ host.workload.owner = "foreign") => host'.workload = host.workload]_vars

\* NapCat saves the command it accepted before it touches the runtime: after an
\* effect of a newer command, across crashes, errors and refused reports, no
\* older command that turns up again has one.  A deletion drops the fence.
FencedEffects ==
  [][setup.provider = "napcat" /\ acted' < acted
     => \E g \in 1..acted: commands[g].action = "delete"]_vars

\* The marker in the template makes a replayed restart keep the pod the first
\* attempt already brought up, instead of restarting the endpoint twice.
ReplayKeepsReplacement ==
  [][/\ setup.provider = "napcat" /\ IsRunning
     /\ proc.cur # 0 /\ host.pod.marker = proc.cur /\ ~At("dropStuck")
     => PodRuns(host'.pod)]_vars

\* SnowLuma gives a container up for a replacement only once the image of the
\* replacement is on the node: a registry outage leaves the old one serving.
OutageKeepsRuntime ==
  [][/\ setup.provider = "snowluma" /\ ~Kubernetes
     /\ host.workload # None /\ host'.workload = None
     => Cmd.action = "delete" \/ host.registry = "local"]_vars

\* apps/agent/src/runtime/kubernetes.ts:128-129, "Providers compare inspect()
\* against the desired configuration to detect drift, so the limits they asked for
\* have to come back or every reconcile looks like a change": a workload found
\* running with all that a command asks for is not replaced.
UnchangedIsKept ==
  [][/\ host.workload # None /\ host'.workload = None
     /\ Cmd.action # "delete" /\ proc.existing.running
     => proc.existing.spec # Cmd.spec]_vars

\* A deletion NapCat reports, or any provider on Docker, leaves neither the
\* workload nor its data, nor the supporting objects, nor the saved command.
DeletedMeansGone ==
  Deleted /\ (setup.provider = "napcat" \/ ~Kubernetes)
    => host.workload = None /\ host.data # "ours" /\ ~host.support /\ saved = 0

\* A restart that is reported done leaves the endpoint serving what the command
\* asked for, and a start leaves it serving, also when the command was replayed
\* after a crash, an error or a lost lease, or ran over what another command left
\* behind.  Three exceptions: a container may have exited by itself since it was
\* started; NapCat's start on Docker does not start a container it finds stopped;
\* on Kubernetes a second fault may take a pod that the fallback brought back for
\* the replacement.  On Docker it holds whatever the number of faults.
SuccessMeansServing ==
  [][\A g \in 1..Len(commands):
       Succeeds(g) /\ (Kubernetes => faults <= 1)
       => /\ commands[g].action = "restart" => Started /\ ServedSpec = commands[g].spec
          /\ commands[g].action = "start" /\ (setup.provider # "napcat" \/ Kubernetes) => Started]_vars

\* When a node has no room for the replacement, the endpoint comes back on the
\* resources it had, if nothing fails and no newer command comes meanwhile.
FallbackServes ==
  (At("restoreTemplate") /\ proc.seen.spec.resources = "small" /\ faults = 0)
    ~> \/ Kubernetes /\ IsRunning /\ host.pod.spec.resources = "small"
       \/ faults > 0
=============================================================================
