---------------------------- MODULE RuntimeState ----------------------------
(***************************************************************************)
(* What a runtime provider of the agent works on: the commands it is given  *)
(* for one endpoint, its own process and the state directory, and the host  *)
(* that carries the endpoint's workload and durable data.                   *)
(*                                                                          *)
(* A provider (NapCat, SnowLuma, LLBot) turns a command into a plan, a      *)
(* sequence of calls; each call is one action of DockerDriver or            *)
(* KubernetesDriver, so a crash, an error or a lost lease can fall between  *)
(* any two of them.                                                         *)
(***************************************************************************)
EXTENDS Naturals, Sequences

CONSTANTS
  Setups,       \* provider, backend and capacity of the node: one is chosen in Init
  Actions,      \* actions commands may ask for in this instance
  MaxCommands,  \* bound: commands ever issued for the endpoint
  MaxFaults,    \* bound: crashes, errors, lost leases, outages and slow pods together
  None

ProviderNames == {"napcat", "snowluma", "llbot"}
Backends == {"docker", "kubernetes"}
AllActions ==
  {"start", "stop", "restart", "force-restart", "delete", "refresh-login-qr",
   "read-container-logs", "update-onebot-websockets", "update-endpoint-proxy"}

\* `room` says whether the node can also place a workload with big resources.
Setup == [provider: ProviderNames, backend: Backends, room: BOOLEAN]

\* A spec stands for everything a provider compares for drift: the resources,
\* and the rest of it, which is the image, the proxy environment and the mounts.
Specs == [resources: {"small", "big"}, rest: {"old", "new"}]
Small == [resources |-> "small", rest |-> "old"]
Big == [resources |-> "big", rest |-> "new"]
Command == [action: AllActions, spec: Specs, desired: {"running", "stopped"}]
Generations == 1..MaxCommands

ASSUME RuntimeAssumption ==
  /\ Setups \subseteq Setup
  /\ Actions \subseteq AllActions
  /\ MaxCommands \in Nat /\ MaxFaults \in Nat

VARIABLES
  setup,     \* the provider and backend of this behaviour
  commands,  \* commands issued, in the order of their generations
  outcome,   \* what became of each of them
  proc,      \* the agent process: command in hand, calls left, memory
  saved,     \* runtime-commands.json: generation of the endpoint's entry, or 0
  host,      \* workload, pod, durable data, supporting objects, registry
  acted,     \* history: highest generation that changed the host
  faults     \* faults so far

vars == <<setup, commands, outcome, proc, saved, host, acted, faults>>

-----------------------------------------------------------------------------
(* Records *)

\* A Docker container, or a StatefulSet: `on` is running, or replicas = 1, and
\* `marker` the restart annotation of the template.
Workload == [owner: {"ours", "foreign"}, spec: Specs, id: Nat, on: BOOLEAN, marker: Nat]

\* The pod of a StatefulSet.
Pod == [id: Nat, spec: Specs, marker: Nat, phase: {"pending", "running", "terminating"}]

Host ==
  [workload: Workload \cup {None}, pod: Pod \cup {None},
   data: {"none", "ours", "foreign"},    \* login state: host directories, or the claim
   support: BOOLEAN,                     \* Services, Secret and NetworkPolicy exist
   registry: {"local", "up", "down"},    \* the image is on the node, fetchable, or neither
   exited: BOOLEAN,                      \* the container stopped by itself since it was started
   ids: Nat]                             \* ids given out

\* What inspect returned when the command began.
View == [owner: {"ours", "foreign"}, spec: Specs, id: Nat, running: BOOLEAN]

\* What a restart remembers of the pod it replaces, and the template's marker.
Seen == [id: Nat, spec: Specs, previous: Nat]

ASSUME NoneAssumption == None \notin Workload \cup Pod \cup View \cup Seen \cup Nat

\* `memory` is the generation in the commands map, None until it was loaded.
Process ==
  [cur: 0..MaxCommands, todo: Seq(STRING), existing: View \cup {None},
   seen: Seen \cup {None}, memory: (0..MaxCommands) \cup {None}]

FreshProcess ==
  [cur |-> 0, todo |-> <<>>, existing |-> None, seen |-> None, memory |-> None]

\* The running process between two commands.
Idle == [FreshProcess EXCEPT !.memory = proc.memory]

\* The types; a command is in hand exactly while calls of its plan are left.
TypeOK ==
  /\ setup \in Setups
  /\ commands \in Seq(Command) /\ Len(commands) <= MaxCommands
  /\ outcome \in [Generations -> {"unsent", "leased", "stale", "late", "succeeded", "failed"}]
  /\ proc.cur \in 0..Len(commands)
  /\ proc.existing \in View \cup {None}
  /\ proc.seen \in Seen \cup {None}
  /\ proc.memory \in (0..MaxCommands) \cup {None}
  /\ (proc.cur = 0) = (proc.todo = <<>>)
  /\ saved \in 0..MaxCommands
  /\ host \in Host
  /\ acted \in 0..MaxCommands
  /\ faults \in 0..MaxFaults

-----------------------------------------------------------------------------
(* The calls of a plan *)

Kubernetes == setup.backend = "kubernetes"
Cmd == commands[proc.cur]

\* The next call of the plan is `call`.
At(call) == proc.todo # <<>> /\ Head(proc.todo) = call
Rest == [proc EXCEPT !.todo = Tail(@)]

\* The call returns, leaving the host as `new`.
Returns(new) ==
  /\ proc' = Rest
  /\ host' = new
  /\ acted' = IF new = host THEN acted ELSE proc.cur
  /\ UNCHANGED <<setup, commands, outcome, saved, faults>>

\* The call turns into others, and the host stays as it is.
Becomes(calls) ==
  /\ proc' = [proc EXCEPT !.todo = calls \o Tail(@)]
  /\ UNCHANGED <<setup, commands, outcome, saved, host, acted, faults>>

\* The command throws: the agent records a failed result.
Throws ==
  /\ proc' = Idle
  /\ outcome' = [outcome EXCEPT ![proc.cur] = IF @ = "leased" THEN "failed" ELSE @]
  /\ UNCHANGED <<setup, commands, saved, host, acted, faults>>

\* The call needs `condition`, and throws without it.
Needs(condition, new) == \/ condition /\ Returns(new)
                         \/ ~condition /\ Throws

When(condition, calls) == IF condition THEN calls ELSE <<>>

Set(field, value) == [host EXCEPT ![field] = value]
=============================================================================
