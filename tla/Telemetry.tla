----------------------------- MODULE Telemetry -------------------------------
(***************************************************************************)
(* What the agent tells the control plane about one endpoint.  Observation  *)
(* passes and commands take turns on the agent's main thread; NapCat's full  *)
(* snapshots also come from a flight in the background.  Caches of           *)
(* snapshots, credentials and traffic stand between the runtime and what is  *)
(* reported, and the generation of the last accepted command goes with it.  *)
(*                                                                         *)
(* Operators marked "Defect" are variants of the definition that follows     *)
(* them, as a plausible bug would have it.                                   *)
(***************************************************************************)
EXTENDS TrafficLog

CONSTANTS
  Setups,       \* provider, driver and budgets: one is chosen in Init
  SnapshotAge,  \* SnowLuma and LLBot give a snapshot younger than this again
  EnrichAge     \* NapCat fetches a new one in the background from this age on

Actions == {"start", "stop", "restart", "force-restart", "update-onebot-websockets"}
Configs == {"old", "new"}
Starts == Nat \ {0}        \* starts of the runtime, in order

\* The budgets bound the commands, what happens to the runtime by itself, failures,
\* and the lines logged: the first slots, each with a text.
Budgets == {"commands", "events", "faults"}

ASSUME TelemetryAssumption ==
  /\ \A s \in Setups:
       /\ s.provider \in {"napcat", "snowluma", "llbot"} /\ s.kubernetes \in BOOLEAN
       /\ s.actions \subseteq Actions /\ DOMAIN s.lines \subseteq Slots
       /\ \A b \in Budgets: s[b] \in Nat
  /\ {SnapshotAge, EnrichAge} \subseteq Nat \ {0}

VARIABLES
  setup,    \* the provider and the budgets of this behaviour
  box,      \* the runtime: running, its latest start, QQ logged in, OneBot configuration
  agent,    \* the provider's runtime, accepted generation, cached snapshot, credential
  threads,  \* what the main thread and the flight are at
  plane,    \* the control plane: generation, command to do, last observation
  left      \* what is left of the budgets

vars == <<lines, traffic, reads, setup, box, agent, threads, plane, left>>

\* The part of a snapshot that is at stake: which start of the runtime it was
\* read from, and the configuration.  None stands for a snapshot without it.
Metadata == [inc: Starts, config: Configs]
Snapshot == [gen: Nat, meta: Metadata \cup {None}, age: Nat]
Report == [gen: Nat, meta: Metadata \cup {None}]

Steps == {"idle", "effect", "traffic", "reading", "credential", "health", "login", "probe",
          "config", "offline"}

\* `gen`: the generation it began with; `token`: the credential it holds;
\* `retry`: that was rejected; `inc` and `config`: what it read.
Thread == [step: Steps, of: {"pass", "command", "flight"}, gen: Nat, token: Starts \cup {None},
           retry: BOOLEAN, inc: Starts \cup {None}, config: Configs \cup {None}]

IdleThread == [step |-> "idle", of |-> "pass", gen |-> 0, token |-> None, retry |-> FALSE,
               inc |-> None, config |-> None]

\* `runtime`: whether the agent's process has one for the provider, "starting" until
\* it has tried.  `floor`: history, the endpoint's start when the generation was
\* accepted.
TypeOK ==
  /\ TrafficTypeOK
  /\ setup \in Setups
  /\ box \in [on: BOOLEAN, inc: Starts, qq: BOOLEAN, config: Configs]
  /\ agent \in [runtime: {"starting", "warm", "cold"}, gen: Starts, floor: Starts,
                snapshot: Snapshot \cup {None}, cred: Starts \cup {None}]
  /\ threads \in [Readers -> Thread]
  /\ plane \in [gen: Starts, todo: Actions \cup {None}, seen: Report \cup {None}]
  /\ left \in [commands: Nat, events: Nat, faults: Nat]

NapCat == setup.provider = "napcat"
SnowLuma == setup.provider = "snowluma"
LLBot == setup.provider = "llbot"
Driver == NapCat /\ setup.kubernetes
At(t, step) == threads[t].step = step
Cached == agent.snapshot
Younger(age) == Cached # None /\ Cached.age < age

-----------------------------------------------------------------------------
(* How a thread ends *)

Rests(t) == threads' = [threads EXCEPT ![t] = IdleThread]
Goes(t, step) == threads' = [threads EXCEPT ![t].step = step, ![t].retry = FALSE]

\* An observation of another generation than the endpoint's is not stored.
Stores(gen, meta, todo) ==
  plane' = [plane EXCEPT !.todo = todo,
                         !.seen = IF gen = plane.gen THEN [gen |-> gen, meta |-> meta] ELSE @]

\* The flight's snapshot is kept if no newer command was accepted meanwhile.
Keeps(gen) == agent.gen = gen

\* A full snapshot is ready.  A command's goes into the operation's result and is
\* no observation's metadata, the flight's is cached, a pass of SnowLuma or LLBot
\* caches and reports it.
SnapshotEnds(t, meta) ==
  LET th == threads[t]
      cached == [agent EXCEPT !.snapshot = [gen |-> th.gen, meta |-> meta, age |-> 0]] IN
  /\ Rests(t)
  /\ CASE th.of = "command" -> Stores(th.gen, None, None) /\ UNCHANGED agent
       [] th.of = "flight" -> agent' = (IF Keeps(th.gen) THEN cached ELSE agent) /\ UNCHANGED plane
       [] th.of = "pass" -> agent' = cached /\ Stores(th.gen, meta, plane.todo)

\* Defect: a flight that throws stays registered.
ThrowsKeepingFlight(t) ==
  LET th == threads[t] IN
  /\ IF th.of = "flight" THEN Goes(t, "effect") ELSE Rests(t)
  /\ CASE th.of = "command" -> Stores(th.gen, None, None) /\ UNCHANGED agent
       [] th.of = "flight" -> UNCHANGED <<agent, plane>>
       [] th.of = "pass" -> agent' = [agent EXCEPT !.snapshot = None]
                            /\ Stores(th.gen, None, plane.todo)

\* What the thread is at throws.  A pass reports the endpoint degraded and drops
\* the cached snapshot, a command ends without one, a flight only ends.
Throws(t) ==
  LET th == threads[t] IN
  /\ Rests(t)
  /\ CASE th.of = "command" -> Stores(th.gen, None, None) /\ UNCHANGED agent
       [] th.of = "flight" -> UNCHANGED <<agent, plane>>
       [] th.of = "pass" -> agent' = [agent EXCEPT !.snapshot = None]
                            /\ Stores(th.gen, None, plane.todo)

-----------------------------------------------------------------------------
(* Asking NapCat.  A credential is good for the start of the runtime that gave *)
(* it: the runtime is external.                                               *)

Asking(t) == NapCat /\ threads[t].step \in {"health", "login", "config"}
Good(cred) == box.on /\ cred = box.inc

\* webCredential, with nothing cached: log in.
LogsIn(t) ==
  /\ At(t, "credential") \/ (Asking(t) /\ threads[t].retry)
  /\ agent.cred = None /\ box.on
  /\ agent' = [agent EXCEPT !.cred = box.inc]
  /\ UNCHANGED <<lines, traffic, reads, setup, box, threads, plane, left>>

HasCredential(t) ==
  /\ At(t, "credential") /\ agent.cred # None
  /\ threads' = [threads EXCEPT
       ![t].token = agent.cred,
       ![t].step = IF threads[t].of = "pass" THEN "health"
                   ELSE IF threads[t].inc = None THEN "login" ELSE "config"]
  /\ UNCHANGED <<lines, traffic, reads, setup, box, agent, plane, left>>

\* napcatRequest: a rejected credential is tried again with the cached one, if
\* another caller has put a newer one there.
Answered(t) == Asking(t) /\ (Good(agent.cred) \/ (~threads[t].retry /\ Good(threads[t].token)))

\* Nothing cached is good either.  A status of 401 drops it and logs in; a refusal
\* in the body only drops the very credential that was refused.
Rejected(t) ==
  /\ Asking(t) /\ box.on /\ ~threads[t].retry /\ ~Answered(t)
  /\ agent' = [agent EXCEPT !.cred = None]
  /\ threads' = [threads EXCEPT ![t].retry = TRUE]
  /\ UNCHANGED <<lines, traffic, reads, setup, box, plane, left>>

\* The runtime does not answer, the new credential is rejected as well, or the
\* refusal came in the body and the cached one was another caller's.
Unanswered(t) ==
  /\ \/ /\ ~box.on
        /\ Asking(t) \/ (At(t, "credential") /\ agent.cred = None)
     \/ /\ Asking(t) /\ ~Answered(t)
        /\ IF threads[t].retry THEN agent.cred # None ELSE agent.cred \notin {threads[t].token, None}
  /\ Throws(t)
  /\ UNCHANGED <<lines, traffic, reads, setup, box, left>>

-----------------------------------------------------------------------------
(* Traffic of a full snapshot *)

\* A summary that is not old enough yet is given again.  Bound: an instance
\* without lines leaves the reads out.
TrafficBegins(t, first) ==
  /\ At(t, "traffic") /\ Goes(t, "reading")
  /\ IF Summarised \/ setup.lines = <<>> THEN UNCHANGED trafficVars ELSE ReadStarts(t, first)
  /\ UNCHANGED <<setup, box, agent, plane, left>>

\* protocolTraffic: NapCat's first read is short, the others' goes back as far as
\* the accumulator does.
NapCatTraffic(t) == NapCat /\ TrafficBegins(t, MinSince)
SnowLumaTraffic(t) == SnowLuma /\ TrafficBegins(t, Window)
LLBotTraffic(t) == LLBot /\ TrafficBegins(t, Window)

TrafficEnded(t) == At(t, "reading") /\ reads[t] = None

-----------------------------------------------------------------------------
(* Full snapshots of NapCat: the traffic, the login state, the configuration *)

AsksLogin(t) ==
  /\ NapCat /\ TrafficEnded(t)
  /\ Goes(t, "credential")
  /\ UNCHANGED <<lines, traffic, reads, setup, box, agent, plane, left>>

\* Without a login the snapshot is a QR code's.
LoginAnswered(t) ==
  /\ At(t, "login") /\ Answered(t)
  /\ \/ /\ box.qq
        /\ threads' = [threads EXCEPT ![t].step = "credential", ![t].retry = FALSE, ![t].inc = box.inc]
        /\ UNCHANGED <<agent, plane>>
     \/ /\ ~box.qq
        /\ SnapshotEnds(t, None)
  /\ UNCHANGED <<lines, traffic, reads, setup, box, left>>

ConfigAnswered(t) ==
  /\ At(t, "config") /\ Answered(t)
  /\ SnapshotEnds(t, [inc |-> threads[t].inc, config |-> box.config])
  /\ UNCHANGED <<lines, traffic, reads, setup, box, left>>

\* A request, or an action of the debug adapter, fails or exceeds its time.
NapCatFails(t) ==
  /\ left.faults > 0
  /\ NapCat /\ (Asking(t) \/ At(t, "credential"))
  /\ Throws(t)
  /\ left' = [left EXCEPT !.faults = @ - 1]
  /\ UNCHANGED <<lines, traffic, reads, setup, box>>

-----------------------------------------------------------------------------
(* Full snapshots of SnowLuma and LLBot: the login state by their OneBot server, *)
(* the configuration, the traffic                                               *)

Reaches(t, step) ==
  /\ threads' = [threads EXCEPT ![t].step = step, ![t].inc = box.inc]
  /\ UNCHANGED <<agent, plane>>

\* The server starts with the login, and may outlive it.  Without it there is
\* no configuration in the snapshot, without a login no traffic.
Probes(t) ==
  /\ At(t, "probe")
  /\ \/ box.on /\ box.qq /\ Reaches(t, "config")
     \/ box.on /\ ~box.qq /\ Reaches(t, "offline")
     \/ ~(box.on /\ box.qq) /\ SnapshotEnds(t, None)
  /\ UNCHANGED <<lines, traffic, reads, setup, box, left>>

SnowLumaProbes(t) == SnowLuma /\ Probes(t)
LLBotProbes(t) == LLBot /\ Probes(t)

\* oneBotGet fails, for want of a token it may be.  get_status decides; LLBot also
\* wants get_login_info to believe in a login.
ProbeFails(t) ==
  /\ left.faults > 0 /\ At(t, "probe")
  /\ left' = [left EXCEPT !.faults = @ - 1]
  /\ UNCHANGED <<lines, traffic, reads, setup, box>>

SnowLumaProbeFails(t) == SnowLuma /\ ProbeFails(t) /\ SnapshotEnds(t, None)

LLBotProbeFails(t) ==
  /\ LLBot /\ ProbeFails(t)
  /\ \/ SnapshotEnds(t, None)
     \/ box.on /\ box.qq /\ Reaches(t, "offline")

\* The files of an endpoint are the host's, or read by a command in its pod.
PodReadable == box.on
FileReadable == setup.kubernetes => PodReadable

Meta(inc, config) == IF config = None THEN None ELSE [inc |-> inc, config |-> config]

\* oneBotEditorConfig: a file that cannot be read gives an empty editor.
Edits(t, config) ==
  /\ ~NapCat
  /\ \/ /\ At(t, "config")
        /\ threads' = [threads EXCEPT ![t].step = "traffic", ![t].config = config]
        /\ UNCHANGED <<agent, plane>>
     \/ /\ At(t, "offline")
        /\ SnapshotEnds(t, Meta(threads[t].inc, config))
  /\ UNCHANGED <<lines, traffic, reads, setup, box>>

ReadConfig == IF FileReadable THEN box.config ELSE None
SnowLumaConfig(t) == SnowLuma /\ Edits(t, ReadConfig) /\ UNCHANGED left
LLBotConfig(t) == LLBot /\ Edits(t, ReadConfig) /\ UNCHANGED left

FileFails(t) ==
  /\ left.faults > 0
  /\ Edits(t, None)
  /\ left' = [left EXCEPT !.faults = @ - 1]

OnlineEnds(t) ==
  /\ TrafficEnded(t)
  /\ SnapshotEnds(t, Meta(threads[t].inc, threads[t].config))
  /\ UNCHANGED <<lines, traffic, reads, setup, box, left>>

SnowLumaEnds(t) == SnowLuma /\ OnlineEnds(t)
LLBotEnds(t) == LLBot /\ OnlineEnds(t)

-----------------------------------------------------------------------------
(* Passes *)

Begins(t, of, step, gen) ==
  threads' = [threads EXCEPT ![t] = [IdleThread EXCEPT !.of = of, !.step = step, !.gen = gen]]

\* warm, before the first poll: a new process makes runtimes for the providers whose
\* state is on the node.  Without one the endpoint is not observed.
Warms ==
  /\ agent.runtime = "starting"
  /\ agent' = [agent EXCEPT !.runtime = "warm"]
  /\ UNCHANGED <<lines, traffic, reads, setup, box, threads, plane, left>>

WarmFails ==
  /\ agent.runtime = "starting" /\ left.faults > 0
  /\ agent' = [agent EXCEPT !.runtime = "cold"]
  /\ left' = [left EXCEPT !.faults = @ - 1]
  /\ UNCHANGED <<lines, traffic, reads, setup, box, threads, plane>>

\* collectObservations, when no command was claimed: inspect the container, and
\* report it stopped or begin to ask.
PassTurn == At("main", "idle") /\ agent.runtime = "warm" /\ plane.todo = None

\* A full snapshot of a container that is not running is this at once.
ReportsStopped(gen, todo) == Stores(gen, None, todo)

NapCatPass ==
  /\ NapCat /\ PassTurn
  /\ IF box.on THEN Begins("main", "pass", "credential", agent.gen) /\ UNCHANGED plane
               ELSE ReportsStopped(agent.gen, None) /\ UNCHANGED threads
  /\ UNCHANGED <<lines, traffic, reads, setup, box, agent, left>>

\* SnowLuma and LLBot report a young snapshot again while the container runs.
CachedPass ==
  /\ PassTurn
  /\ \/ /\ ~box.on
        /\ agent' = [agent EXCEPT !.snapshot = [gen |-> agent.gen, meta |-> None, age |-> 0]]
        /\ ReportsStopped(agent.gen, None)
        /\ UNCHANGED threads
     \/ /\ box.on /\ Younger(SnapshotAge)
        /\ Stores(Cached.gen, Cached.meta, None)
        /\ UNCHANGED <<agent, threads>>
     \/ /\ box.on /\ ~Younger(SnapshotAge)
        /\ Begins("main", "pass", "probe", agent.gen)
        /\ UNCHANGED <<agent, plane>>
  /\ UNCHANGED <<lines, traffic, reads, setup, box, left>>

SnowLumaPass == SnowLuma /\ CachedPass
LLBotPass == LLBot /\ CachedPass

\* Defect: whatever is cached.
AttachedAny(gen) == IF Cached # None THEN Cached.meta ELSE None

\* What NapCat's health pass adds to the login state.
Attached(gen) == IF Cached # None /\ Cached.gen = gen THEN Cached.meta ELSE None

\* NapCat's pass knows the login state: it reports it, and sends a flight for a
\* new snapshot when there is none, or an old one, and no flight is under way.
HealthAnswered ==
  /\ At("main", "health") /\ Answered("main")
  /\ Stores(threads["main"].gen, Attached(threads["main"].gen), plane.todo)
  /\ threads' = [threads EXCEPT
       !["main"] = IdleThread,
       !["flight"] = IF @.step = "idle" /\ ~Younger(EnrichAge)
                     THEN [IdleThread EXCEPT !.of = "flight", !.step = "traffic",
                                             !.gen = threads["main"].gen]
                     ELSE @]
  /\ UNCHANGED <<lines, traffic, reads, setup, box, agent, left>>

-----------------------------------------------------------------------------
(* Commands *)

\* A command is queued; one for the OneBot configuration keeps the generation.
Request(a) ==
  /\ left.commands > 0 /\ plane.todo = None /\ a \in setup.actions
  /\ plane' = [plane EXCEPT !.todo = a,
                            !.gen = IF a = "update-onebot-websockets" THEN @ ELSE @ + 1]
  /\ left' = [left EXCEPT !.commands = @ - 1]
  /\ UNCHANGED <<lines, traffic, reads, setup, box, agent, threads>>

Accepts(view, gen) ==
  IF view.gen = gen THEN view ELSE [view EXCEPT !.gen = gen, !.floor = box.inc]

\* What a command drops before it touches the runtime, and after.
DropsSnapshot(a, before) ==
  IF before THEN \/ a = "force-restart"
                 \/ a = "restart" /\ ~NapCat
                 \/ Driver /\ a # "update-onebot-websockets"
            ELSE a = "update-onebot-websockets" \/ Driver

DropsCredential(a, before) ==
  IF before THEN NapCat /\ ~Driver /\ a \in {"restart", "force-restart"}
            ELSE Driver /\ a # "update-onebot-websockets"

Dropped(view, a, before) ==
  [view EXCEPT !.snapshot = IF DropsSnapshot(a, before) THEN None ELSE @,
               !.cred = IF DropsCredential(a, before) THEN None ELSE @]

\* runtimeFor: a command gets its provider a runtime if there is none.
RuntimeFor(view) == [view EXCEPT !.runtime = "warm"]

CommandBegins(view) ==
  /\ At("main", "idle") /\ agent.runtime # "starting" /\ plane.todo # None
  /\ Begins("main", "command", "effect", plane.gen)
  /\ agent' = Dropped(RuntimeFor(view), plane.todo, TRUE)
  /\ UNCHANGED <<lines, traffic, reads, setup, box, plane, left>>

\* NapCat accepts a command before it acts, SnowLuma and LLBot afterwards.
NapCatBegins == NapCat /\ CommandBegins(Accepts(agent, plane.gen))
SnowLumaBegins == SnowLuma /\ CommandBegins(agent)
LLBotBegins == LLBot /\ CommandBegins(agent)

\* What kept it from being made may keep it again: the command fails.
RuntimeUnavailable ==
  /\ At("main", "idle") /\ agent.runtime = "cold" /\ plane.todo # None
  /\ Stores(plane.gen, None, None)
  /\ UNCHANGED <<lines, traffic, reads, setup, box, agent, threads, left>>

Started == [box EXCEPT !.on = TRUE, !.inc = @ + 1]

\* A start replaces what differs from the command's, and else leaves a running one
\* alone; NapCat's on Docker starts only what it created.
StartEffect == {Started} \cup {b \in {box}: box.on \/ (NapCat /\ ~Driver)}

\* The request is merged with the configuration found, into the same or another
\* one.  LLBot's file is read at a start, the others take it over.
Reconfigured == {[box EXCEPT !.config = c]: c \in Configs}
NapCatSets == IF NapCat THEN Reconfigured ELSE {}
SnowLumaWrites == IF SnowLuma THEN Reconfigured ELSE {}
LLBotWrites == IF LLBot THEN Reconfigured ELSE {}
LLBotRestarts == {[b EXCEPT !.inc = @ + 1]: b \in LLBotWrites}

UpdateEffect == IF box.on THEN NapCatSets \cup SnowLumaWrites \cup LLBotRestarts ELSE {}

Effect(a) ==
  CASE a = "stop" -> {[box EXCEPT !.on = FALSE]}
    [] a = "start" -> StartEffect
    [] a \in {"restart", "force-restart"} -> {Started}
    [] a = "update-onebot-websockets" -> UpdateEffect

\* What a command that fails may have done.
Partial(a) ==
  {box} \cup Effect(a)
    \cup (IF box.on /\ a = "update-onebot-websockets" THEN LLBotWrites ELSE {})

\* A new start may be of a new container, whose log is empty; on Kubernetes it is,
\* and the log goes with the pod.
BoxBecomes(new) ==
  /\ box' = new
  /\ IF setup.kubernetes
     THEN IF new.inc > box.inc \/ ~new.on THEN LogGone ELSE UNCHANGED lines
     ELSE UNCHANGED lines \/ (new.inc > box.inc /\ LogGone)

\* The command acts, and goes on to a snapshot of what it left running; only
\* NapCat's forced restart leaves that to the next pass.
CommandActs ==
  LET a == plane.todo
      gen == threads["main"].gen IN
  /\ At("main", "effect")
  /\ \E new \in Effect(a): BoxBecomes(new)
  /\ agent' = Dropped([Accepts(agent, gen) EXCEPT !.floor = IF agent.gen = gen THEN @ ELSE box'.inc], a, FALSE)
  /\ IF box'.on /\ ~(NapCat /\ ~Driver /\ a = "force-restart")
     THEN Goes("main", IF NapCat THEN "traffic" ELSE "probe") /\ UNCHANGED plane
     ELSE Rests("main") /\ Stores(gen, None, None)
  /\ UNCHANGED <<traffic, reads, setup, left>>

\* It fails, with the runtime changed or not: a failed result, or a lost lease
\* after which the command is handed out again.
CommandFails ==
  /\ At("main", "effect")
  /\ (plane.todo = "update-onebot-websockets" /\ ~box.on) \/ left.faults > 0
  /\ \E new \in Partial(plane.todo): BoxBecomes(new)
  /\ Rests("main")
  /\ UNCHANGED plane \/ Stores(threads["main"].gen, None, None)
  /\ left' = [left EXCEPT !.faults = IF @ > 0 THEN @ - 1 ELSE 0]
  /\ UNCHANGED <<traffic, reads, setup, agent>>

-----------------------------------------------------------------------------
(* What happens by itself *)

\* The agent's process ends and another one starts; commands it accepted are in a
\* file.
AgentDies ==
  /\ left.faults > 0
  /\ ForgetTraffic
  /\ agent' = [agent EXCEPT !.runtime = "starting", !.snapshot = None, !.cred = None]
  /\ threads' = [t \in Readers |-> IdleThread]
  /\ left' = [left EXCEPT !.faults = @ - 1]
  /\ UNCHANGED <<setup, box, plane>>

\* The runtime exits, comes back, restarts, loses or gains its login, or is
\* configured in its own console.
BoxEvents ==
  {[box EXCEPT !.on = FALSE], [box EXCEPT !.qq = ~@], Started}
    \cup {[box EXCEPT !.config = c]: c \in Configs}

BoxChanges ==
  /\ left.events > 0
  /\ \E new \in BoxEvents \ {box}: BoxBecomes(new)
  /\ left' = [left EXCEPT !.events = @ - 1]
  /\ UNCHANGED <<traffic, reads, setup, agent, threads, plane>>

Logs ==
  LET next == Cardinality(Present) + 1 IN
  /\ box.on /\ next \in DOMAIN setup.lines
  /\ LogLine(next, Known(setup.provider, setup.lines[next]))
  /\ UNCHANGED <<setup, box, agent, threads, plane, left>>

ReadProceeds(t) ==
  /\ LogAnswers(t) \/ ReadEnds(t) \/ ReadFails(t)
  /\ UNCHANGED <<setup, box, agent, threads, plane, left>>

Tick ==
  /\ MayWait /\ TrafficAges
  /\ agent' = IF Cached = None THEN agent
              ELSE [agent EXCEPT !.snapshot.age = Older(@, Sets!Max({EnrichAge, SnapshotAge}))]
  /\ UNCHANGED <<setup, box, threads, plane, left>>

-----------------------------------------------------------------------------
Init ==
  /\ TrafficInit
  /\ setup \in Setups
  /\ box = [on |-> TRUE, inc |-> 1, qq |-> TRUE, config |-> "old"]
  /\ agent = [runtime |-> "starting", gen |-> 1, floor |-> 1, snapshot |-> None, cred |-> None]
  /\ threads = [t \in Readers |-> IdleThread]
  /\ plane = [gen |-> 1, todo |-> None, seen |-> None]
  /\ left = [commands |-> setup.commands, events |-> setup.events, faults |-> setup.faults]

ThreadStep(t) ==
  \/ LogsIn(t) \/ HasCredential(t) \/ Rejected(t) \/ Unanswered(t)
  \/ NapCatTraffic(t) \/ AsksLogin(t) \/ LoginAnswered(t) \/ ConfigAnswered(t)
  \/ SnowLumaProbes(t) \/ SnowLumaConfig(t) \/ SnowLumaTraffic(t) \/ SnowLumaEnds(t)
  \/ LLBotProbes(t) \/ LLBotConfig(t) \/ LLBotTraffic(t) \/ LLBotEnds(t)

ThreadFault(t) == NapCatFails(t) \/ SnowLumaProbeFails(t) \/ LLBotProbeFails(t) \/ FileFails(t)

MainStep ==
  \/ Warms \/ ThreadStep("main") \/ HealthAnswered
  \/ NapCatPass \/ SnowLumaPass \/ LLBotPass
  \/ NapCatBegins \/ SnowLumaBegins \/ LLBotBegins \/ CommandActs

Next ==
  \/ MainStep \/ ThreadStep("flight")
  \/ WarmFails \/ RuntimeUnavailable \/ CommandFails \/ AgentDies \/ BoxChanges \/ Logs \/ Tick
  \/ \E a \in Actions: Request(a)
  \/ \E t \in Readers: ReadProceeds(t) \/ ThreadFault(t)

\* The main thread and the flight keep going, reads end, and time passes.
Fairness ==
  /\ WF_vars(MainStep) /\ WF_vars(ThreadStep("flight"))
  /\ \A t \in Readers: WF_vars(ReadProceeds(t))
  /\ WF_vars(Tick)

Spec == Init /\ [][Next]_vars /\ Fairness

-----------------------------------------------------------------------------
(* Properties *)

\* What is stored with a generation was read from the runtime as its command
\* found or left it, or later: no cached snapshot, and none a flight brings home
\* late, is passed off as the state after a newer command.
MetadataIsOfGeneration ==
  LET seen == plane.seen IN
  seen # None /\ seen.meta # None /\ seen.gen = agent.gen => seen.meta.inc >= agent.floor

\* Whatever the caches held, whichever exchanges failed and however credentials
\* went stale, once the endpoint stays up, logged in, observed and with the accepted
\* generation, its configuration is what the control plane ends up showing.
Settled == agent.runtime = "warm" /\ box.on /\ box.qq /\ agent.gen = plane.gen /\ plane.todo = None

ConfigIsReported ==
  <>[]Settled => <>[](/\ plane.seen # None /\ plane.seen.meta # None
                      /\ plane.seen.meta.config = box.config)
=============================================================================
