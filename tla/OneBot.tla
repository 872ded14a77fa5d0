------------------------------- MODULE OneBot -------------------------------
(***************************************************************************)
(* The OneBot websocket configuration of SnowLuma endpoints: SnowlumaRuntime *)
(* remembers what the console applied, in memory and in a file, because a    *)
(* container that restarts comes back without it, and restores it from       *)
(* there.  Commands and restores pass through one queue; restores are        *)
(* scheduled after a command and by the observations of the heartbeat.       *)
(*                                                                          *)
(* Operators marked "Defect" are variants of the definition that follows    *)
(* them, as a plausible bug would have it.                                   *)
(***************************************************************************)
EXTENDS Naturals, Sequences

CONSTANTS
  Endpoints,
  Base,        \* the configuration a container starts with
  Configs,     \* the configurations the console applies
  MaxCommands, \* bound: commands sent to the runtime
  MaxTries,    \* length of ONEBOT_RECONCILE_DELAYS_MS
  MaxFaults,   \* bound: crashes, container restarts, failed reads, writes and calls
  None

ASSUME OneBotAssumption ==
  /\ Base \notin Configs /\ None \notin Configs \cup {Base}
  /\ MaxCommands \in Nat /\ MaxFaults \in Nat /\ MaxTries \in Nat \ {0}

VARIABLES
  box,     \* the container: state, QQ logged in (its onebot file is readable), that file
  file,    \* snowluma-onebot-desired.json
  mem,     \* oneBotDesired
  loaded,  \* the file was read into it
  queue,   \* executionQueue: the first task runs
  at,      \* where the first task is, and the configuration it works with
  loop,    \* the try a scheduled restore is at, 0 when none is scheduled
  cooled,  \* the cooldown of the observations has passed
  sent,    \* commands so far
  applied, \* history: what the console's last update made live, unless superseded
  faults   \* faults so far

vars == <<box, file, mem, loaded, queue, at, loop, cooled, sent, applied, faults>>

Ready == [stage |-> "ready", config |-> None]
Stage(stage, config) == at' = [stage |-> stage, config |-> config]

Fault == faults < MaxFaults /\ faults' = faults + 1

Readable(e) == box[e].state = "running" /\ box[e].login
Writes(e, config) == box' = [box EXCEPT ![e].live = config]

\* A container that was created or restarted has the configuration of its image,
\* and no file to read before QQ has logged in again.
Fresh == [state |-> "running", login |-> FALSE, live |-> Base]

-----------------------------------------------------------------------------
(* The queue *)

\* Defect: a task does not wait for the file to be read.
AwaitsNothing == TRUE

\* Every task awaits loadOneBotDesired before it looks at the memory.
AwaitsLoad == loaded

IsCommand(task) == task.type # "restore"
Runs(type, stage) ==
  queue # <<>> /\ queue[1].type = type /\ at.stage = stage /\ AwaitsLoad
Subject == queue[1].endpoint

Schedule(e) == IF loop[e] = 0 THEN [loop EXCEPT ![e] = 1] ELSE loop

\* A command settled; all but stop and delete schedule a restore, failed or not.
CommandEnds ==
  /\ queue' = Tail(queue) /\ at' = Ready
  /\ loop' = IF queue[1].type \in {"stop", "delete"} THEN loop ELSE Schedule(Subject)

\* Restores that wait in the queue compare updatedAt with what they were based on.
Remember(e, config) ==
  /\ mem' = [mem EXCEPT ![e] = config]
  /\ queue' = [i \in DOMAIN queue |->
       IF queue[i].endpoint = e THEN [queue[i] EXCEPT !.current = FALSE] ELSE queue[i]]

\* Each persist writes the whole map.
Persist == file' = mem

\* The agent awaits a command before it asks for the next one.
Submit(e, type, config) ==
  /\ sent < MaxCommands /\ \A i \in DOMAIN queue: ~IsCommand(queue[i])
  /\ sent' = sent + 1
  /\ queue' = Append(queue, [type |-> type, endpoint |-> e, config |-> config, current |-> TRUE])
  /\ UNCHANGED <<box, file, mem, loaded, at, loop, cooled, applied, faults>>

Load ==
  /\ ~loaded
  /\ loaded' = TRUE /\ mem' = file
  /\ UNCHANGED <<box, file, queue, at, loop, cooled, sent, applied, faults>>

-----------------------------------------------------------------------------
(* Commands *)

\* Anything a command awaits may fail, at any stage.
CommandFails ==
  /\ queue # <<>> /\ IsCommand(queue[1]) /\ Fault
  /\ CommandEnds
  /\ UNCHANGED <<box, file, mem, loaded, cooled, sent, applied>>

Lifecycle ==
  \/ /\ Runs("restart", "ready")
     /\ box' = [box EXCEPT ![Subject] = Fresh]
     /\ CommandEnds
     /\ UNCHANGED <<file, mem, loaded, cooled, sent, applied, faults>>
  \/ /\ Runs("stop", "ready")
     /\ box' = [box EXCEPT ![Subject].state = IF @ = "running" THEN "stopped" ELSE @,
                           ![Subject].login = FALSE]
     /\ CommandEnds
     /\ UNCHANGED <<file, mem, loaded, cooled, sent, applied, faults>>

\* The deletion is persisted before the runtime's data goes.
Delete ==
  \/ /\ Runs("delete", "ready")
     /\ applied' = [applied EXCEPT ![Subject] = None]
     /\ IF mem[Subject] = None THEN Stage("remove", None) /\ UNCHANGED <<mem, queue>>
        ELSE Stage("forget", None) /\ Remember(Subject, None)
     /\ UNCHANGED <<box, file, loaded, loop, cooled, sent, faults>>
  \/ /\ Runs("delete", "forget")
     /\ Persist /\ Stage("remove", None)
     /\ UNCHANGED <<box, mem, loaded, queue, loop, cooled, sent, applied, faults>>
  \/ /\ Runs("delete", "remove")
     /\ box' = [box EXCEPT ![Subject] = [Fresh EXCEPT !.state = "absent"]]
     /\ CommandEnds
     /\ UNCHANGED <<file, mem, loaded, cooled, sent, applied, faults>>

\* An update needs a running container and the file of a logged-in QQ.
UpdateBegins ==
  /\ Runs("update", "ready")
  /\ IF ~Readable(Subject) THEN CommandEnds /\ UNCHANGED <<mem, applied>>
     ELSE /\ Remember(Subject, queue[1].config)
          /\ applied' = [applied EXCEPT ![Subject] = None]
          /\ Stage("writeAhead", queue[1].config)
          /\ UNCHANGED loop
  /\ UNCHANGED <<box, file, loaded, cooled, sent, faults>>

UpdateWritesAhead ==
  /\ Runs("update", "writeAhead")
  /\ Persist /\ Stage("apply", at.config)
  /\ UNCHANGED <<box, mem, loaded, queue, loop, cooled, sent, applied, faults>>

\* Through the WebUI, or by writing the file and reloading the service; either
\* needs the container.
UpdateApplies ==
  /\ Runs("update", "apply")
  /\ IF box[Subject].state # "running" THEN CommandEnds /\ UNCHANGED <<box, applied>>
     ELSE /\ Writes(Subject, at.config)
          /\ applied' = [applied EXCEPT ![Subject] = at.config]
          /\ Stage("reread", at.config)
          /\ UNCHANGED <<queue, loop>>
  /\ UNCHANGED <<file, mem, loaded, cooled, sent, faults>>

\* What is live now is what a restart has to restore.
UpdateRereads ==
  /\ Runs("update", "reread")
  /\ IF ~Readable(Subject) THEN CommandEnds /\ UNCHANGED mem
     ELSE Remember(Subject, box[Subject].live) /\ Stage("persist", at.config) /\ UNCHANGED loop
  /\ UNCHANGED <<box, file, loaded, cooled, sent, applied, faults>>

UpdatePersists ==
  /\ Runs("update", "persist")
  /\ Persist /\ CommandEnds
  /\ UNCHANGED <<box, mem, loaded, cooled, sent, applied, faults>>

Update == UpdateBegins \/ UpdateWritesAhead \/ UpdateApplies \/ UpdateRereads \/ UpdatePersists
-----------------------------------------------------------------------------
(* Restores *)

\* Defect: a loop that ran out of tries stays registered.
NextTryKept(e) == loop[e] + 1

\* The next delay, or the end of the loop.
NextTry(e) == IF loop[e] < MaxTries THEN loop[e] + 1 ELSE 0

TryAgain == loop' = [loop EXCEPT ![Subject] = NextTry(Subject)]
TriesEnd == loop' = [loop EXCEPT ![Subject] = 0]
Leave == queue' = Tail(queue) /\ at' = Ready

\* A delay has passed: the restore is queued behind what runs, and carries what
\* was remembered.
Try(e) ==
  /\ loaded /\ loop[e] \in 1..MaxTries
  /\ \A i \in DOMAIN queue: queue[i].endpoint = e => IsCommand(queue[i])
  /\ queue' = Append(queue, [type |-> "restore", endpoint |-> e, config |-> mem[e], current |-> TRUE])
  /\ UNCHANGED <<box, file, mem, loaded, at, loop, cooled, sent, applied, faults>>

\* The file cannot be read: the command that waits for it fails, or a try does.
LoadFails ==
  /\ ~loaded /\ Fault
  /\ \/ queue # <<>> /\ CommandEnds
     \/ \E e \in Endpoints: loop[e] # 0 /\ loop' = [loop EXCEPT ![e] = NextTry(e)]
                              /\ UNCHANGED <<queue, at>>
  /\ UNCHANGED <<box, file, mem, loaded, cooled, sent, applied>>

\* Nothing is remembered: what is live becomes the baseline.
Adopts ==
  \/ /\ Runs("restore", "ready") /\ mem[Subject] = None
     /\ IF Readable(Subject)
        THEN /\ Remember(Subject, box[Subject].live) /\ Stage("persist", None) /\ UNCHANGED loop
        ELSE Leave /\ TryAgain /\ UNCHANGED mem
     /\ UNCHANGED <<box, file, loaded, cooled, sent, applied, faults>>
  \/ /\ Runs("restore", "persist")
     /\ Persist /\ Leave /\ TriesEnd
     /\ UNCHANGED <<box, mem, loaded, cooled, sent, applied, faults>>

\* Defect: what was remembered when the restore was queued is written back.
RestoreBeginsAsQueued ==
  /\ Runs("restore", "ready") /\ mem[Subject] # None
  /\ LET e == Subject
         config == IF queue[1].config = None THEN mem[e] ELSE queue[1].config IN
     \/ box[e].state # "running" /\ Leave /\ TriesEnd
     \/ box[e].state = "running" /\ ~box[e].login /\ Leave /\ TryAgain
     \/ Readable(e) /\ box[e].live = config /\ Leave /\ TriesEnd
     \/ Readable(e) /\ box[e].live # config /\ Stage("restore", config) /\ UNCHANGED <<queue, loop>>
  /\ UNCHANGED <<box, file, mem, loaded, cooled, sent, applied, faults>>

\* A restore based on an older state tries again; a container that does not run
\* ends the loop, one without a file to read leaves it pending.
RestoreBegins ==
  /\ Runs("restore", "ready") /\ mem[Subject] # None
  /\ LET e == Subject
         newer == queue[1].config # None /\ ~queue[1].current IN
     \/ newer /\ Leave /\ TryAgain
     \/ ~newer /\ box[e].state # "running" /\ Leave /\ TriesEnd
     \/ ~newer /\ box[e].state = "running" /\ ~box[e].login /\ Leave /\ TryAgain
     \/ ~newer /\ Readable(e) /\ box[e].live = mem[e] /\ Leave /\ TriesEnd
     \/ /\ ~newer /\ Readable(e) /\ box[e].live # mem[e]
        /\ Stage("restore", mem[e]) /\ UNCHANGED <<queue, loop>>
  /\ UNCHANGED <<box, file, mem, loaded, cooled, sent, applied, faults>>

RestoreWrites ==
  /\ Runs("restore", "restore")
  /\ IF box[Subject].state = "running"
     THEN Writes(Subject, at.config) /\ TriesEnd
     ELSE UNCHANGED box /\ TryAgain
  /\ Leave
  /\ UNCHANGED <<file, mem, loaded, cooled, sent, applied, faults>>

\* A restore throws: before it wrote, or after, when the service is reloaded.
RestoreFails ==
  /\ queue # <<>> /\ ~IsCommand(queue[1]) /\ Fault
  /\ \/ UNCHANGED box
     \/ at.stage = "restore" /\ box[Subject].state = "running" /\ Writes(Subject, at.config)
  /\ Leave /\ TryAgain
  /\ UNCHANGED <<file, mem, loaded, cooled, sent, applied>>

\* Every observation of a running container may schedule a restore, once per
\* cooldown, of an endpoint that has something to restore.
Observe(e) ==
  /\ loaded /\ box[e].state = "running"
  /\ loop[e] = 0 /\ cooled[e] /\ mem[e] # None
  /\ loop' = Schedule(e) /\ cooled' = [cooled EXCEPT ![e] = FALSE]
  /\ UNCHANGED <<box, file, mem, loaded, queue, at, sent, applied, faults>>

CoolsDown(e) ==
  /\ ~cooled[e]
  /\ cooled' = [cooled EXCEPT ![e] = TRUE]
  /\ UNCHANGED <<box, file, mem, loaded, queue, at, loop, sent, applied, faults>>

-----------------------------------------------------------------------------
(* The container and the agent's process *)

LogsIn(e) ==
  /\ box[e].state = "running" /\ ~box[e].login
  /\ box' = [box EXCEPT ![e].login = TRUE]
  /\ UNCHANGED <<file, mem, loaded, queue, at, loop, cooled, sent, applied, faults>>

\* A restart without a command: the node rebooted, the container ran out of
\* memory.  An update that has not read its result back yet counts as undone.
ContainerRestarts(e) ==
  /\ box[e].state = "running" /\ Fault
  /\ box' = [box EXCEPT ![e] = Fresh]
  /\ applied' = [applied EXCEPT ![e] =
       IF queue # <<>> /\ Subject = e /\ at.stage = "reread" THEN None ELSE @]
  /\ UNCHANGED <<file, mem, loaded, queue, at, loop, cooled, sent>>

Crash ==
  /\ Fault
  /\ mem' = [e \in Endpoints |-> None] /\ loaded' = FALSE
  /\ queue' = <<>> /\ at' = Ready
  /\ loop' = [e \in Endpoints |-> 0] /\ cooled' = [e \in Endpoints |-> TRUE]
  /\ UNCHANGED <<box, file, sent, applied>>

-----------------------------------------------------------------------------

\* Endpoints that were configured before the agent kept this state.
Init ==
  /\ box = [e \in Endpoints |-> [Fresh EXCEPT !.login = TRUE]]
  /\ file = [e \in Endpoints |-> None] /\ mem = file /\ applied = file
  /\ loaded = FALSE /\ queue = <<>> /\ at = Ready
  /\ loop = [e \in Endpoints |-> 0] /\ cooled = [e \in Endpoints |-> TRUE]
  /\ sent = 0 /\ faults = 0

Queue ==
  \/ Lifecycle \/ Delete \/ Update
  \/ Adopts \/ RestoreBegins \/ RestoreWrites

Next ==
  \/ \E e \in Endpoints:
       \/ \E type \in {"restart", "stop", "delete"}: Submit(e, type, None)
       \/ \E config \in Configs: Submit(e, "update", config)
       \/ Try(e) \/ Observe(e) \/ CoolsDown(e) \/ LogsIn(e) \/ ContainerRestarts(e)
  \/ Load \/ LoadFails \/ Queue \/ CommandFails \/ RestoreFails \/ Crash

\* The event loop runs what is queued and due, the heartbeat observes, and QQ
\* logs in again with the session it kept.
Fairness ==
  /\ WF_vars(Load) /\ WF_vars(Queue)
  /\ \A e \in Endpoints:
       WF_vars(Try(e)) /\ WF_vars(Observe(e)) /\ WF_vars(CoolsDown(e)) /\ WF_vars(LogsIn(e))

Spec == Init /\ [][Next]_vars /\ Fairness

-----------------------------------------------------------------------------
(* Properties *)

\* What the console applied survives: the file has the configuration of the last
\* update that reached SnowLuma, whatever crashed, failed or was applied to
\* other endpoints since, and nothing else was adopted in its place.
UpdateIsRemembered ==
  \A e \in Endpoints: applied[e] # None => file[e] = applied[e]

\* A restore never takes back what the console applied, however long it waited
\* in the queue while updates passed it.
RestoreKeepsUpdate ==
  [][\A e \in Endpoints:
       queue # <<>> /\ queue[1].type = "restore" /\ applied[e] # None /\ box[e].live = applied[e]
         => \/ box'[e].live = applied[e]
            \/ ~box'[e].login]_vars

\* A container that restarts gets the configuration back: a restart the agent
\* was not told of, a login that takes longer than all tries, and a crash of
\* the agent only delay it.
UpdateIsRestored ==
  \A e \in Endpoints: \A c \in Configs:
    applied[e] = c ~> applied[e] # c \/ box[e].state # "running" \/ box[e].live = c
=============================================================================
