---------------------------- MODULE OneBotProofs ----------------------------
(***************************************************************************)
(* What the console applied is remembered, and no restore takes it back:    *)
(* proved for any endpoints, configurations, commands, tries and faults.    *)
(*                                                                          *)
(* The file is right only because the memory is, and the memory because an  *)
(* update writes it ahead and adopts what it reads back; the invariant says *)
(* what holds at each stage of the task that runs.                          *)
(***************************************************************************)
EXTENDS OneBot, SequenceTheorems, TLAPS

Stages == {"ready", "forget", "remove", "writeAhead", "apply", "reread", "persist", "restore"}
Value == Configs \cup {Base, None}
BoxRow == [state: {"running", "stopped", "absent"}, login: BOOLEAN, live: Value]
Task ==
  {t \in [type: {"restart", "stop", "delete", "update", "restore"}, endpoint: Endpoints,
          config: Value, current: BOOLEAN]: t.type = "update" => t.config \in Configs}

TypesOK ==
  /\ box \in [Endpoints -> BoxRow]
  /\ file \in [Endpoints -> Value] /\ mem \in [Endpoints -> Value]
  /\ applied \in [Endpoints -> Configs \cup {None}]
  /\ queue \in Seq(Task)
  /\ at \in [stage: Stages, config: Value]

\* The file and, once it was read, the memory have the last update.
AppliedIsKept ==
  \A e \in Endpoints: applied[e] # None =>
    file[e] = applied[e] /\ (loaded => mem[e] = applied[e])

\* What the stages of the running task rely on.
StageOK ==
  /\ at.stage # "ready" => queue # <<>> /\ loaded
  /\ at.stage = "writeAhead" => at.config \in Configs /\ mem[Subject] = at.config
  /\ at.stage = "apply" =>
       at.config \in Configs /\ mem[Subject] = at.config /\ file[Subject] = at.config
  /\ at.stage = "reread" /\ applied[Subject] # None => box[Subject].live = applied[Subject]
  /\ at.stage = "restore" => at.config = mem[Subject]

MemoryInv == TypesOK /\ AppliedIsKept /\ StageOK

\* What a restore may not do.
RestoreStep ==
  \A e \in Endpoints:
    queue # <<>> /\ queue[1].type = "restore" /\ applied[e] # None /\ box[e].live = applied[e]
      => \/ box'[e].live = applied[e]
         \/ ~box'[e].login

Preserved == MemoryInv' /\ RestoreStep

-----------------------------------------------------------------------------
(* The queue *)

LEMMA HeadTask ==
  ASSUME TypesOK, queue # <<>>
  PROVE  queue[1] \in Task /\ Subject \in Endpoints /\ Tail(queue) \in Seq(Task)
<1>1. queue \in Seq(Task) /\ queue # <<>>
  BY DEF TypesOK
<1>2. queue[1] \in Task /\ Tail(queue) \in Seq(Task)
  BY <1>1
<1> QED BY <1>2 DEF Task, Subject

\* A task that queues behind leaves the first one first.
LEMMA AppendTask ==
  ASSUME TypesOK, NEW t \in Task, queue' = Append(queue, t)
  PROVE  /\ queue' \in Seq(Task) /\ queue' # <<>>
         /\ queue # <<>> => queue'[1] = queue[1]
<1>1. queue \in Seq(Task)
  BY DEF TypesOK
<1> QED BY <1>1, AppendProperties

\* What a restore in the queue was based on is all that changes in it.
LEMMA RememberTask ==
  ASSUME TypesOK, queue # <<>>, NEW e, NEW config, Remember(e, config)
  PROVE  queue' \in Seq(Task) /\ queue' # <<>> /\ queue'[1].endpoint = Subject
<1> DEFINE t(i) == IF queue[i].endpoint = e THEN [queue[i] EXCEPT !.current = FALSE] ELSE queue[i]
<1>1. queue \in Seq(Task) /\ queue # <<>>
  BY DEF TypesOK
<1>2. Len(queue) \in Nat /\ 1 \in 1..Len(queue) /\ DOMAIN queue = 1..Len(queue)
  BY <1>1
<1>3. ASSUME NEW i \in 1..Len(queue)
      PROVE  t(i) \in Task /\ t(i).endpoint = queue[i].endpoint
  <2>1. queue[i] \in Task
    BY <1>1
  <2> QED BY <2>1 DEF Task
<1>4. queue' = [i \in 1..Len(queue) |-> t(i)]
  BY <1>2 DEF Remember
<1> HIDE DEF t
<1>5. queue' \in Seq(Task) /\ queue'[1] = t(1) /\ Len(queue') = Len(queue)
  BY <1>2, <1>3, <1>4
<1> QED BY <1>2, <1>3, <1>5 DEF Subject

-----------------------------------------------------------------------------
(* Kinds of steps *)

\* Nothing the invariant speaks of changes.
LEMMA UntouchedStep ==
  ASSUME MemoryInv, UNCHANGED <<box, file, mem, loaded, queue, at, applied>>
  PROVE  Preserved
<1>1. MemoryInv'
  BY DEF MemoryInv, TypesOK, AppliedIsKept, StageOK, Subject
<1> QED BY <1>1 DEF Preserved, RestoreStep

\* A task joins the queue.
LEMMA QueuedStep ==
  ASSUME MemoryInv, NEW t \in Task, queue' = Append(queue, t),
         UNCHANGED <<box, file, mem, loaded, at, applied>>
  PROVE  Preserved
<1>1. TypesOK
  BY DEF MemoryInv
<1>2. queue' \in Seq(Task) /\ queue' # <<>> /\ (queue # <<>> => queue'[1] = queue[1])
  BY <1>1, AppendTask
<1>3. TypesOK' /\ AppliedIsKept'
  BY <1>2 DEF MemoryInv, TypesOK, AppliedIsKept
<1>4. StageOK'
  BY <1>2 DEF MemoryInv, StageOK, Subject
<1> QED BY <1>3, <1>4 DEF Preserved, MemoryInv, RestoreStep

\* The running task ends, and may have written the memory to the file.
LEMMA EndStep ==
  ASSUME MemoryInv, queue # <<>>, queue' = Tail(queue), at' = Ready,
         UNCHANGED <<mem, loaded, applied>>, file' = file \/ (loaded /\ file' = mem),
         box' \in [Endpoints -> BoxRow]
  PROVE  MemoryInv'
<1>1. Tail(queue) \in Seq(Task)
  BY HeadTask DEF MemoryInv
<1>2. at'.stage = "ready" /\ at' \in [stage: Stages, config: Value]
  <2>1. None \in Value
    BY DEF Value
  <2> QED BY <2>1 DEF Ready, Stages
<1>3. TypesOK'
  BY <1>1, <1>2 DEF MemoryInv, TypesOK
<1>4. AppliedIsKept'
  BY DEF MemoryInv, AppliedIsKept
<1>5. StageOK'
  BY <1>2 DEF StageOK
<1> QED BY <1>3, <1>4, <1>5 DEF MemoryInv

\* A container's record after an assignment to its configuration.
LEMMA WrittenBox ==
  ASSUME TypesOK, NEW e \in Endpoints, NEW config \in Value, Writes(e, config)
  PROVE  /\ box' \in [Endpoints -> BoxRow] /\ box'[e].live = config
         /\ \A f \in Endpoints \ {e}: box'[f] = box[f]
<1>1. box \in [Endpoints -> BoxRow] /\ box[e] \in BoxRow
  BY DEF TypesOK
<1>2. [box[e] EXCEPT !.live = config] \in BoxRow /\ [box[e] EXCEPT !.live = config].live = config
  BY <1>1 DEF BoxRow
<1>3. box' = [box EXCEPT ![e] = [box[e] EXCEPT !.live = config]]
  BY DEF Writes
<1> QED BY <1>1, <1>2, <1>3

\* The memory of one endpoint is set, of which no update counts as applied, or
\* which is set to just that.
LEMMA RememberStep ==
  ASSUME MemoryInv, queue # <<>>, NEW config \in Value, Remember(Subject, config),
         loaded, UNCHANGED <<box, file, loaded>>,
         at' \in [stage: Stages, config: Value],
         \/ applied' = [applied EXCEPT ![Subject] = None]
         \/ applied' = applied /\ applied[Subject] \in {None, config}
  PROVE  /\ TypesOK' /\ AppliedIsKept'
         /\ queue' # <<>> /\ Subject' = Subject /\ mem'[Subject'] = config
<1> DEFINE e == Subject
<1>1. TypesOK /\ e \in Endpoints
  BY HeadTask DEF MemoryInv
<1>2. queue' \in Seq(Task) /\ queue' # <<>> /\ Subject' = e
  BY <1>1, RememberTask DEF Subject
<1> HIDE DEF e
<1>3. mem' = [mem EXCEPT ![e] = config]
  BY DEF Remember, e
<1>4. mem' \in [Endpoints -> Value] /\ mem'[e] = config /\ \A f \in Endpoints \ {e}: mem'[f] = mem[f]
  BY <1>1, <1>3 DEF TypesOK
<1>5. /\ applied' \in [Endpoints -> Configs \cup {None}]
      /\ applied'[e] = None \/ (applied'[e] = applied[e] /\ applied[e] = config)
      /\ \A f \in Endpoints \ {e}: applied'[f] = applied[f]
  BY <1>1 DEF TypesOK, e
<1>6. TypesOK'
  BY <1>1, <1>2, <1>4, <1>5 DEF TypesOK
<1>7. AppliedIsKept'
  BY <1>4, <1>5 DEF MemoryInv, AppliedIsKept
<1> QED BY <1>2, <1>4, <1>6, <1>7 DEF e

-----------------------------------------------------------------------------
(* Commands *)

LEMMA LifecycleStep ==
  ASSUME MemoryInv, Lifecycle
  PROVE  Preserved
<1>1. queue # <<>> /\ queue' = Tail(queue) /\ at' = Ready /\ UNCHANGED <<file, mem, loaded, applied>>
      /\ queue[1].type # "restore"
  BY DEF Lifecycle, Runs, CommandEnds
<1>2. Subject \in Endpoints /\ box \in [Endpoints -> BoxRow] /\ box[Subject] \in BoxRow
  BY <1>1, HeadTask DEF MemoryInv, TypesOK
<1>3. box' \in [Endpoints -> BoxRow]
  <2>1. CASE box' = [box EXCEPT ![Subject] = Fresh]
    <3>1. Fresh \in BoxRow
      BY DEF Fresh, BoxRow, Value
    <3> QED BY <1>2, <2>1, <3>1
  <2>2. CASE box' = [box EXCEPT ![Subject].state = IF @ = "running" THEN "stopped" ELSE @,
                                ![Subject].login = FALSE]
    <3> DEFINE stopped == [box[Subject] EXCEPT !.state = IF @ = "running" THEN "stopped" ELSE @]
               row == [stopped EXCEPT !.login = FALSE]
    <3>1. stopped \in BoxRow
      BY <1>2 DEF BoxRow
    <3> HIDE DEF stopped
    <3>2. row \in BoxRow
      BY <3>1 DEF BoxRow
    <3>3. box' = [box EXCEPT ![Subject] = row]
      BY <1>2, <2>2 DEF stopped
    <3> HIDE DEF row
    <3> QED BY <1>2, <3>2, <3>3
  <2> QED BY <2>1, <2>2 DEF Lifecycle
<1> QED BY <1>1, <1>3, EndStep DEF Preserved, RestoreStep

LEMMA DeleteStep ==
  ASSUME MemoryInv, Delete
  PROVE  Preserved
<1>1. queue # <<>> /\ loaded /\ queue[1].type = "delete"
  BY DEF Delete, Runs, AwaitsLoad
<1>2. Subject \in Endpoints /\ TypesOK /\ AppliedIsKept
  BY <1>1, HeadTask DEF MemoryInv
<1>3. RestoreStep
  BY <1>1 DEF RestoreStep
<1>4. None \in Value /\ None \notin Configs
  BY OneBotAssumption DEF Value
<1>5. CASE /\ Runs("delete", "ready") /\ applied' = [applied EXCEPT ![Subject] = None]
           /\ IF mem[Subject] = None THEN Stage("remove", None) /\ UNCHANGED <<mem, queue>>
              ELSE Stage("forget", None) /\ Remember(Subject, None)
           /\ UNCHANGED <<box, file, loaded, loop, cooled, sent, faults>>
  <2>1. at' \in [stage: Stages, config: Value] /\ at'.stage \in {"remove", "forget"}
    BY <1>4, <1>5 DEF Stage, Stages
  <2>2. TypesOK' /\ AppliedIsKept' /\ queue' # <<>>
    <3>1. CASE mem[Subject] = None
      BY <1>1, <1>2, <1>5, <2>1, <3>1 DEF TypesOK, AppliedIsKept
    <3>2. CASE mem[Subject] # None
      BY <1>1, <1>4, <1>5, <2>1, <3>2, RememberStep
    <3> QED BY <3>1, <3>2
  <2>3. StageOK'
    BY <1>1, <1>5, <2>1, <2>2 DEF StageOK
  <2> QED BY <1>3, <2>2, <2>3 DEF Preserved, MemoryInv
<1>6. CASE /\ Runs("delete", "forget") /\ Persist /\ Stage("remove", None)
           /\ UNCHANGED <<box, mem, loaded, queue, loop, cooled, sent, applied, faults>>
  <2>1. at' \in [stage: Stages, config: Value] /\ at'.stage = "remove"
    BY <1>4, <1>6 DEF Stage, Stages
  <2>2. TypesOK' /\ AppliedIsKept'
    BY <1>1, <1>2, <1>6, <2>1 DEF TypesOK, AppliedIsKept, Persist
  <2>3. StageOK'
    BY <1>1, <1>6, <2>1 DEF StageOK
  <2> QED BY <1>3, <2>2, <2>3 DEF Preserved, MemoryInv
<1>7. CASE /\ Runs("delete", "remove") /\ box' = [box EXCEPT ![Subject] = [Fresh EXCEPT !.state = "absent"]]
           /\ CommandEnds /\ UNCHANGED <<file, mem, loaded, cooled, sent, applied, faults>>
  <2>1. [Fresh EXCEPT !.state = "absent"] \in BoxRow
    BY DEF Fresh, BoxRow, Value
  <2>2. box' \in [Endpoints -> BoxRow]
    BY <1>2, <1>7, <2>1 DEF TypesOK
  <2> QED BY <1>1, <1>3, <1>7, <2>2, EndStep DEF Preserved, CommandEnds
<1> QED BY <1>5, <1>6, <1>7 DEF Delete

\* A stage of an update that ends it early, or at last.
LEMMA UpdateEnds ==
  ASSUME MemoryInv, queue # <<>>, CommandEnds,
         UNCHANGED <<box, mem, loaded, applied>>, file' = file \/ (loaded /\ file' = mem)
  PROVE  Preserved
<1>1. box' \in [Endpoints -> BoxRow]
  BY DEF MemoryInv, TypesOK
<1> QED BY <1>1, EndStep DEF Preserved, RestoreStep, CommandEnds

LEMMA UpdateBeginsStep ==
  ASSUME MemoryInv, UpdateBegins
  PROVE  Preserved
<1>1. queue # <<>> /\ loaded /\ queue[1].type = "update" /\ UNCHANGED <<box, file, loaded>>
  BY DEF UpdateBegins, Runs, AwaitsLoad
<1>2. CASE ~Readable(Subject)
  BY <1>1, <1>2, UpdateEnds DEF UpdateBegins
<1>3. CASE Readable(Subject)
  <2> DEFINE config == queue[1].config
  <2>1. config \in Configs /\ config \in Value
    BY <1>1, HeadTask DEF MemoryInv, Task, Value
  <2>2. /\ Remember(Subject, config) /\ applied' = [applied EXCEPT ![Subject] = None]
        /\ at' = [stage |-> "writeAhead", config |-> config]
    BY <1>3 DEF UpdateBegins, Stage
  <2> HIDE DEF config
  <2>3. /\ at' \in [stage: Stages, config: Value]
        /\ at'.stage = "writeAhead" /\ at'.config = config
    BY <2>1, <2>2 DEF Stages
  <2>4. /\ TypesOK' /\ AppliedIsKept'
        /\ queue' # <<>> /\ mem'[Subject'] = config
    BY <1>1, <2>1, <2>2, <2>3, RememberStep
  <2>5. StageOK'
    BY <1>1, <2>1, <2>3, <2>4 DEF StageOK
  <2> QED BY <1>1, <2>4, <2>5 DEF Preserved, MemoryInv, RestoreStep
<1> QED BY <1>2, <1>3

LEMMA UpdateWritesAheadStep ==
  ASSUME MemoryInv, UpdateWritesAhead
  PROVE  Preserved
<1>1. /\ queue # <<>> /\ loaded /\ at.stage = "writeAhead" /\ file' = mem
      /\ at' = [stage |-> "apply", config |-> at.config]
      /\ UNCHANGED <<box, mem, loaded, queue, applied>>
  BY DEF UpdateWritesAhead, Runs, AwaitsLoad, Persist, Stage
<1>2. /\ at' \in [stage: Stages, config: Value]
      /\ at'.stage = "apply" /\ at'.config = at.config
  BY <1>1 DEF MemoryInv, TypesOK, Stages
<1>3. TypesOK' /\ AppliedIsKept'
  BY <1>1, <1>2 DEF MemoryInv, TypesOK, AppliedIsKept
<1>4. StageOK'
  BY <1>1, <1>2 DEF MemoryInv, StageOK, Subject
<1> QED BY <1>1, <1>3, <1>4 DEF Preserved, MemoryInv, RestoreStep

LEMMA UpdateAppliesStep ==
  ASSUME MemoryInv, UpdateApplies
  PROVE  Preserved
<1>1. /\ queue # <<>> /\ loaded /\ at.stage = "apply" /\ queue[1].type = "update"
      /\ UNCHANGED <<file, mem, loaded>>
  BY DEF UpdateApplies, Runs, AwaitsLoad
<1>2. CASE box[Subject].state # "running"
  BY <1>1, <1>2, UpdateEnds DEF UpdateApplies
<1>3. CASE box[Subject].state = "running"
  <2> DEFINE e == Subject
  <2>1. TypesOK /\ AppliedIsKept /\ e \in Endpoints
    BY <1>1, HeadTask DEF MemoryInv
  <2>2. /\ Writes(e, at.config) /\ applied' = [applied EXCEPT ![e] = at.config]
        /\ at' = [stage |-> "reread", config |-> at.config] /\ queue' = queue
    BY <1>3 DEF UpdateApplies, Stage
  <2>3. at.config \in Configs /\ mem[e] = at.config /\ file[e] = at.config
    BY <1>1 DEF MemoryInv, StageOK
  <2>4. Subject' = e
    BY <2>2 DEF Subject
  <2> HIDE DEF e
  <2>5. box' \in [Endpoints -> BoxRow] /\ box'[e].live = at.config
    BY <2>1, <2>2, <2>3, WrittenBox DEF Value
  <2>6. /\ at' \in [stage: Stages, config: Value] /\ at'.stage = "reread"
    BY <2>2, <2>3 DEF Value, Stages
  <2>7. /\ applied' \in [Endpoints -> Configs \cup {None}] /\ applied'[e] = at.config
        /\ \A f \in Endpoints \ {e}: applied'[f] = applied[f]
    BY <2>1, <2>2, <2>3 DEF TypesOK
  <2>8. TypesOK'
    BY <1>1, <2>1, <2>2, <2>5, <2>6, <2>7 DEF TypesOK
  <2>9. AppliedIsKept'
    BY <1>1, <2>1, <2>3, <2>7 DEF AppliedIsKept
  <2>10. StageOK'
    BY <1>1, <2>2, <2>4, <2>5, <2>6, <2>7 DEF StageOK
  <2> QED BY <1>1, <2>8, <2>9, <2>10 DEF Preserved, MemoryInv, RestoreStep
<1> QED BY <1>2, <1>3

LEMMA UpdateRereadsStep ==
  ASSUME MemoryInv, UpdateRereads
  PROVE  Preserved
<1>1. /\ queue # <<>> /\ loaded /\ at.stage = "reread" /\ queue[1].type = "update"
      /\ UNCHANGED <<box, file, loaded, applied>>
  BY DEF UpdateRereads, Runs, AwaitsLoad
<1>2. CASE ~Readable(Subject)
  BY <1>1, <1>2, UpdateEnds DEF UpdateRereads
<1>3. CASE Readable(Subject)
  <2> DEFINE live == box[Subject].live
  <2>1. Subject \in Endpoints /\ live \in Value /\ applied[Subject] \in {None, live}
    BY <1>1, HeadTask DEF MemoryInv, TypesOK, BoxRow, StageOK
  <2>2. Remember(Subject, live) /\ at' = [stage |-> "persist", config |-> at.config]
    BY <1>3 DEF UpdateRereads, Stage
  <2> HIDE DEF live
  <2>3. at' \in [stage: Stages, config: Value] /\ at'.stage = "persist"
    BY <2>2 DEF MemoryInv, TypesOK, Stages
  <2>4. TypesOK' /\ AppliedIsKept' /\ queue' # <<>>
    BY <1>1, <2>1, <2>2, <2>3, RememberStep
  <2>5. StageOK'
    BY <1>1, <2>3, <2>4 DEF StageOK
  <2> QED BY <1>1, <2>4, <2>5 DEF Preserved, MemoryInv, RestoreStep
<1> QED BY <1>2, <1>3

LEMMA UpdateStep ==
  ASSUME MemoryInv, Update
  PROVE  Preserved
<1>1. CASE UpdatePersists
  BY <1>1, UpdateEnds DEF UpdatePersists, Runs, AwaitsLoad, Persist
<1> QED BY <1>1, UpdateBeginsStep, UpdateWritesAheadStep, UpdateAppliesStep, UpdateRereadsStep DEF Update

-----------------------------------------------------------------------------
(* Restores *)

\* A restore that ends without touching the container.
LEMMA RestoreEnds ==
  ASSUME MemoryInv, queue # <<>>, Leave,
         UNCHANGED <<box, mem, loaded, applied>>, file' = file \/ (loaded /\ file' = mem)
  PROVE  Preserved
<1>1. box' \in [Endpoints -> BoxRow]
  BY DEF MemoryInv, TypesOK
<1> QED BY <1>1, EndStep DEF Preserved, RestoreStep, Leave

LEMMA TryStep ==
  ASSUME MemoryInv, NEW e \in Endpoints, Try(e)
  PROVE  Preserved
<1> DEFINE t == [type |-> "restore", endpoint |-> e, config |-> mem[e], current |-> TRUE]
<1>1. mem[e] \in Value
  BY DEF MemoryInv, TypesOK
<1>2. t \in Task
  BY <1>1 DEF Task
<1>3. queue' = Append(queue, t) /\ UNCHANGED <<box, file, mem, loaded, at, applied>>
  BY DEF Try
<1> HIDE DEF t
<1> QED BY <1>2, <1>3, QueuedStep

LEMMA AdoptsStep ==
  ASSUME MemoryInv, Adopts
  PROVE  Preserved
<1>1. queue # <<>> /\ loaded /\ UNCHANGED <<box, loaded, applied>>
  BY DEF Adopts, Runs, AwaitsLoad
<1>2. CASE Leave /\ UNCHANGED mem /\ (UNCHANGED file \/ Persist)
  BY <1>1, <1>2, RestoreEnds DEF Persist
<1>3. CASE /\ mem[Subject] = None /\ Remember(Subject, box[Subject].live) /\ Stage("persist", None)
           /\ UNCHANGED file
  <2> DEFINE live == box[Subject].live
  <2>1. Subject \in Endpoints /\ live \in Value /\ applied[Subject] = None
    BY <1>1, <1>3, HeadTask DEF MemoryInv, TypesOK, BoxRow, AppliedIsKept
  <2> HIDE DEF live
  <2>2. at' \in [stage: Stages, config: Value] /\ at'.stage = "persist"
    BY <1>3 DEF Stage, Stages, Value
  <2>3. Remember(Subject, live)
    BY <1>3 DEF live
  <2>4. TypesOK' /\ AppliedIsKept' /\ queue' # <<>>
    BY <1>1, <1>3, <2>1, <2>2, <2>3, RememberStep
  <2>5. StageOK'
    BY <1>1, <2>2, <2>4 DEF StageOK
  <2> QED BY <1>1, <2>4, <2>5 DEF Preserved, MemoryInv, RestoreStep
<1> QED BY <1>2, <1>3 DEF Adopts

LEMMA RestoreBeginsStep ==
  ASSUME MemoryInv, RestoreBegins
  PROVE  Preserved
<1>1. queue # <<>> /\ loaded /\ UNCHANGED <<box, file, mem, loaded, applied>>
  BY DEF RestoreBegins, Runs, AwaitsLoad
<1>2. CASE Leave
  BY <1>1, <1>2, RestoreEnds
<1>3. CASE Stage("restore", mem[Subject]) /\ UNCHANGED queue
  <2>1. mem[Subject] \in Value
    BY <1>1, HeadTask DEF MemoryInv, TypesOK
  <2>2. /\ at' \in [stage: Stages, config: Value]
        /\ at'.stage = "restore" /\ at'.config = mem[Subject]
    BY <1>3, <2>1 DEF Stage, Stages
  <2>3. TypesOK' /\ AppliedIsKept'
    BY <1>1, <1>3, <2>2 DEF MemoryInv, TypesOK, AppliedIsKept
  <2>4. StageOK'
    BY <1>1, <1>3, <2>2 DEF StageOK, Subject
  <2> QED BY <1>1, <2>3, <2>4 DEF Preserved, MemoryInv, RestoreStep
<1> QED BY <1>2, <1>3 DEF RestoreBegins

\* What a restore writes is what is remembered now, not when it was queued.
LEMMA RestoreWritesStep ==
  ASSUME MemoryInv, queue # <<>>, Leave, UNCHANGED <<file, mem, loaded, applied>>,
         at.stage = "restore", Writes(Subject, at.config)
  PROVE  Preserved
<1>1. TypesOK /\ AppliedIsKept /\ loaded /\ at.config = mem[Subject]
  BY DEF MemoryInv, StageOK
<1>2. Subject \in Endpoints /\ at.config \in Value
  BY <1>1, HeadTask DEF TypesOK
<1>3. /\ box' \in [Endpoints -> BoxRow] /\ box'[Subject].live = at.config
      /\ \A f \in Endpoints \ {Subject}: box'[f] = box[f]
  BY <1>1, <1>2, WrittenBox
<1>4. RestoreStep
  BY <1>1, <1>3 DEF RestoreStep, AppliedIsKept
<1> QED BY <1>3, <1>4, EndStep DEF Preserved, Leave

-----------------------------------------------------------------------------
(* The agent and the containers *)

LEMMA LoadStep ==
  ASSUME MemoryInv, Load
  PROVE  Preserved
<1>1. TypesOK' /\ AppliedIsKept'
  BY DEF Load, MemoryInv, TypesOK, AppliedIsKept
<1>2. at' = at /\ at.stage = "ready" /\ box' = box
  BY DEF Load, MemoryInv, StageOK
<1>3. StageOK'
  BY <1>2 DEF StageOK
<1> QED BY <1>1, <1>2, <1>3 DEF Preserved, MemoryInv, RestoreStep

LEMMA CrashStep ==
  ASSUME MemoryInv, Crash
  PROVE  Preserved
<1>1. /\ mem' = [e \in Endpoints |-> None] /\ ~loaded' /\ queue' = <<>> /\ at' = Ready
      /\ UNCHANGED <<box, file, applied>>
  BY DEF Crash
<1>2. None \in Value
  BY DEF Value
<1>3. at' \in [stage: Stages, config: Value] /\ at'.stage = "ready"
  BY <1>1, <1>2 DEF Ready, Stages
<1>4. mem' \in [Endpoints -> Value] /\ queue' \in Seq(Task)
  BY <1>1, <1>2
<1>5. TypesOK' /\ AppliedIsKept' /\ StageOK'
  BY <1>1, <1>3, <1>4 DEF MemoryInv, TypesOK, AppliedIsKept, StageOK
<1> QED BY <1>1, <1>5 DEF Preserved, MemoryInv, RestoreStep

LEMMA LogsInStep ==
  ASSUME MemoryInv, NEW e \in Endpoints, LogsIn(e)
  PROVE  Preserved
<1> DEFINE row == [box[e] EXCEPT !.login = TRUE]
<1>1. box \in [Endpoints -> BoxRow] /\ box[e] \in BoxRow
  BY DEF MemoryInv, TypesOK
<1>2. row \in BoxRow /\ row.live = box[e].live
  BY <1>1 DEF BoxRow
<1>3. box' = [box EXCEPT ![e] = row] /\ UNCHANGED <<file, mem, loaded, queue, at, applied>>
  BY DEF LogsIn
<1> HIDE DEF row
<1>4. box' \in [Endpoints -> BoxRow] /\ \A f \in Endpoints: box'[f].live = box[f].live
  BY <1>1, <1>2, <1>3
<1>5. TypesOK' /\ AppliedIsKept'
  BY <1>3, <1>4 DEF MemoryInv, TypesOK, AppliedIsKept
<1>6. StageOK'
  <2>1. queue # <<>> => Subject \in Endpoints
    BY HeadTask DEF MemoryInv
  <2> QED BY <1>3, <1>4, <2>1 DEF MemoryInv, StageOK, Subject
<1> QED BY <1>4, <1>5, <1>6 DEF Preserved, MemoryInv, RestoreStep

LEMMA ContainerRestartsStep ==
  ASSUME MemoryInv, NEW e \in Endpoints, ContainerRestarts(e)
  PROVE  Preserved
<1> DEFINE unread == queue # <<>> /\ Subject = e /\ at.stage = "reread"
<1>1. Fresh \in BoxRow /\ ~Fresh.login
  BY DEF Fresh, BoxRow, Value
<1>2. /\ box' = [box EXCEPT ![e] = Fresh]
      /\ applied' = [applied EXCEPT ![e] = IF unread THEN None ELSE @]
      /\ UNCHANGED <<file, mem, loaded, queue, at>>
  BY DEF ContainerRestarts
<1>3. /\ box' \in [Endpoints -> BoxRow] /\ ~box'[e].login
      /\ \A f \in Endpoints \ {e}: box'[f] = box[f]
  BY <1>1, <1>2 DEF MemoryInv, TypesOK
<1>4. /\ applied' \in [Endpoints -> Configs \cup {None}]
      /\ applied'[e] = IF unread THEN None ELSE applied[e]
      /\ \A f \in Endpoints \ {e}: applied'[f] = applied[f]
  BY <1>2 DEF MemoryInv, TypesOK
<1>5. TypesOK' /\ AppliedIsKept'
  BY <1>2, <1>3, <1>4 DEF MemoryInv, TypesOK, AppliedIsKept
<1>6. StageOK'
  <2>1. queue # <<>> => Subject \in Endpoints
    BY HeadTask DEF MemoryInv
  <2> QED BY <1>2, <1>3, <1>4, <2>1 DEF MemoryInv, StageOK, Subject
<1> QED BY <1>3, <1>5, <1>6 DEF Preserved, MemoryInv, RestoreStep

LEMMA SubmitStep ==
  ASSUME MemoryInv, NEW e \in Endpoints, NEW type, NEW config,
         \/ type \in {"restart", "stop", "delete"} /\ config = None
         \/ type = "update" /\ config \in Configs,
         Submit(e, type, config)
  PROVE  Preserved
<1> DEFINE t == [type |-> type, endpoint |-> e, config |-> config, current |-> TRUE]
<1>1. t \in Task
  BY DEF Task, Value
<1>2. queue' = Append(queue, t) /\ UNCHANGED <<box, file, mem, loaded, at, applied>>
  BY DEF Submit
<1> HIDE DEF t
<1> QED BY <1>1, <1>2, QueuedStep

LEMMA FailureStep ==
  ASSUME MemoryInv, CommandFails \/ LoadFails \/ RestoreFails
  PROVE  Preserved
<1>1. CASE CommandFails
  BY <1>1, UpdateEnds DEF CommandFails
<1>2. CASE LoadFails
  <2>1. CASE queue # <<>> /\ CommandEnds
    BY <1>2, <2>1, UpdateEnds DEF LoadFails
  <2>2. CASE UNCHANGED <<queue, at>>
    BY <1>2, <2>2, UntouchedStep DEF LoadFails
  <2> QED BY <1>2, <2>1, <2>2 DEF LoadFails
<1>3. CASE RestoreFails
  <2>1. CASE UNCHANGED box
    BY <1>3, <2>1, RestoreEnds DEF RestoreFails
  <2>2. CASE at.stage = "restore" /\ Writes(Subject, at.config)
    BY <1>3, <2>2, RestoreWritesStep DEF RestoreFails
  <2> QED BY <1>3, <2>1, <2>2 DEF RestoreFails
<1> QED BY <1>1, <1>2, <1>3

LEMMA QueueStep ==
  ASSUME MemoryInv, Queue
  PROVE  Preserved
<1>1. CASE RestoreWrites
  <2>1. queue # <<>> /\ at.stage = "restore" /\ Leave /\ UNCHANGED <<file, mem, loaded, applied>>
    BY <1>1 DEF RestoreWrites, Runs
  <2>2. CASE Writes(Subject, at.config)
    BY <2>1, <2>2, RestoreWritesStep
  <2>3. CASE UNCHANGED box
    BY <2>1, <2>3, RestoreEnds
  <2> QED BY <1>1, <2>2, <2>3 DEF RestoreWrites
<1> QED BY <1>1, LifecycleStep, DeleteStep, UpdateStep, AdoptsStep, RestoreBeginsStep DEF Queue

-----------------------------------------------------------------------------
(* The theorems *)

LEMMA MemoryInit == Init => MemoryInv
<1> SUFFICES ASSUME Init PROVE MemoryInv
  OBVIOUS
<1>1. [Fresh EXCEPT !.login = TRUE] \in BoxRow /\ None \in Value
  BY DEF Fresh, BoxRow, Value
<1>2. at \in [stage: Stages, config: Value] /\ at.stage = "ready" /\ queue \in Seq(Task)
  BY <1>1 DEF Init, Ready, Stages
<1>3. /\ box \in [Endpoints -> BoxRow] /\ file \in [Endpoints -> Value] /\ mem = file
      /\ applied = [e \in Endpoints |-> None]
  BY <1>1 DEF Init
<1> QED BY <1>2, <1>3 DEF MemoryInv, TypesOK, AppliedIsKept, StageOK

LEMMA MemoryNext ==
  ASSUME MemoryInv, [Next]_vars
  PROVE  Preserved
<1>1. ASSUME NEW e \in Endpoints,
             \/ \E type \in {"restart", "stop", "delete"}: Submit(e, type, None)
             \/ \E config \in Configs: Submit(e, "update", config)
      PROVE  Preserved
  BY <1>1, SubmitStep
<1>2. ASSUME NEW e \in Endpoints, Observe(e) \/ CoolsDown(e)
      PROVE  Preserved
  BY <1>2, UntouchedStep DEF Observe, CoolsDown
<1>3. ASSUME NEW e \in Endpoints, Try(e) \/ LogsIn(e) \/ ContainerRestarts(e)
      PROVE  Preserved
  BY <1>3, TryStep, LogsInStep, ContainerRestartsStep
<1>4. CASE UNCHANGED vars
  BY <1>4, UntouchedStep DEF vars
<1> QED
  BY <1>1, <1>2, <1>3, <1>4, LoadStep, QueueStep, FailureStep, CrashStep DEF Next

\* Whatever crashes, fails or is applied to other endpoints, snowluma-onebot-desired.json
\* has the last update that reached SnowLuma (persistOneBotDesired before and after it).
THEOREM FileHasLastUpdate == Spec => []UpdateIsRemembered
<1>1. MemoryInv => UpdateIsRemembered
  BY DEF MemoryInv, AppliedIsKept, UpdateIsRemembered
<1>2. MemoryInv /\ [Next]_vars => MemoryInv'
  BY MemoryNext DEF Preserved
<1> QED BY <1>1, <1>2, MemoryInit, PTL DEF Spec

\* A restore writes what is remembered when it runs, and an update that passed it in
\* the queue is remembered (the comparison of updatedAt, and the queue itself).
THEOREM RestoreNeverRevertsUpdate == Spec => RestoreKeepsUpdate
<1>1. MemoryInv /\ [Next]_vars => MemoryInv'
  BY MemoryNext DEF Preserved
<1>2. MemoryInv /\ [Next]_vars => [RestoreStep]_vars
  BY MemoryNext DEF Preserved
<1>3. Spec => [][RestoreStep]_vars
  BY <1>1, <1>2, MemoryInit, PTL DEF Spec
<1> QED BY <1>3 DEF RestoreKeepsUpdate, RestoreStep
=============================================================================
