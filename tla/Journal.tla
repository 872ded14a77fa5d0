------------------------------ MODULE Journal ------------------------------
(***************************************************************************)
(* The agent journal (packages/agent-journal/src/index.ts): one file of     *)
(* JSON lines, one lock directory beside it, and the agent processes that   *)
(* open, append to and close it.                                            *)
(*                                                                          *)
(* The file is a sequence of complete lines and possibly bytes after the    *)
(* last newline.  fsync makes a prefix of it durable.  A process that       *)
(* crashes leaves the file and the lock as they are; a power loss may also  *)
(* take any suffix that was not synced.                                     *)
(*                                                                          *)
(* Operators marked "Defect" are variants of the definition that follows   *)
(* them, as a plausible bug would have it.  Nothing uses them: they say     *)
(* which property would notice.                                             *)
(***************************************************************************)
EXTENDS JournalRecords, Naturals, Sequences

CONSTANTS
  Processes,   \* agent processes that use the journal's path
  MaxQueue,    \* bound: calls waiting in one process
  Garbage,     \* a line that is not a record
  NoRecord     \* no append is running

ASSUME JournalAssumption ==
  /\ MaxQueue \in Nat
  /\ Garbage \notin Records
  /\ NoRecord \notin Records
  /\ Processes \cap {"free", "unowned"} = {}

VARIABLES
  lines,    \* the complete lines of the file, as the processes see it
  torn,     \* bytes follow the last newline
  synced,   \* the first `synced` lines are durable
  lock,     \* the lock directory: "free", "unowned" (no owner.json), or its owner
  pc,       \* per process: where it is in open and close
  poisoned, \* per process: an append failed half-way
  entries,  \* per process: the records in memory
  queue,    \* per process: calls that wait for their turn
  append,   \* per process: the append that runs
  acked     \* history: records whose call was answered with success, and how

file  == <<lines, torn, synced>>
state == <<pc, poisoned, entries, queue, append>>
vars  == <<file, lock, state, acked>>

Idle == [record |-> NoRecord, written |-> "nothing"]

\* How much of its line an append has written.
AppendState == [record: Records \cup {NoRecord}, written: {"nothing", "part", "all"}]

\* Answered after an append of its own; or, with nothing appended, because the
\* memory had the record, while a power loss can still take it.
Answers == [appended: SUBSET Records, exposed: SUBSET Records]

\* pc: "out" has no journal; "locking" made the directory; "locked" wrote
\* owner.json; "closing" has set `closed`; "unlocking" removed owner.json.
TypeOK ==
  /\ lines \in Seq(Records \cup {Garbage})
  /\ torn \in BOOLEAN
  /\ synced \in 0..Len(lines)
  /\ lock \in {"free", "unowned"} \cup Processes
  /\ pc \in [Processes -> {"out", "locking", "locked", "open", "closing", "unlocking"}]
  /\ poisoned \in [Processes -> BOOLEAN]
  /\ entries \in [Processes -> SUBSET Records]
  /\ queue \in [Processes -> Seq(Records)]
  /\ append \in [Processes -> AppendState]
  /\ acked \in Answers

Init ==
  /\ lines = <<>>
  /\ torn = FALSE
  /\ synced = 0
  /\ lock = "free"
  /\ pc = [p \in Processes |-> "out"]
  /\ poisoned = [p \in Processes |-> FALSE]
  /\ entries = [p \in Processes |-> {}]
  /\ queue = [p \in Processes |-> <<>>]
  /\ append = [p \in Processes |-> Idle]
  /\ acked = [appended |-> {}, exposed |-> {}]

\* The records of the first k lines.
Prefix(k) == {lines[i] : i \in 1..k}

\* open replays the lines one by one and throws at the first that is no record
\* or that apply refuses.
Replays == \A i \in 1..Len(lines) : lines[i] # Garbage /\ Applicable(Prefix(i - 1), lines[i])

-----------------------------------------------------------------------------
(* Opening *)

\* mkdir is the mutual exclusion: it fails where the directory exists.
MakeLock(p) ==
  /\ pc[p] = "out"
  /\ lock = "free"
  /\ lock' = "unowned"
  /\ pc' = [pc EXCEPT ![p] = "locking"]
  /\ UNCHANGED <<file, poisoned, entries, queue, append, acked>>

WriteOwner(p) ==
  /\ pc[p] = "locking"
  /\ lock' = p
  /\ pc' = [pc EXCEPT ![p] = "locked"]
  /\ UNCHANGED <<file, poisoned, entries, queue, append, acked>>

\* Defect: the bytes of the torn line stay in the file.
RecoverTorn(p) ==
  /\ pc[p] = "locked"
  /\ entries' = [entries EXCEPT ![p] = Prefix(Len(lines)) \ {Garbage}]
  /\ pc' = [pc EXCEPT ![p] = "open"]
  /\ UNCHANGED <<file, lock, poisoned, queue, append, acked>>

\* Defect: the truncation also takes the last newline.
RecoverShort(p) ==
  LET kept == IF torn /\ lines # <<>> THEN Len(lines) - 1 ELSE Len(lines) IN
  /\ pc[p] = "locked"
  /\ lines' = SubSeq(lines, 1, kept)
  /\ torn' = (kept # Len(lines))
  /\ entries' = [entries EXCEPT ![p] = Prefix(kept)]
  /\ pc' = [pc EXCEPT ![p] = "open"]
  /\ UNCHANGED <<synced, lock, poisoned, queue, append, acked>>

\* Truncate what follows the last newline and sync, then replay the rest.  A
\* file that ends in a newline is replayed as it is, without a sync.
Recover(p) ==
  /\ pc[p] = "locked"
  /\ torn' = FALSE
  /\ acked' = IF torn THEN [acked EXCEPT !.exposed = {}] ELSE acked
  /\ synced' = IF torn THEN Len(lines) ELSE synced
  /\ IF Replays
     THEN /\ entries' = [entries EXCEPT ![p] = Prefix(Len(lines))]
          /\ pc' = [pc EXCEPT ![p] = "open"]
          /\ UNCHANGED lock
     ELSE /\ lock' = "free"
          /\ pc' = [pc EXCEPT ![p] = "out"]
          /\ UNCHANGED entries
  /\ UNCHANGED <<lines, poisoned, queue, append>>

\* An I/O error ends open, possibly after the truncation.  The lock is released
\* only if owner.json proves it is this process's own, and that may fail too.
FailOpen(p) ==
  /\ pc[p] \in {"locking", "locked"}
  /\ torn' \in IF pc[p] = "locked" THEN {torn, FALSE} ELSE {torn}
  /\ lock' \in IF lock = p THEN {p, "unowned", "free"} ELSE {lock}
  /\ pc' = [pc EXCEPT ![p] = "out"]
  /\ UNCHANGED <<lines, synced, poisoned, entries, queue, append, acked>>

-----------------------------------------------------------------------------
(* Recording: recordReceipt, recordEffect, recordResult *)

\* serialize: a call is refused at once after close or a failed append.
Call(p, r) ==
  /\ pc[p] = "open"
  /\ ~poisoned[p]
  /\ Len(queue[p]) < MaxQueue
  /\ queue' = [queue EXCEPT ![p] = Append(@, r)]
  /\ UNCHANGED <<file, lock, pc, poisoned, entries, append, acked>>

Ready(p) == append[p] = Idle /\ queue[p] # <<>>

\* The call is answered without a write: the journal was poisoned meanwhile,
\* the key is taken (by the same payload or by another), or apply refuses.
Answered(p, r) ==
  \/ poisoned[p]
  \/ \E x \in entries[p] : SameKey(x, r)
  \/ ~Applicable(entries[p], r)

\* The call repeats what the memory of a healthy journal has: a success at once,
\* also where open replayed a line that was never synced.  The others throw.
Repeats(p, r) == ~poisoned[p] /\ r \in entries[p]

\* What a repeated call is told although it is not durable.
Exposed(p, r) == IF Repeats(p, r) THEN {r} \ Prefix(synced) ELSE {}

\* Defect: the calls that wait when an append fails are never answered.
AnswerUnlessPoisoned(p) ==
  /\ Ready(p)
  /\ ~poisoned[p]
  /\ Answered(p, Head(queue[p]))
  /\ queue' = [queue EXCEPT ![p] = Tail(@)]
  /\ UNCHANGED <<file, lock, pc, poisoned, entries, append, acked>>

AnswerCall(p) ==
  LET r == Head(queue[p]) IN
  /\ Ready(p)
  /\ Answered(p, r)
  /\ queue' = [queue EXCEPT ![p] = Tail(@)]
  /\ acked' = [acked EXCEPT !.exposed = @ \cup Exposed(p, r)]
  /\ UNCHANGED <<file, lock, pc, poisoned, entries, append>>

StartAppend(p) ==
  /\ Ready(p)
  /\ ~Answered(p, Head(queue[p]))
  /\ append' = [append EXCEPT ![p] = [record |-> Head(queue[p]), written |-> "nothing"]]
  /\ queue' = [queue EXCEPT ![p] = Tail(@)]
  /\ UNCHANGED <<file, lock, pc, poisoned, entries, acked>>

Writing(p) == append[p].record # NoRecord /\ append[p].written # "all"

\* A short write.
WritePart(p) ==
  /\ Writing(p)
  /\ append[p].written = "nothing"
  /\ torn' = TRUE
  /\ append' = [append EXCEPT ![p].written = "part"]
  /\ UNCHANGED <<lines, synced, lock, pc, poisoned, entries, queue, acked>>

\* The bytes after the last newline are the ones this append wrote.
OwnTail(p) == torn <=> append[p].written = "part"

\* The rest of the line, with its newline: O_APPEND puts it after whatever the
\* file ends with.
WriteRest(p) ==
  /\ Writing(p)
  /\ lines' = Append(lines, IF OwnTail(p) THEN append[p].record ELSE Garbage)
  /\ torn' = FALSE
  /\ append' = [append EXCEPT ![p].written = "all"]
  /\ UNCHANGED <<synced, lock, pc, poisoned, entries, queue, acked>>

\* Defect: the call is answered and the memory updated without fsync.
NoSync(p) ==
  /\ append[p].written = "all"
  /\ entries' = [entries EXCEPT ![p] = @ \cup {append[p].record}]
  /\ acked' = [acked EXCEPT !.appended = @ \cup {append[p].record}]
  /\ append' = [append EXCEPT ![p] = Idle]
  /\ UNCHANGED <<file, lock, pc, poisoned, queue>>

\* fsync, then the memory, then the answer.
Sync(p) ==
  /\ append[p].written = "all"
  /\ synced' = Len(lines)
  /\ entries' = [entries EXCEPT ![p] = @ \cup {append[p].record}]
  /\ acked' = [appended |-> acked.appended \cup {append[p].record}, exposed |-> {}]
  /\ append' = [append EXCEPT ![p] = Idle]
  /\ UNCHANGED <<lines, torn, lock, pc, poisoned, queue>>

\* Defect: the journal goes on after a failed append.
FailAppendAndGoOn(p) ==
  /\ append[p] # Idle
  /\ append' = [append EXCEPT ![p] = Idle]
  /\ UNCHANGED <<file, lock, pc, poisoned, entries, queue, acked>>

\* write or fsync throws, or a write makes no progress.
FailAppend(p) ==
  /\ append[p] # Idle
  /\ poisoned' = [poisoned EXCEPT ![p] = TRUE]
  /\ append' = [append EXCEPT ![p] = Idle]
  /\ UNCHANGED <<file, lock, pc, entries, queue, acked>>

-----------------------------------------------------------------------------
(* Closing *)

Close(p) ==
  /\ pc[p] = "open"
  /\ pc' = [pc EXCEPT ![p] = "closing"]
  /\ UNCHANGED <<file, lock, poisoned, entries, queue, append, acked>>

\* Defect: close does not wait for the calls it found.
UnlinkOwnerAtOnce(p) ==
  /\ pc[p] = "closing"
  /\ lock = p
  /\ lock' = "unowned"
  /\ pc' = [pc EXCEPT ![p] = "unlocking"]
  /\ UNCHANGED <<file, poisoned, entries, queue, append, acked>>

\* close waits for the queue, closes the file and removes owner.json.
UnlinkOwner(p) ==
  /\ pc[p] = "closing"
  /\ queue[p] = <<>> /\ append[p] = Idle
  /\ lock = p
  /\ lock' = "unowned"
  /\ pc' = [pc EXCEPT ![p] = "unlocking"]
  /\ UNCHANGED <<file, poisoned, entries, queue, append, acked>>

\* The journal object is dropped with the lock.
RemoveLock(p) ==
  /\ pc[p] = "unlocking"
  /\ lock' = "free"
  /\ pc' = [pc EXCEPT ![p] = "out"]
  /\ poisoned' = [poisoned EXCEPT ![p] = FALSE]
  /\ entries' = [entries EXCEPT ![p] = {}]
  /\ UNCHANGED <<file, queue, append, acked>>

-----------------------------------------------------------------------------
(* Crashes *)

\* The process dies, or its close throws before the lock is gone: its memory is
\* gone, the file and the lock are not.
Crash(p) ==
  /\ pc[p] # "out"
  /\ pc' = [pc EXCEPT ![p] = "out"]
  /\ poisoned' = [poisoned EXCEPT ![p] = FALSE]
  /\ entries' = [entries EXCEPT ![p] = {}]
  /\ queue' = [queue EXCEPT ![p] = <<>>]
  /\ append' = [append EXCEPT ![p] = Idle]
  /\ UNCHANGED <<file, lock, acked>>

\* An operator removes a lock directory after making sure that no agent lives.
ClearLock ==
  /\ lock # "free"
  /\ \A p \in Processes : pc[p] = "out"
  /\ lock' = "free"
  /\ UNCHANGED <<file, state, acked>>

\* The host dies: a suffix that was not synced may be gone or torn.
PowerLoss ==
  /\ \E k \in synced..Len(lines) :
       /\ lines' = SubSeq(lines, 1, k)
       /\ synced' = k
       /\ torn' \in IF torn \/ k < Len(lines) THEN BOOLEAN ELSE {FALSE}
  /\ pc' = [p \in Processes |-> "out"]
  /\ poisoned' = [p \in Processes |-> FALSE]
  /\ entries' = [p \in Processes |-> {}]
  /\ queue' = [p \in Processes |-> <<>>]
  /\ append' = [p \in Processes |-> Idle]
  /\ acked' = [acked EXCEPT !.exposed = {}]
  /\ UNCHANGED lock

-----------------------------------------------------------------------------
(* The specification *)

Progress(p) ==
  \/ MakeLock(p) \/ WriteOwner(p) \/ Recover(p)
  \/ AnswerCall(p) \/ StartAppend(p) \/ WritePart(p) \/ WriteRest(p) \/ Sync(p)
  \/ UnlinkOwner(p) \/ RemoveLock(p)

Next ==
  \/ \E p \in Processes :
       \/ Progress(p) \/ FailOpen(p) \/ FailAppend(p) \/ Close(p) \/ Crash(p)
       \/ \E r \in Records : Call(p, r)
  \/ ClearLock
  \/ PowerLoss

Spec == Init /\ [][Next]_vars

\* A live process goes on with what it has begun.
FairSpec == Spec /\ \A p \in Processes : WF_vars(pc[p] # "out" /\ Progress(p))

-----------------------------------------------------------------------------
(* Safety *)

\* The process may touch the file.
Holds(p) == pc[p] \in {"locking", "locked", "open", "closing"} \/ append[p] # Idle

\* No two processes ever touch the file, however opens, closes, crashes and
\* the operator's clean-up interleave.
SoleWriter == \A p, q \in Processes : Holds(p) /\ Holds(q) => p = q

\* open never finds a corrupt record: no crash, failed write, failed fsync,
\* power loss or second process leaves a line that does not replay.
EveryLineReplays == Replays

\* Between appends the memory of a healthy journal is what a restart would
\* rebuild from the file.
MemoryIsReplay ==
  \A p \in Processes :
    pc[p] = "open" /\ append[p] = Idle /\ ~poisoned[p]
      => ~torn /\ entries[p] = Prefix(Len(lines))

\* The journal keeps the promises of the ledger: what is written stays written
\* unless the host loses power, what fsync made durable stays for good, an append
\* is answered only when durable, and a repeated call only with what is written.
Ledger == INSTANCE CommandLedger
  WITH stored <- Prefix(Len(lines)), durable <- Prefix(synced),
       acknowledged <- acked.appended, exposed <- acked.exposed
ImplementsLedger == Ledger!LedgerSpec

-----------------------------------------------------------------------------
(* Liveness *)

\* close ends, also with calls waiting and after a failed append, and leaves
\* the lock to the next process unless the process dies on the way.
CloseEnds ==
  \A p \in Processes : pc[p] = "closing" ~> pc[p] = "out"
=============================================================================
