--------------------------- MODULE JournalProofs ---------------------------
(***************************************************************************)
(* What TLAPS proves about Journal, for any number of processes, commands,  *)
(* effects and waiting calls.                                               *)
(*                                                                          *)
(* The inductive invariant relates three things: who holds the lock, what   *)
(* the process that has the file open believes about it, and what the file  *)
(* holds.  A poisoned journal believes nothing, which is why it may never   *)
(* append again.                                                            *)
(***************************************************************************)
EXTENDS Journal, TLAPS

\* At most one process is past mkdir, and it is the one the lock names.
Exclusive ==
  /\ \A p, q \in Processes : pc[p] # "out" /\ pc[q] # "out" => p = q
  /\ lock = "free" => \A p \in Processes : pc[p] = "out"
  /\ \A p \in Processes : pc[p] \in {"locked", "open", "closing"} => lock = p

\* Only an open, healthy journal runs an append.
AppendsWhileOpen ==
  \A p \in Processes :
    /\ append[p].record = NoRecord => append[p] = Idle
    /\ append[p] # Idle => pc[p] \in {"open", "closing"} /\ ~poisoned[p]
    /\ queue[p] # <<>> => pc[p] \in {"open", "closing"}

\* The memory of p is what the file replays to, and nothing follows it.
Agrees(p) == ~torn /\ entries[p] = Prefix(Len(lines))

\* Where memory and file stand at each point of an append.
MemoryOf(p) ==
  pc[p] \in {"open", "closing"} /\ ~poisoned[p] =>
    /\ append[p] = Idle => Agrees(p)
    /\ Writing(p) =>
         /\ torn <=> append[p].written = "part"
         /\ entries[p] = Prefix(Len(lines))
         /\ Applicable(entries[p], append[p].record)
    /\ append[p].record # NoRecord /\ append[p].written = "all" =>
         /\ ~torn
         /\ Len(lines) > 0
         /\ lines[Len(lines)] = append[p].record
         /\ entries[p] = Prefix(Len(lines) - 1)

MemoryFollowsFile == \A p \in Processes : MemoryOf(p)

AckedIsDurable == acked.appended \subseteq Prefix(synced)

JournalInv ==
  TypeOK /\ Exclusive /\ AppendsWhileOpen /\ MemoryFollowsFile /\ Replays /\ AckedIsDurable

Lines == Seq(Records \cup {Garbage})

-----------------------------------------------------------------------------
(* What happens to prefixes of the file *)

LEMMA PrefixOfAppend ==
  ASSUME NEW s \in Lines, lines = s, NEW x \in Records \cup {Garbage}, lines' = Append(lines, x)
  PROVE  /\ lines' \in Lines
         /\ Len(lines') = Len(lines) + 1
         /\ \A i \in 1..Len(lines) : lines'[i] = lines[i]
         /\ lines'[Len(lines) + 1] = x
         /\ \A k \in 0..Len(lines) : Prefix(k)' = Prefix(k)
         /\ Prefix(Len(lines))' = Prefix(Len(lines)) \cup {x}
<1>1. /\ lines' \in Lines
      /\ Len(lines') = Len(lines) + 1
      /\ \A i \in 1..Len(lines) : lines'[i] = lines[i]
      /\ lines'[Len(lines) + 1] = x
  BY DEF Lines
<1>2. Len(lines) \in Nat
  BY DEF Lines
<1>3. ASSUME NEW k \in 0..Len(lines) PROVE Prefix(k)' = Prefix(k)
  <2>1. \A i \in 1..k : i \in 1..Len(lines)
    BY <1>2
  <2>2. \A i \in 1..k : lines'[i] = lines[i]
    BY <1>1, <2>1
  <2> QED BY <2>2 DEF Prefix
<1>4. Prefix(Len(lines))' = Prefix(Len(lines)) \cup {x}
  <2>1. \A i : i \in 1..(Len(lines) + 1) <=> i \in 1..Len(lines) \/ i = Len(lines) + 1
    BY <1>2
  <2> QED BY <1>1, <2>1 DEF Prefix
<1> QED BY <1>1, <1>3, <1>4

LEMMA PrefixOfPrefix ==
  ASSUME NEW s \in Lines, lines = s, NEW k \in 0..Len(lines), lines' = SubSeq(lines, 1, k)
  PROVE  /\ lines' \in Lines
         /\ Len(lines') = k
         /\ \A i \in 1..k : lines'[i] = lines[i]
         /\ \A j \in 0..k : Prefix(j)' = Prefix(j)
<1>1. Len(lines) \in Nat /\ k \in Nat
  BY DEF Lines
<1>2. Len(lines') = k
  BY <1>1 DEF Lines
<1>3. \A i \in 1..k : lines'[i] = lines[i]
  BY <1>1 DEF Lines
<1>4. lines' \in Lines
  <2>1. \A i \in 1..k : lines[i] \in Records \cup {Garbage}
    BY <1>1 DEF Lines
  <2> QED BY <1>1, <2>1 DEF Lines
<1>5. ASSUME NEW j \in 0..k PROVE Prefix(j)' = Prefix(j)
  <2>1. \A i \in 1..j : i \in 1..k
    BY <1>1
  <2> QED BY <1>3, <2>1 DEF Prefix
<1> QED BY <1>2, <1>3, <1>4, <1>5

LEMMA PrefixGrows ==
  ASSUME NEW j \in Nat, NEW k \in Nat, j <= k
  PROVE  Prefix(j) \subseteq Prefix(k)
<1>1. 1..j \subseteq 1..k
  OBVIOUS
<1> QED BY <1>1 DEF Prefix

-----------------------------------------------------------------------------
(* Types *)

LEMMA InitHolds == Init => JournalInv
<1> SUFFICES ASSUME Init PROVE JournalInv
  OBVIOUS
<1>1. /\ lines = <<>> /\ synced = 0 /\ torn = FALSE /\ lock = "free"
      /\ acked = [appended |-> {}, exposed |-> {}]
      /\ pc = [p \in Processes |-> "out"] /\ poisoned = [p \in Processes |-> FALSE]
      /\ entries = [p \in Processes |-> {}] /\ queue = [p \in Processes |-> <<>>]
      /\ append = [p \in Processes |-> Idle]
  BY DEF Init
<1>2. Idle \in AppendState
  BY DEF Idle, AppendState
<1>3. TypeOK
  <2>1. <<>> \in Seq(Records \cup {Garbage}) /\ <<>> \in Seq(Records) /\ Len(<<>>) = 0
    OBVIOUS
  <2>2. synced \in 0..Len(lines)
    BY <1>1, <2>1
  <2> QED BY <1>1, <1>2, <2>1, <2>2 DEF TypeOK, Answers
<1>4. Exclusive /\ AppendsWhileOpen /\ MemoryFollowsFile
  BY <1>1 DEF Exclusive, AppendsWhileOpen, MemoryFollowsFile, MemoryOf
<1>5. Replays /\ AckedIsDurable
  BY <1>1 DEF Replays, AckedIsDurable
<1> QED BY <1>3, <1>4, <1>5 DEF JournalInv

LEMMA AppendTyped ==
  ASSUME NEW a \in AppendState, NEW w \in {"nothing", "part", "all"}
  PROVE  [a EXCEPT !.written = w] \in AppendState
  BY DEF AppendState

LEMMA StepTyped == JournalInv /\ [Next]_vars => TypeOK'
<1> SUFFICES ASSUME JournalInv, [Next]_vars PROVE TypeOK'
  OBVIOUS
<1>0. TypeOK /\ lines \in Lines /\ Len(lines) \in Nat /\ synced \in Nat /\ synced <= Len(lines)
  BY DEF JournalInv, TypeOK, Lines
<1>1. Idle \in AppendState
  BY DEF Idle, AppendState
<1>2. Prefix(Len(lines)) \subseteq Records
  <2>1. \A i \in 1..Len(lines) : lines[i] \in Records \cup {Garbage} /\ lines[i] # Garbage
    BY <1>0 DEF JournalInv, Replays, Lines
  <2> QED BY <2>1 DEF Prefix
<1>3. ASSUME NEW p \in Processes,
             \/ MakeLock(p) \/ WriteOwner(p) \/ FailOpen(p) \/ Close(p) \/ UnlinkOwner(p)
      PROVE  TypeOK'
  <2>1. lock' \in {"free", "unowned"} \cup Processes
    BY <1>0, <1>3 DEF TypeOK, MakeLock, WriteOwner, FailOpen, Close, UnlinkOwner
  <2>2. pc' \in [Processes -> {"out", "locking", "locked", "open", "closing", "unlocking"}]
    BY <1>0, <1>3 DEF TypeOK, MakeLock, WriteOwner, FailOpen, Close, UnlinkOwner
  <2>3. UNCHANGED <<lines, synced, poisoned, entries, queue, append, acked>>
    BY <1>3 DEF MakeLock, WriteOwner, FailOpen, Close, UnlinkOwner, file
  <2>4. torn' \in BOOLEAN
    BY <1>0, <1>3 DEF TypeOK, MakeLock, WriteOwner, FailOpen, Close, UnlinkOwner, file
  <2> QED BY <1>0, <2>1, <2>2, <2>3, <2>4 DEF TypeOK
<1>4. ASSUME NEW p \in Processes, Recover(p)
      PROVE  TypeOK'
  <2>1. /\ synced' \in 0..Len(lines') /\ lines' = lines /\ torn' = FALSE
        /\ lock' \in {"free", lock}
        /\ UNCHANGED <<poisoned, queue, append>>
    BY <1>0, <1>4 DEF Recover, TypeOK
  <2>4. acked' \in Answers
    BY <1>0, <1>4 DEF Recover, TypeOK, Answers
  <2>2. entries' \in [Processes -> SUBSET Records]
    BY <1>2, <1>4 DEF Recover, TypeOK, JournalInv
  <2>3. pc' \in [Processes -> {"out", "locking", "locked", "open", "closing", "unlocking"}]
    BY <1>0, <1>4 DEF Recover, TypeOK
  <2> QED BY <1>0, <2>1, <2>2, <2>3, <2>4 DEF TypeOK
<1>5. ASSUME NEW p \in Processes, NEW r \in Records, Call(p, r)
      PROVE  TypeOK'
  <2>1. queue' \in [Processes -> Seq(Records)]
    BY <1>0, <1>5 DEF Call, TypeOK
  <2> QED BY <1>0, <1>5, <2>1 DEF Call, TypeOK, file
<1>6. ASSUME NEW p \in Processes, AnswerCall(p) \/ StartAppend(p)
      PROVE  TypeOK'
  <2>1. queue[p] \in Seq(Records) /\ queue[p] # <<>>
    BY <1>0, <1>6 DEF AnswerCall, StartAppend, Ready, TypeOK
  <2>2. Head(queue[p]) \in Records /\ Tail(queue[p]) \in Seq(Records)
    BY <2>1
  <2>3. queue' = [queue EXCEPT ![p] = Tail(queue[p])]
    BY <1>6 DEF AnswerCall, StartAppend
  <2>4. queue' \in [Processes -> Seq(Records)]
    BY <1>0, <2>2, <2>3 DEF TypeOK
  <2>5. append' \in [Processes -> AppendState]
    <3>1. [record |-> Head(queue[p]), written |-> "nothing"] \in AppendState
      BY <2>2 DEF AppendState
    <3> QED BY <1>0, <1>6, <3>1 DEF AnswerCall, StartAppend, TypeOK
  <2>6. Exposed(p, Head(queue[p])) \subseteq Records
    BY <2>2 DEF Exposed
  <2>7. acked' \in Answers
    <3>1. acked \in Answers
      BY <1>0 DEF TypeOK
    <3>2. CASE AnswerCall(p)
      BY <2>6, <3>1, <3>2 DEF AnswerCall, Answers
    <3>3. CASE StartAppend(p)
      BY <3>1, <3>3 DEF StartAppend
    <3> QED BY <1>6, <3>2, <3>3
  <2> QED BY <1>0, <1>6, <2>4, <2>5, <2>7 DEF AnswerCall, StartAppend, TypeOK, file
<1>7. ASSUME NEW p \in Processes, WritePart(p)
      PROVE  TypeOK'
  <2>1. append' = [append EXCEPT ![p] = [@ EXCEPT !.written = "part"]]
    BY <1>7 DEF WritePart
  <2>2. append' \in [Processes -> AppendState]
    BY <1>0, <2>1, AppendTyped DEF TypeOK
  <2> QED BY <1>0, <1>7, <2>2 DEF WritePart, TypeOK
<1>8. ASSUME NEW p \in Processes, WriteRest(p)
      PROVE  TypeOK'
  <2>1. append' = [append EXCEPT ![p] = [@ EXCEPT !.written = "all"]]
    BY <1>8 DEF WriteRest
  <2>2. append' \in [Processes -> AppendState]
    BY <1>0, <2>1, AppendTyped DEF TypeOK
  <2> DEFINE x == IF OwnTail(p) THEN append[p].record ELSE Garbage
  <2>3. x \in Records \cup {Garbage}
    BY <1>0, <1>8 DEF WriteRest, Writing, TypeOK, AppendState
  <2>4. lines' = Append(lines, x)
    BY <1>8 DEF WriteRest
  <2> HIDE DEF x
  <2>5. lines' \in Lines /\ Len(lines') = Len(lines) + 1
    BY <1>0, <2>3, <2>4, PrefixOfAppend
  <2>6. synced \in 0..Len(lines')
    BY <1>0, <2>5
  <2> QED BY <1>0, <1>8, <2>2, <2>5, <2>6 DEF WriteRest, TypeOK, Lines
<1>9. ASSUME NEW p \in Processes, Sync(p)
      PROVE  TypeOK'
  <2>1. append[p].record \in Records
    BY <1>0, <1>9 DEF Sync, JournalInv, AppendsWhileOpen, Idle, TypeOK, AppendState
  <2>2. synced' \in 0..Len(lines)
    BY <1>0, <1>9 DEF Sync
  <2>3. acked' \in Answers
    BY <1>0, <1>9, <2>1 DEF Sync, TypeOK, Answers
  <2> QED BY <1>0, <1>1, <1>9, <2>1, <2>2, <2>3 DEF Sync, TypeOK
<1>10. ASSUME NEW p \in Processes, FailAppend(p) \/ Crash(p)
       PROVE  TypeOK'
  <2>1. UNCHANGED <<lines, torn, synced, lock, acked>>
    BY <1>10 DEF FailAppend, Crash, file
  <2>2. /\ pc' \in [Processes -> {"out", "locking", "locked", "open", "closing", "unlocking"}]
        /\ poisoned' \in [Processes -> BOOLEAN]
        /\ entries' \in [Processes -> SUBSET Records]
    BY <1>0, <1>10 DEF FailAppend, Crash, TypeOK
  <2>3. append' \in [Processes -> AppendState]
    BY <1>0, <1>1, <1>10 DEF FailAppend, Crash, TypeOK
  <2>4. <<>> \in Seq(Records)
    OBVIOUS
  <2>5. queue' \in [Processes -> Seq(Records)]
    BY <1>0, <1>10, <2>4 DEF FailAppend, Crash, TypeOK
  <2> QED BY <1>0, <2>1, <2>2, <2>3, <2>5 DEF TypeOK
<1>11. ASSUME NEW p \in Processes, RemoveLock(p)
       PROVE  TypeOK'
  BY <1>0, <1>11 DEF RemoveLock, TypeOK, file
<1>12. CASE ClearLock
  BY <1>0, <1>12 DEF ClearLock, TypeOK, file, state
<1>13. CASE PowerLoss
  <2>1. PICK k \in synced..Len(lines) :
          /\ lines' = SubSeq(lines, 1, k) /\ synced' = k
          /\ torn' \in IF torn \/ k < Len(lines) THEN BOOLEAN ELSE {FALSE}
    BY <1>13 DEF PowerLoss
  <2>2. k \in 0..Len(lines) /\ k \in Nat
    BY <1>0
  <2>3. lines' \in Lines /\ Len(lines') = k
    BY <1>0, <2>1, <2>2, PrefixOfPrefix
  <2>4. synced' \in 0..Len(lines')
    BY <2>1, <2>2, <2>3
  <2>6. torn' \in BOOLEAN
    BY <2>1
  <2>5. <<>> \in Seq(Records)
    OBVIOUS
  <2>7. acked' \in Answers
    BY <1>0, <1>13 DEF PowerLoss, TypeOK, Answers
  <2> QED BY <1>0, <1>1, <1>13, <2>3, <2>4, <2>5, <2>6, <2>7 DEF PowerLoss, TypeOK, Lines
<1>14. CASE UNCHANGED vars
  BY <1>0, <1>14 DEF vars, file, state, TypeOK
<1> QED BY <1>3, <1>4, <1>5, <1>6, <1>7, <1>8, <1>9, <1>10, <1>11, <1>12, <1>13, <1>14
        DEF Next, Progress

-----------------------------------------------------------------------------
(* The lock *)

LEMMA ExclusiveStep == JournalInv /\ [Next]_vars => Exclusive'
<1> SUFFICES ASSUME JournalInv, [Next]_vars PROVE Exclusive'
  OBVIOUS
<1>0. /\ Exclusive
      /\ pc \in [Processes -> {"out", "locking", "locked", "open", "closing", "unlocking"}]
      /\ Processes \cap {"free", "unowned"} = {}
  BY JournalAssumption DEF JournalInv, TypeOK
<1>1. ASSUME NEW p \in Processes, MakeLock(p)
      PROVE  Exclusive'
  BY <1>0, <1>1 DEF Exclusive, MakeLock
<1>2. ASSUME NEW p \in Processes, WriteOwner(p)
      PROVE  Exclusive'
  BY <1>0, <1>2 DEF Exclusive, WriteOwner
<1>3. ASSUME NEW p \in Processes, Recover(p)
      PROVE  Exclusive'
  <2>1. pc[p] = "locked" /\ lock = p
    BY <1>0, <1>3 DEF Exclusive, Recover
  <2>2. \/ pc' = [pc EXCEPT ![p] = "open"] /\ lock' = lock
        \/ pc' = [pc EXCEPT ![p] = "out"] /\ lock' = "free"
    BY <1>3 DEF Recover
  <2> QED BY <1>0, <2>1, <2>2 DEF Exclusive
<1>4. ASSUME NEW p \in Processes, FailOpen(p)
      PROVE  Exclusive'
  BY <1>0, <1>4 DEF Exclusive, FailOpen
<1>5. ASSUME NEW p \in Processes, Close(p) \/ UnlinkOwner(p)
      PROVE  Exclusive'
  BY <1>0, <1>5 DEF Exclusive, Close, UnlinkOwner
<1>6. ASSUME NEW p \in Processes, RemoveLock(p) \/ Crash(p)
      PROVE  Exclusive'
  BY <1>0, <1>6 DEF Exclusive, RemoveLock, Crash
<1>7. CASE ClearLock \/ PowerLoss
  BY <1>0, <1>7 DEF Exclusive, ClearLock, PowerLoss, state
<1>8. ASSUME NEW p \in Processes,
             \/ AnswerCall(p) \/ StartAppend(p) \/ WritePart(p) \/ WriteRest(p) \/ Sync(p)
             \/ FailAppend(p) \/ \E r \in Records : Call(p, r)
      PROVE  Exclusive'
  <2>1. UNCHANGED <<lock, pc>>
    BY <1>8 DEF AnswerCall, StartAppend, WritePart, WriteRest, Sync, FailAppend, Call
  <2> QED BY <1>0, <2>1 DEF Exclusive
<1>9. CASE UNCHANGED vars
  BY <1>0, <1>9 DEF Exclusive, vars, state
<1> QED BY <1>1, <1>2, <1>3, <1>4, <1>5, <1>6, <1>7, <1>8, <1>9 DEF Next, Progress

-----------------------------------------------------------------------------
(* Appends *)

\* Only the process that is past mkdir does anything but start to open.
LEMMA OthersAreOut ==
  ASSUME JournalInv, NEW p \in Processes, pc[p] # "out"
  PROVE  \A q \in Processes : q # p => pc[q] = "out"
  BY DEF JournalInv, Exclusive

\* An append that runs has a record, and its process is open and healthy.
LEMMA RunningAppend ==
  ASSUME JournalInv, NEW p \in Processes, append[p] # Idle
  PROVE  /\ append[p].record \in Records
         /\ append[p].written \in {"nothing", "part", "all"}
         /\ pc[p] \in {"open", "closing"}
         /\ ~poisoned[p]
  BY DEF JournalInv, AppendsWhileOpen, TypeOK, AppendState

LEMMA WritingRuns ==
  ASSUME NEW p \in Processes, Writing(p) \/ append[p].written = "all"
  PROVE  append[p] # Idle
  BY DEF Writing, Idle

LEMMA AppendsStep == JournalInv /\ [Next]_vars => AppendsWhileOpen'
<1> SUFFICES ASSUME JournalInv, [Next]_vars PROVE AppendsWhileOpen'
  OBVIOUS
<1>0. /\ AppendsWhileOpen
      /\ pc \in [Processes -> {"out", "locking", "locked", "open", "closing", "unlocking"}]
      /\ append \in [Processes -> AppendState]
      /\ poisoned \in [Processes -> BOOLEAN]
      /\ queue \in [Processes -> Seq(Records)]
  BY DEF JournalInv, TypeOK
<1>1. ASSUME NEW p \in Processes, MakeLock(p) \/ WriteOwner(p) \/ FailOpen(p) \/ Close(p) \/ UnlinkOwner(p)
      PROVE  AppendsWhileOpen'
  BY <1>0, <1>1 DEF AppendsWhileOpen, MakeLock, WriteOwner, FailOpen, Close, UnlinkOwner
<1>2. ASSUME NEW p \in Processes, Recover(p)
      PROVE  AppendsWhileOpen'
  BY <1>0, <1>2 DEF AppendsWhileOpen, Recover
<1>3. ASSUME NEW p \in Processes, AnswerCall(p) \/ \E r \in Records : Call(p, r)
      PROVE  AppendsWhileOpen'
  <2>1. pc[p] \in {"open", "closing"}
    BY <1>0, <1>3 DEF AppendsWhileOpen, AnswerCall, Call, Ready
  <2>2. \A q \in Processes : q # p => queue'[q] = queue[q]
    BY <1>0, <1>3 DEF AnswerCall, Call
  <2>3. UNCHANGED <<pc, poisoned, append>>
    BY <1>3 DEF AnswerCall, Call
  <2> QED BY <1>0, <2>1, <2>2, <2>3 DEF AppendsWhileOpen
<1>4. ASSUME NEW p \in Processes, StartAppend(p)
      PROVE  AppendsWhileOpen'
  <2>1. /\ queue[p] \in Seq(Records) /\ queue[p] # <<>>
    BY <1>4 DEF StartAppend, Ready, JournalInv, TypeOK
  <2>2. Head(queue[p]) \in Records /\ Head(queue[p]) # NoRecord
    BY <2>1, JournalAssumption
  <2>3. ~poisoned[p]
    BY <1>4 DEF StartAppend, Answered
  <2>4. queue[p] # <<>> => pc[p] \in {"open", "closing"}
    BY DEF JournalInv, AppendsWhileOpen
  <2>5. append' = [append EXCEPT ![p] = [record |-> Head(queue[p]), written |-> "nothing"]]
    BY <1>4 DEF StartAppend
  <2>6. append'[p].record # NoRecord
    BY <1>0, <2>2, <2>5
  <2>7. \A q \in Processes : q # p => append'[q] = append[q]
    BY <1>0, <2>5
  <2> QED BY <1>0, <1>4, <2>1, <2>3, <2>4, <2>6, <2>7 DEF AppendsWhileOpen, StartAppend
<1>5. ASSUME NEW p \in Processes, NEW w \in {"part", "all"}, append[p] # Idle,
             append' = [append EXCEPT ![p].written = w], UNCHANGED <<pc, poisoned, queue>>
      PROVE  AppendsWhileOpen'
  <2>1. append[p].record # NoRecord
    BY <1>0, <1>5 DEF AppendsWhileOpen
  <2>2. append'[p].record = append[p].record
    BY <1>0, <1>5 DEF AppendState
  <2>3. \A q \in Processes : q # p => append'[q] = append[q]
    BY <1>0, <1>5
  <2> QED BY <1>0, <1>5, <2>1, <2>2, <2>3 DEF AppendsWhileOpen
<1>6. ASSUME NEW p \in Processes, WritePart(p) \/ WriteRest(p)
      PROVE  AppendsWhileOpen'
  BY <1>5, <1>6, WritingRuns DEF WritePart, WriteRest
<1>7. ASSUME NEW p \in Processes, Sync(p) \/ FailAppend(p)
      PROVE  AppendsWhileOpen'
  BY <1>0, <1>7 DEF AppendsWhileOpen, Sync, FailAppend
<1>8. ASSUME NEW p \in Processes, RemoveLock(p) \/ Crash(p)
      PROVE  AppendsWhileOpen'
  <2>1. append'[p] = Idle /\ queue'[p] = <<>>
    BY <1>0, <1>8 DEF AppendsWhileOpen, RemoveLock, Crash
  <2>2. \A q \in Processes \ {p} : /\ append'[q] = append[q] /\ queue'[q] = queue[q]
                                   /\ pc'[q] = pc[q] /\ poisoned'[q] = poisoned[q]
    BY <1>0, <1>8 DEF RemoveLock, Crash
  <2> QED BY <1>0, <2>1, <2>2 DEF AppendsWhileOpen
<1>9. CASE ClearLock \/ PowerLoss \/ UNCHANGED vars
  BY <1>0, <1>9 DEF AppendsWhileOpen, ClearLock, PowerLoss, vars, state
<1> QED BY <1>1, <1>2, <1>3, <1>4, <1>6, <1>7, <1>8, <1>9 DEF Next, Progress

-----------------------------------------------------------------------------
(* The file *)

LEMMA FileFacts ==
  ASSUME JournalInv
  PROVE  /\ lines \in Lines
         /\ Len(lines) \in Nat
         /\ synced \in Nat
         /\ synced <= Len(lines)
         /\ torn \in BOOLEAN
  BY DEF JournalInv, TypeOK, Lines

\* What a finished line is: the record of the append, which apply would take.
LEMMA RestIsRecord ==
  ASSUME JournalInv, NEW p \in Processes, WriteRest(p)
  PROVE  /\ append[p].record \in Records
         /\ lines' = Append(lines, append[p].record)
         /\ entries[p] = Prefix(Len(lines))
         /\ Applicable(Prefix(Len(lines)), append[p].record)
<1>1. append[p] # Idle /\ Writing(p)
  BY WritingRuns DEF WriteRest
<1>2. append[p].record \in Records /\ pc[p] \in {"open", "closing"} /\ ~poisoned[p]
  BY <1>1, RunningAppend
<1>3. /\ torn <=> append[p].written = "part"
      /\ entries[p] = Prefix(Len(lines))
      /\ Applicable(entries[p], append[p].record)
  BY <1>1, <1>2 DEF JournalInv, MemoryFollowsFile, MemoryOf
<1> QED BY <1>2, <1>3 DEF WriteRest, OwnTail

LEMMA ReplaysStep == JournalInv /\ [Next]_vars => Replays'
<1> SUFFICES ASSUME JournalInv, [Next]_vars PROVE Replays'
  OBVIOUS
<1>0. Replays
  BY DEF JournalInv
<1>1. ASSUME UNCHANGED lines PROVE Replays'
  BY <1>0, <1>1 DEF Replays, Prefix
<1>2. ASSUME NEW p \in Processes, WriteRest(p)
      PROVE  Replays'
  <2> DEFINE r == append[p].record
  <2>1. /\ r \in Records /\ r # Garbage
        /\ lines' = Append(lines, r)
        /\ Applicable(Prefix(Len(lines)), r)
    BY <1>2, RestIsRecord, JournalAssumption
  <2> HIDE DEF r
  <2>2. /\ Len(lines') = Len(lines) + 1
        /\ \A i \in 1..Len(lines) : lines'[i] = lines[i]
        /\ lines'[Len(lines) + 1] = r
        /\ \A k \in 0..Len(lines) : Prefix(k)' = Prefix(k)
    BY <2>1, FileFacts, PrefixOfAppend
  <2> SUFFICES ASSUME NEW i \in 1..Len(lines')
               PROVE  lines'[i] # Garbage /\ Applicable(Prefix(i - 1)', lines'[i])
    BY DEF Replays
  <2>3. i - 1 \in 0..Len(lines) /\ (i \in 1..Len(lines) \/ i = Len(lines) + 1)
    BY <2>2, FileFacts
  <2>4. Prefix(i - 1)' = Prefix(i - 1)
    BY <2>2, <2>3
  <2>5. CASE i \in 1..Len(lines)
    BY <1>0, <2>2, <2>4, <2>5 DEF Replays
  <2>6. CASE i = Len(lines) + 1
    <3>1. i - 1 = Len(lines)
      BY <2>6, FileFacts
    <3> QED BY <2>1, <2>2, <2>4, <2>6, <3>1
  <2> QED BY <2>3, <2>5, <2>6
<1>3. CASE PowerLoss
  <2>1. PICK k \in synced..Len(lines) : lines' = SubSeq(lines, 1, k)
    BY <1>3 DEF PowerLoss
  <2>2. k \in 0..Len(lines) /\ k \in Nat
    BY FileFacts
  <2>3. /\ Len(lines') = k
        /\ \A i \in 1..k : lines'[i] = lines[i]
        /\ \A j \in 0..k : Prefix(j)' = Prefix(j)
    BY <2>1, <2>2, FileFacts, PrefixOfPrefix
  <2> SUFFICES ASSUME NEW i \in 1..k
               PROVE  lines'[i] # Garbage /\ Applicable(Prefix(i - 1)', lines'[i])
    BY <2>3 DEF Replays
  <2>4. i - 1 \in 0..k /\ i \in 1..Len(lines)
    BY <2>2, FileFacts
  <2>5. Prefix(i - 1)' = Prefix(i - 1)
    BY <2>3, <2>4
  <2> QED BY <1>0, <2>3, <2>4, <2>5 DEF Replays
<1>4. ASSUME NEW p \in Processes,
             \/ MakeLock(p) \/ WriteOwner(p) \/ Recover(p) \/ AnswerCall(p) \/ StartAppend(p)
             \/ WritePart(p) \/ Sync(p) \/ UnlinkOwner(p) \/ RemoveLock(p)
             \/ FailOpen(p) \/ FailAppend(p) \/ Close(p) \/ Crash(p) \/ \E r \in Records : Call(p, r)
      PROVE  UNCHANGED lines
  BY <1>4 DEF MakeLock, WriteOwner, Recover, AnswerCall, StartAppend, WritePart, Sync, UnlinkOwner,
              RemoveLock, FailOpen, FailAppend, Close, Crash, Call, file
<1>5. CASE ClearLock \/ UNCHANGED vars
  BY <1>1, <1>5 DEF ClearLock, vars, file
<1> QED BY <1>1, <1>2, <1>3, <1>4, <1>5 DEF Next, Progress

\* No step takes a durable line away, and acknowledged records are among them.
LEMMA DurableStep ==
  JournalInv /\ [Next]_vars => Prefix(synced) \subseteq Prefix(synced)' /\ AckedIsDurable'
<1> SUFFICES ASSUME JournalInv, [Next]_vars
             PROVE  Prefix(synced) \subseteq Prefix(synced)' /\ AckedIsDurable'
  OBVIOUS
<1>0. acked.appended \subseteq Prefix(synced) /\ acked \in Answers
  BY DEF JournalInv, AckedIsDurable, TypeOK
<1>1. ASSUME UNCHANGED <<lines, synced, acked.appended>>
      PROVE  Prefix(synced) \subseteq Prefix(synced)' /\ AckedIsDurable'
  BY <1>0, <1>1 DEF AckedIsDurable, Prefix
<1>2. ASSUME NEW p \in Processes, Recover(p)
      PROVE  Prefix(synced) \subseteq Prefix(synced)' /\ AckedIsDurable'
  <2>1. lines' = lines /\ acked'.appended = acked.appended /\ synced' \in {synced, Len(lines)}
    BY <1>0, <1>2 DEF Recover, Answers
  <2>2. Prefix(synced)' \in {Prefix(synced), Prefix(Len(lines))}
    BY <2>1 DEF Prefix
  <2>3. Prefix(synced) \subseteq Prefix(Len(lines))
    BY FileFacts, PrefixGrows
  <2> QED BY <1>0, <2>1, <2>2, <2>3 DEF AckedIsDurable
<1>3. ASSUME NEW p \in Processes, Sync(p)
      PROVE  Prefix(synced) \subseteq Prefix(synced)' /\ AckedIsDurable'
  <2>1. lines' = lines /\ acked'.appended = acked.appended \cup {append[p].record} /\ synced' = Len(lines)
    BY <1>3 DEF Sync
  <2>2. Prefix(synced)' = Prefix(Len(lines))
    BY <2>1 DEF Prefix
  <2>3. Prefix(synced) \subseteq Prefix(Len(lines))
    BY FileFacts, PrefixGrows
  <2>4. append[p].written = "all" /\ append[p] # Idle
    BY <1>3, WritingRuns DEF Sync
  <2>5. append[p].record # NoRecord /\ pc[p] \in {"open", "closing"} /\ ~poisoned[p]
    BY <2>4, RunningAppend, JournalAssumption
  <2>6. Len(lines) > 0 /\ lines[Len(lines)] = append[p].record
    BY <2>4, <2>5 DEF JournalInv, MemoryFollowsFile, MemoryOf
  <2>7. append[p].record \in Prefix(Len(lines))
    BY <2>6, FileFacts DEF Prefix
  <2> QED BY <1>0, <2>1, <2>2, <2>3, <2>7 DEF AckedIsDurable
<1>4. ASSUME NEW p \in Processes, WriteRest(p)
      PROVE  Prefix(synced) \subseteq Prefix(synced)' /\ AckedIsDurable'
  <2>1. synced' = synced /\ acked' = acked
    BY <1>4 DEF WriteRest
  <2>2. \A k \in 0..Len(lines) : Prefix(k)' = Prefix(k)
    BY <1>4, FileFacts, RestIsRecord, PrefixOfAppend
  <2>3. Prefix(synced)' = Prefix(synced)
    <3>1. synced \in 0..Len(lines)
      BY FileFacts
    <3>2. PICK k \in 0..Len(lines) : k = synced
      BY <3>1
    <3>3. Prefix(k)' = Prefix(synced)'
      BY <2>1, <3>2 DEF Prefix
    <3> QED BY <2>2, <3>2, <3>3
  <2> QED BY <1>0, <2>1, <2>3 DEF AckedIsDurable
<1>5. CASE PowerLoss
  <2>1. PICK k \in synced..Len(lines) : lines' = SubSeq(lines, 1, k) /\ synced' = k
    BY <1>5 DEF PowerLoss
  <2>2. k \in 0..Len(lines) /\ k \in Nat /\ synced <= k
    BY FileFacts
  <2>3. Prefix(k)' = Prefix(k)
    BY <2>1, <2>2, FileFacts, PrefixOfPrefix
  <2>4. Prefix(synced)' = Prefix(k)
    BY <2>1, <2>3 DEF Prefix
  <2>5. Prefix(synced) \subseteq Prefix(k)
    BY <2>2, FileFacts, PrefixGrows
  <2>6. acked'.appended = acked.appended
    BY <1>0, <1>5 DEF PowerLoss, Answers
  <2> QED BY <1>0, <2>4, <2>5, <2>6 DEF AckedIsDurable
<1>6. ASSUME NEW p \in Processes,
             \/ MakeLock(p) \/ WriteOwner(p) \/ StartAppend(p)
             \/ WritePart(p) \/ UnlinkOwner(p) \/ RemoveLock(p)
             \/ FailOpen(p) \/ FailAppend(p) \/ Close(p) \/ Crash(p) \/ \E r \in Records : Call(p, r)
      PROVE  UNCHANGED <<lines, synced, acked>>
  BY <1>6 DEF MakeLock, WriteOwner, StartAppend, WritePart, UnlinkOwner,
              RemoveLock, FailOpen, FailAppend, Close, Crash, Call, file
<1>7. ASSUME NEW p \in Processes, AnswerCall(p)
      PROVE  UNCHANGED <<lines, synced, acked.appended>>
  BY <1>0, <1>7 DEF AnswerCall, file, Answers
<1>8. CASE ClearLock \/ UNCHANGED vars
  BY <1>1, <1>8 DEF ClearLock, vars, file
<1> QED BY <1>1, <1>2, <1>3, <1>4, <1>5, <1>6, <1>7, <1>8 DEF Next, Progress

-----------------------------------------------------------------------------
(* Memory and file *)

\* While p moves and the others are out, only the memory of p is at stake.
LEMMA OneMemory ==
  ASSUME JournalInv, NEW p \in Processes, pc[p] # "out",
         \A q \in Processes : q # p => pc'[q] = pc[q],
         MemoryOf(p)'
  PROVE  MemoryFollowsFile'
<1>1. \A q \in Processes : q # p => pc'[q] = "out"
  BY OthersAreOut
<1> QED BY <1>1 DEF MemoryFollowsFile, MemoryOf

LEMMA MemoryStep == JournalInv /\ [Next]_vars => MemoryFollowsFile'
<1> SUFFICES ASSUME JournalInv, [Next]_vars PROVE MemoryFollowsFile'
  OBVIOUS
<1>0. /\ MemoryFollowsFile
      /\ pc \in [Processes -> {"out", "locking", "locked", "open", "closing", "unlocking"}]
      /\ append \in [Processes -> AppendState]
      /\ poisoned \in [Processes -> BOOLEAN]
      /\ entries \in [Processes -> SUBSET Records]
      /\ queue \in [Processes -> Seq(Records)]
      /\ AppendsWhileOpen
  BY DEF JournalInv, TypeOK
<1>1. ASSUME NEW p \in Processes,
             MakeLock(p) \/ WriteOwner(p) \/ FailOpen(p) \/ UnlinkOwner(p) \/ RemoveLock(p) \/ Crash(p)
      PROVE  MemoryFollowsFile'
  <2>1. pc'[p] \notin {"open", "closing"}
    BY <1>0, <1>1 DEF MakeLock, WriteOwner, FailOpen, UnlinkOwner, RemoveLock, Crash
  <2>2. \A q \in Processes : q # p => pc'[q] = pc[q]
    BY <1>0, <1>1 DEF MakeLock, WriteOwner, FailOpen, UnlinkOwner, RemoveLock, Crash
  <2>3. \A q \in Processes : q # p => pc[q] = "out"
    BY <1>1, OthersAreOut
       DEF JournalInv, Exclusive, MakeLock, WriteOwner, FailOpen, UnlinkOwner, RemoveLock, Crash
  <2> QED BY <2>1, <2>2, <2>3 DEF MemoryFollowsFile, MemoryOf
<1>2. ASSUME NEW p \in Processes, Recover(p)
      PROVE  MemoryFollowsFile'
  <2>1. pc[p] = "locked" /\ torn' = FALSE /\ lines' = lines /\ append' = append
    BY <1>2 DEF Recover
  <2>2. append'[p] = Idle /\ append'[p].record = NoRecord
    BY <1>0, <2>1 DEF AppendsWhileOpen, Idle
  <2>3. entries'[p] = Prefix(Len(lines))
    BY <1>0, <1>2 DEF Recover, JournalInv
  <2>4. entries'[p] = Prefix(Len(lines))'
    BY <2>1, <2>3 DEF Prefix
  <2>5. MemoryOf(p)'
    BY <2>1, <2>2, <2>4 DEF MemoryOf, Agrees, Writing
  <2>6. \A q \in Processes : q # p => pc'[q] = pc[q]
    BY <1>0, <1>2 DEF Recover
  <2> QED BY <2>1, <2>5, <2>6, OneMemory
<1>3. ASSUME NEW p \in Processes, Close(p) \/ AnswerCall(p) \/ \E r \in Records : Call(p, r)
      PROVE  MemoryFollowsFile'
  <2>1. UNCHANGED <<file, poisoned, entries, append>>
    BY <1>3 DEF Close, AnswerCall, Call
  <2>2. \A q \in Processes : pc'[q] \in {"open", "closing"} => pc[q] \in {"open", "closing"}
    BY <1>0, <1>3 DEF Close, AnswerCall, Call
  <2> QED BY <1>0, <2>1, <2>2 DEF MemoryFollowsFile, MemoryOf, Agrees, Writing, Prefix, file
<1>4. ASSUME NEW p \in Processes, StartAppend(p)
      PROVE  MemoryFollowsFile'
  <2>1. append[p] = Idle /\ queue[p] # <<>> /\ ~Answered(p, Head(queue[p]))
    BY <1>4 DEF StartAppend, Ready
  <2>2. pc[p] \in {"open", "closing"} /\ ~poisoned[p] /\ Applicable(entries[p], Head(queue[p]))
    BY <1>0, <2>1 DEF AppendsWhileOpen, Answered
  <2>3. ~torn /\ entries[p] = Prefix(Len(lines))
    BY <1>0, <2>1, <2>2 DEF MemoryFollowsFile, MemoryOf, Agrees
  <2>4. UNCHANGED <<file, pc, poisoned, entries>>
    BY <1>4 DEF StartAppend
  <2>5. append' = [append EXCEPT ![p] = [record |-> Head(queue[p]), written |-> "nothing"]]
    BY <1>4 DEF StartAppend
  <2>6. append'[p].record = Head(queue[p]) /\ append'[p].written = "nothing" /\ append'[p] # Idle
    <3>1. Head(queue[p]) # NoRecord
      BY <1>0, <2>1, JournalAssumption
    <3> QED BY <1>0, <2>5, <3>1 DEF Idle
  <2>7. entries'[p] = Prefix(Len(lines))' /\ ~torn'
    BY <2>3, <2>4 DEF Prefix, file
  <2>8. Applicable(entries'[p], append'[p].record)
    BY <2>2, <2>4, <2>6
  <2>9. MemoryOf(p)'
    BY <2>6, <2>7, <2>8 DEF MemoryOf, Writing
  <2> QED BY <2>2, <2>4, <2>9, OneMemory
<1>5. ASSUME NEW p \in Processes, WritePart(p)
      PROVE  MemoryFollowsFile'
  <2>1. append[p] # Idle /\ Writing(p)
    BY <1>5, WritingRuns DEF WritePart
  <2>2. pc[p] \in {"open", "closing"} /\ ~poisoned[p]
    BY <2>1, RunningAppend
  <2>3. entries[p] = Prefix(Len(lines)) /\ Applicable(entries[p], append[p].record)
    BY <1>0, <2>1, <2>2 DEF MemoryFollowsFile, MemoryOf
  <2>4. /\ append'[p].record = append[p].record
        /\ append'[p].written = "part"
    BY <1>0, <1>5 DEF WritePart, AppendState
  <2>5. torn' = TRUE /\ UNCHANGED <<lines, entries, pc, poisoned>>
    BY <1>5 DEF WritePart
  <2>6. entries'[p] = Prefix(Len(lines))'
    BY <2>3, <2>5 DEF Prefix
  <2>7. Applicable(entries'[p], append'[p].record) /\ append'[p] # Idle
    BY <2>3, <2>4, <2>5 DEF Idle
  <2>8. MemoryOf(p)'
    BY <2>4, <2>5, <2>6, <2>7 DEF MemoryOf, Writing
  <2> QED BY <2>2, <2>5, <2>8, OneMemory
<1>6. ASSUME NEW p \in Processes, WriteRest(p)
      PROVE  MemoryFollowsFile'
  <2> DEFINE r == append[p].record
  <2>1. r \in Records /\ lines' = Append(lines, r) /\ entries[p] = Prefix(Len(lines))
    BY <1>6, RestIsRecord
  <2>2. append[p] # Idle /\ pc[p] \in {"open", "closing"}
    BY <1>6, WritingRuns, RunningAppend DEF WriteRest
  <2>3. append'[p].record = r /\ append'[p].written = "all"
    BY <1>0, <1>6 DEF WriteRest, AppendState
  <2>4. torn' = FALSE /\ UNCHANGED <<entries, pc, poisoned>>
    BY <1>6 DEF WriteRest
  <2> HIDE DEF r
  <2>5. /\ Len(lines') = Len(lines) + 1
        /\ lines'[Len(lines) + 1] = r
        /\ \A k \in 0..Len(lines) : Prefix(k)' = Prefix(k)
    BY <2>1, FileFacts, PrefixOfAppend
  <2>6. Len(lines') > 0 /\ lines'[Len(lines')] = r
    BY <2>5, FileFacts
  <2>7. entries'[p] = Prefix(Len(lines) - 1)'
    <3>1. PICK k \in 0..Len(lines) : k = Len(lines)
      BY FileFacts
    <3>2. Len(lines') - 1 = k
      BY <2>5, <3>1, FileFacts
    <3>3. Prefix(Len(lines) - 1)' = Prefix(k)'
      BY <3>2 DEF Prefix
    <3> QED BY <2>1, <2>4, <2>5, <3>1, <3>3
  <2>8. append'[p] # Idle
    BY <2>3 DEF Idle
  <2>9. MemoryOf(p)'
    BY <2>3, <2>4, <2>6, <2>7, <2>8 DEF MemoryOf, Writing
  <2> QED BY <2>2, <2>4, <2>9, OneMemory
<1>7. ASSUME NEW p \in Processes, Sync(p)
      PROVE  MemoryFollowsFile'
  <2>1. append[p].written = "all" /\ append[p] # Idle
    BY <1>7, WritingRuns DEF Sync
  <2>2. append[p].record # NoRecord /\ pc[p] \in {"open", "closing"} /\ ~poisoned[p]
    BY <2>1, RunningAppend, JournalAssumption
  <2>3. /\ ~torn /\ Len(lines) > 0 /\ lines[Len(lines)] = append[p].record
        /\ entries[p] = Prefix(Len(lines) - 1)
    BY <1>0, <2>1, <2>2 DEF MemoryFollowsFile, MemoryOf
  <2>4. UNCHANGED <<lines, torn, pc, poisoned>>
    BY <1>7 DEF Sync
  <2>5. append'[p] = Idle /\ entries'[p] = entries[p] \cup {append[p].record}
    BY <1>0, <1>7 DEF Sync
  <2>6. Prefix(Len(lines)) = Prefix(Len(lines) - 1) \cup {lines[Len(lines)]}
    <3>1. \A i : i \in 1..Len(lines) <=> i \in 1..(Len(lines) - 1) \/ i = Len(lines)
      BY <2>3, FileFacts
    <3> QED BY <3>1 DEF Prefix
  <2>7. entries'[p] = Prefix(Len(lines))'
    BY <2>3, <2>4, <2>5, <2>6 DEF Prefix
  <2>8. MemoryOf(p)'
    BY <2>3, <2>4, <2>5, <2>7 DEF MemoryOf, Agrees, Writing, Idle
  <2> QED BY <2>2, <2>4, <2>8, OneMemory
<1>8. ASSUME NEW p \in Processes, FailAppend(p)
      PROVE  MemoryFollowsFile'
  <2>1. pc[p] \in {"open", "closing"}
    BY <1>8, RunningAppend DEF FailAppend
  <2>2. poisoned'[p] /\ UNCHANGED pc
    BY <1>0, <1>8 DEF FailAppend
  <2> QED BY <2>1, <2>2, OneMemory DEF MemoryOf
<1>9. CASE ClearLock \/ UNCHANGED vars
  <2>1. UNCHANGED <<lines, torn, pc, poisoned, entries, append>>
    BY <1>9 DEF ClearLock, vars, file, state
  <2> QED BY <1>0, <2>1 DEF MemoryFollowsFile, MemoryOf, Agrees, Writing, Prefix
<1>10. CASE PowerLoss
  BY <1>10 DEF MemoryFollowsFile, MemoryOf, PowerLoss
<1> QED BY <1>1, <1>2, <1>3, <1>4, <1>5, <1>6, <1>7, <1>8, <1>9, <1>10 DEF Next, Progress

-----------------------------------------------------------------------------
(* The invariant and what it says *)

LEMMA InvStep == JournalInv /\ [Next]_vars => JournalInv'
  BY StepTyped, ExclusiveStep, AppendsStep, MemoryStep, ReplaysStep, DurableStep DEF JournalInv

LEMMA InvHolds == Spec => []JournalInv
  BY InitHolds, InvStep, PTL DEF Spec

\* Every variable has its type: `synced` never points past the file, and
\* nothing but records gets into a queue or a memory.
THEOREM TypeCorrect == Spec => []TypeOK
<1>1. JournalInv => TypeOK
  BY DEF JournalInv
<1> QED BY <1>1, InvHolds, PTL

\* The lock directory keeps a second process away from the file: while one is
\* between mkdir and the removal of owner.json, or writes, no other is.
THEOREM OneProcessOwnsFile == Spec => []SoleWriter
<1>1. JournalInv => SoleWriter
  BY DEF JournalInv, Exclusive, AppendsWhileOpen, SoleWriter, Holds
<1> QED BY <1>1, InvHolds, PTL

\* open (index.ts:194-218) never finds a corrupt or inconsistent record.
THEOREM FileAlwaysReplays == Spec => []EveryLineReplays
<1>1. JournalInv => EveryLineReplays
  BY DEF JournalInv, EveryLineReplays
<1> QED BY <1>1, InvHolds, PTL

\* What a healthy journal answers from its memory is what a restart would
\* answer from the file.
THEOREM MemoryMatchesFile == Spec => []MemoryIsReplay
<1>1. JournalInv => MemoryIsReplay
  BY DEF JournalInv, MemoryFollowsFile, MemoryOf, Agrees, MemoryIsReplay
<1> QED BY <1>1, InvHolds, PTL

-----------------------------------------------------------------------------
(* The journal implements the ledger *)

LEMMA SameRecords ==
  /\ Ledger!Records = Records
  /\ \A E, r : Ledger!Applicable(E, r) = Applicable(E, r)
  BY DEF Ledger!Records, Ledger!Receipt, Ledger!Effect, Ledger!Result, Ledger!Applicable,
         Ledger!SameKey, Ledger!Recorded,
         Records, Receipt, Effect, Result, Applicable, SameKey, Recorded

\* What replays line by line is consistent as a whole.
LEMMA ReplaysConsistently == JournalInv => Ledger!Consistent(Prefix(Len(lines)))
<1> DEFINE n == Len(lines)
<1> SUFFICES ASSUME JournalInv PROVE Ledger!Consistent(Prefix(n))
  OBVIOUS
<1>0. n \in Nat
  BY FileFacts
<1>1. \A i \in 1..n : lines[i] # Garbage /\ Applicable(Prefix(i - 1), lines[i])
  BY DEF JournalInv, Replays
<1>2. Prefix(n) \in SUBSET Records
  <2>1. \A i \in 1..n : lines[i] \in Records \cup {Garbage}
    BY FileFacts DEF Lines
  <2> QED BY <1>1, <2>1 DEF Prefix
<1> HIDE DEF n
<1>3. ASSUME NEW j \in 1..n, NEW i \in 1..n, i < j, SameKey(lines[j], lines[i])
      PROVE  lines[i] = lines[j]
  <2>1. i \in 1..(j - 1)
    BY <1>0, <1>3
  <2>2. lines[i] \in Prefix(j - 1)
    BY <2>1 DEF Prefix
  <2>3. \A x \in Prefix(j - 1) : SameKey(x, lines[j]) => x = lines[j]
    BY <1>1 DEF Applicable
  <2>4. SameKey(lines[i], lines[j])
    BY <1>3 DEF SameKey
  <2> QED BY <2>2, <2>3, <2>4
<1>4. ASSUME NEW r \in Prefix(n), NEW x \in Prefix(n), SameKey(r, x)
      PROVE  r = x
  <2>1. PICK i \in 1..n : r = lines[i]
    BY DEF Prefix
  <2>2. PICK j \in 1..n : x = lines[j]
    BY DEF Prefix
  <2>3. i < j \/ j < i \/ i = j
    BY <1>0
  <2>4. SameKey(lines[i], lines[j]) /\ SameKey(lines[j], lines[i])
    BY <1>4, <2>1, <2>2 DEF SameKey
  <2> QED BY <1>3, <2>1, <2>2, <2>3, <2>4
<1>5. ASSUME NEW r \in Prefix(n)
      PROVE  /\ r.type # "receipt" => Recorded(Prefix(n), "receipt", r.id)
             /\ r.type = "result" =>
                  Recorded(Prefix(n), "effect", r.id) \/ r.data \in Failures
  <2>1. PICK j \in 1..n : r = lines[j]
    BY DEF Prefix
  <2>2. Prefix(j - 1) \subseteq Prefix(n)
    BY <1>0, PrefixGrows
  <2>3. Applicable(Prefix(j - 1), r)
    BY <1>1, <2>1
  <2>4. r.type \in {"receipt", "effect", "result"}
    BY <1>2 DEF Records, Receipt, Effect, Result
  <2> QED BY <2>2, <2>3, <2>4 DEF Applicable, Recorded
<1> QED BY <1>4, <1>5
        DEF Ledger!Consistent, Ledger!SameKey, Ledger!Recorded, SameKey, Recorded

\* What the ledger sees of a state.
Seen == <<Prefix(Len(lines)), Prefix(synced), acked.appended, acked.exposed>>

\* A step that keeps the file and the answers is no step of the ledger.
LEMMA QuietStep ==
  ASSUME UNCHANGED <<lines, synced, acked>>
  PROVE  Seen' = Seen
  BY DEF Seen, Prefix

\* The write that completes a line stores the record of the append, if anything.
LEMMA WriteStep ==
  ASSUME JournalInv, NEW p \in Processes, WriteRest(p)
  PROVE  Ledger!Write \/ Seen' = Seen
<1> DEFINE r == append[p].record
<1>1. /\ r \in Records
      /\ lines' = Append(lines, r)
      /\ Applicable(Prefix(Len(lines)), r)
  BY RestIsRecord
<1>2. UNCHANGED <<synced, acked>>
  BY DEF WriteRest
<1> HIDE DEF r
<1>3. /\ Len(lines') = Len(lines) + 1
      /\ \A k \in 0..Len(lines) : Prefix(k)' = Prefix(k)
      /\ Prefix(Len(lines))' = Prefix(Len(lines)) \cup {r}
  BY <1>1, FileFacts, PrefixOfAppend
<1>4. Prefix(synced)' = Prefix(synced)
  <2>1. PICK k \in 0..Len(lines) : k = synced
    BY FileFacts
  <2>2. Prefix(k)' = Prefix(synced)'
    BY <1>2, <2>1 DEF Prefix
  <2> QED BY <1>3, <2>1, <2>2
<1>5. CASE r \in Prefix(Len(lines))
  BY <1>2, <1>3, <1>4, <1>5 DEF Seen
<1>6. CASE r \notin Prefix(Len(lines))
  BY <1>1, <1>2, <1>3, <1>4, <1>6, SameRecords DEF Ledger!Write
<1> QED BY <1>5, <1>6

\* A fsync makes the whole file durable; the append that asked for it may be
\* answered.
LEMMA SyncStep ==
  ASSUME JournalInv, NEW p \in Processes, Sync(p) \/ Recover(p)
  PROVE  Ledger!Commit \/ Seen' = Seen
<1>0. acked \in Answers
  BY DEF JournalInv, TypeOK
<1>1. CASE Sync(p)
  <2>1. append[p].written = "all" /\ append[p] # Idle
    BY <1>1, WritingRuns DEF Sync
  <2>2. append[p].record # NoRecord /\ pc[p] \in {"open", "closing"} /\ ~poisoned[p]
    BY <2>1, RunningAppend, JournalAssumption
  <2>3. Len(lines) > 0 /\ lines[Len(lines)] = append[p].record
    BY <2>1, <2>2 DEF JournalInv, MemoryFollowsFile, MemoryOf
  <2>4. append[p].record \in Prefix(Len(lines))
    BY <2>3, FileFacts DEF Prefix
  <2>5. /\ lines' = lines /\ synced' = Len(lines)
        /\ acked'.appended = acked.appended \cup {append[p].record} /\ acked'.exposed = {}
    BY <1>1 DEF Sync
  <2>6. Prefix(synced)' = Prefix(Len(lines)) /\ Prefix(Len(lines))' = Prefix(Len(lines))
    BY <2>5 DEF Prefix
  <2> QED BY <2>4, <2>5, <2>6 DEF Ledger!Commit
<1>2. CASE Recover(p) /\ torn
  <2>1. /\ lines' = lines /\ synced' = Len(lines)
        /\ acked'.appended = acked.appended /\ acked'.exposed = {}
    BY <1>0, <1>2 DEF Recover, Answers
  <2>2. Prefix(synced)' = Prefix(Len(lines)) /\ Prefix(Len(lines))' = Prefix(Len(lines))
    BY <2>1 DEF Prefix
  <2> QED BY <2>1, <2>2 DEF Ledger!Commit
<1>3. CASE Recover(p) /\ ~torn
  <2>1. UNCHANGED <<lines, synced, acked>>
    BY <1>3 DEF Recover
  <2> QED BY <2>1, QuietStep
<1> QED BY <1>1, <1>2, <1>3

\* A repeated call is answered from the memory, which is the file.
LEMMA RepeatStep ==
  ASSUME JournalInv, NEW p \in Processes, AnswerCall(p)
  PROVE  Ledger!Confirm \/ Seen' = Seen
<1> DEFINE r == Head(queue[p])
<1>0. acked \in Answers
  BY DEF JournalInv, TypeOK
<1>1. /\ append[p] = Idle /\ pc[p] \in {"open", "closing"}
      /\ UNCHANGED <<lines, synced>>
      /\ acked' = [acked EXCEPT !.exposed = @ \cup Exposed(p, r)]
  BY DEF AnswerCall, Ready, file, JournalInv, AppendsWhileOpen
<1> HIDE DEF r
<1>2. acked'.appended = acked.appended /\ acked'.exposed = acked.exposed \cup Exposed(p, r)
  BY <1>0, <1>1 DEF Answers
<1>3. Prefix(synced)' = Prefix(synced) /\ Prefix(Len(lines))' = Prefix(Len(lines))
  BY <1>1 DEF Prefix
<1>4. CASE Exposed(p, r) = {}
  BY <1>2, <1>3, <1>4 DEF Seen
<1>5. CASE Exposed(p, r) # {}
  <2>1. ~poisoned[p] /\ r \in entries[p] /\ r \notin Prefix(synced) /\ Exposed(p, r) = {r}
    BY <1>5 DEF Exposed, Repeats
  <2>2. entries[p] = Prefix(Len(lines))
    BY <1>1, <2>1 DEF JournalInv, MemoryFollowsFile, MemoryOf, Agrees
  <2> QED BY <1>2, <1>3, <2>1, <2>2 DEF Ledger!Confirm
<1> QED BY <1>4, <1>5

\* A power loss keeps what was synced, and what is left replays.
LEMMA LossStep ==
  ASSUME JournalInv, JournalInv', PowerLoss
  PROVE  Ledger!Lose
<1>0. acked \in Answers
  BY DEF JournalInv, TypeOK
<1>1. PICK k \in synced..Len(lines) : lines' = SubSeq(lines, 1, k) /\ synced' = k
  BY DEF PowerLoss
<1>2. k \in 0..Len(lines) /\ k \in Nat /\ synced <= k /\ synced \in Nat /\ Len(lines) \in Nat
  BY FileFacts
<1>3. Prefix(k)' = Prefix(k) /\ Len(lines') = k
  BY <1>1, <1>2, FileFacts, PrefixOfPrefix
<1>4. Prefix(synced)' = Prefix(k) /\ Prefix(Len(lines))' = Prefix(k)
  BY <1>1, <1>3 DEF Prefix
<1>5. Prefix(synced) \subseteq Prefix(k) /\ Prefix(k) \subseteq Prefix(Len(lines))
  BY <1>2, PrefixGrows
<1>6. acked'.appended = acked.appended /\ acked'.exposed = {}
  BY <1>0 DEF PowerLoss, Answers
<1>7. Ledger!Consistent(Prefix(Len(lines)))'
  BY ReplaysConsistently, PTL
<1>8. Ledger!Consistent(Prefix(Len(lines))')
  BY <1>7 DEF Ledger!Consistent, Ledger!SameKey, Ledger!Recorded
<1> QED BY <1>4, <1>5, <1>6, <1>8 DEF Ledger!Lose

\* The ledger sees one step or none at each step of the journal.
LEMMA StepOfLedger ==
  JournalInv /\ [Next]_vars => [Ledger!LedgerNext]_Ledger!ledgerVars
<1> SUFFICES ASSUME JournalInv, [Next]_vars PROVE Ledger!LedgerNext \/ Seen' = Seen
  BY DEF Ledger!ledgerVars, Seen
<1>1. JournalInv'
  BY InvStep
<1>2. ASSUME NEW p \in Processes,
             WriteRest(p) \/ Sync(p) \/ Recover(p) \/ AnswerCall(p)
      PROVE  Ledger!LedgerNext \/ Seen' = Seen
  BY <1>2, WriteStep, SyncStep, RepeatStep DEF Ledger!LedgerNext
<1>3. CASE PowerLoss
  BY <1>1, <1>3, LossStep DEF Ledger!LedgerNext
<1>4. ASSUME NEW p \in Processes,
             \/ MakeLock(p) \/ WriteOwner(p) \/ StartAppend(p)
             \/ WritePart(p) \/ UnlinkOwner(p) \/ RemoveLock(p)
             \/ FailOpen(p) \/ FailAppend(p) \/ Close(p) \/ Crash(p) \/ \E r \in Records : Call(p, r)
      PROVE  Seen' = Seen
  <2>1. UNCHANGED <<lines, synced, acked>>
    BY <1>4 DEF MakeLock, WriteOwner, StartAppend, WritePart, UnlinkOwner,
                RemoveLock, FailOpen, FailAppend, Close, Crash, Call, file
  <2> QED BY <2>1, QuietStep
<1>5. CASE ClearLock \/ UNCHANGED vars
  <2>1. UNCHANGED <<lines, synced, acked>>
    BY <1>5 DEF ClearLock, vars, file
  <2> QED BY <2>1, QuietStep
<1> QED BY <1>2, <1>3, <1>4, <1>5 DEF Next, Progress

\* Whatever crashes, failed writes, failed syncs and second processes do, a
\* record that reached the file stays there unchanged, and nothing joins a
\* command that has its result.  An append is answered only when its record is
\* durable for good; a call that repeats a record is answered only when the file
\* has it, and what it was told is lost only if the host loses power before the
\* next fsync (agent-journal/src/index.ts:287 and 298-303).
THEOREM JournalImplementsLedger == Spec => ImplementsLedger
<1>1. Init => Ledger!LedgerInit
  BY DEF Init, Ledger!LedgerInit, Prefix
<1> QED BY <1>1, InvHolds, StepOfLedger, PTL DEF Spec, ImplementsLedger, Ledger!LedgerSpec
=============================================================================
