---------------------------- MODULE AgentProofs ----------------------------
(***************************************************************************)
(* Proofs about the command loop of the agent and its control plane.       *)
(*                                                                         *)
(*   Basics    types and what the stages of the loop agree on with the     *)
(*             journal, the requests under way and the runtime's calls; it *)
(*             is inductive by itself.                                     *)
(*   Moves     what every step respects once Basics holds: rows, leases,   *)
(*             records and calls only move on.  StepMoves shows it of Next *)
(*             one action at a time; nothing later expands an action       *)
(*             without need.                                               *)
(*   LeasesOK  a command the process knows was out under its lease, and a  *)
(*             command that succeeded was done: SuccessWasDone.            *)
(*   IInv      adds the count of attempts.  A claim that is not carried on *)
(*             is owed to a fault, and a fault owes at most two, so that   *)
(*             fewer faults leave an attempt to report the recorded        *)
(*             success: RecordedSuccessStands; without a fault there is    *)
(*             one attempt and one counter: FencedOnlyWhenSuperseded.      *)
(***************************************************************************)
EXTENDS Agent, FiniteSetTheorems, SequenceTheorems, TLAPS

-----------------------------------------------------------------------------
(* The control plane *)

\* The epoch counts the sessions that held the node; a takeover gives a deletion
\* a new id, so that ids are bounded by them too.
NodeCounted ==
  /\ node.session = None =>
       node.epoch = 0 /\ node.retired = {} /\ \A o \in Ops: rows[o].status = "none"
  /\ node.session # None =>
       node.session \notin node.retired /\ node.epoch = Cardinality(node.retired) + 1

RowsCounted ==
  \A o \in Ops:
    /\ rows[o].epoch <= node.epoch
    /\ rows[o].id <= Cardinality(node.retired) + 1
    /\ rows[o].status = "leased" => rows[o].attempts # 0

\* A dispatch supersedes the command that is out.
OneLive == \A o, p \in Ops: rows[o].status \in Live /\ rows[p].status \in Live => o = p

ServerOK ==
  /\ node \in [session: Sessions \cup {None}, epoch: 0..MaxSessions,
               retired: SUBSET Sessions, fresh: BOOLEAN]
  /\ rows \in [Ops -> Row]
  /\ NodeCounted /\ RowsCounted /\ OneLive

\* A row only moves on: it is never undispatched, a higher id is a new command,
\* and a command that is out was out before, in its epoch, with as many attempts
\* or fewer.
MovesOn(r, s) ==
  r.status # "none" =>
    /\ s.status # "none"
    /\ r.id <= s.id
    /\ s.id = r.id /\ s.status \in Live =>
         r.status \in Live /\ r.attempts <= s.attempts /\ s.epoch = r.epoch
    /\ r.status \notin Live => s = r

RowsMoveOn == \A o \in Ops: MovesOn(rows[o], rows'[o])

LEMMA RetiredFinite ==
  ASSUME ServerOK
  PROVE  IsFiniteSet(node.retired) /\ Cardinality(node.retired) \in Nat
<1>1. IsFiniteSet(Sessions)
  BY AgentAssumption, FS_Interval DEF Sessions
<1>2. node.retired \in SUBSET Sessions
  BY DEF ServerOK
<1> QED BY <1>1, <1>2, FS_Subset, FS_CardinalityType

LEMMA RowFields ==
  ASSUME ServerOK, NEW o \in Ops
  PROVE  /\ rows[o] \in Row
         /\ rows[o].kind \in {"delete", "other"} /\ rows[o].id \in 1..MaxSessions
         /\ rows[o].epoch \in 0..MaxSessions
         /\ rows[o].status \in {"none", "queued", "leased", "succeeded", "failed", "stale"}
         /\ rows[o].attempts \in 0..MaxAttempts /\ rows[o].expired \in BOOLEAN
         /\ rows[o].sequence \in 0..MaxSequence
<1>1. rows[o] \in Row
  BY DEF ServerOK
<1> QED BY <1>1 DEF Row

LEMMA EndedRow ==
  ASSUME NEW r \in Row, NEW st \in {"succeeded", "failed", "stale"}
  PROVE  /\ Ended(r, st) \in Row
         /\ Ended(r, st).status = st /\ Ended(r, st).id = r.id /\ Ended(r, st).epoch = r.epoch
         /\ Ended(r, st).kind = r.kind
<1>1. Ended(r, st) = [r EXCEPT !.status = st, !.attempts = 0, !.expired = FALSE, !.sequence = 0]
  BY DEF Ended
<1>2. 0 \in 0..MaxAttempts /\ 0 \in 0..MaxSequence
  BY AgentAssumption
<1>3. [r EXCEPT !.status = st, !.attempts = 0, !.expired = FALSE, !.sequence = 0] \in Row
  BY <1>2 DEF Row
<1> QED BY <1>1, <1>3 DEF Row

\* The rows of one command change, as one of the primitives below does it.
LEMMA RowChanges ==
  ASSUME ServerOK, NEW o \in Ops, NEW r \in Row, rows' = [rows EXCEPT ![o] = r], MovesOn(rows[o], r),
         r.id = rows[o].id, r.epoch = rows[o].epoch, rows[o].status \in Live,
         r.status = "leased" => r.attempts # 0,
         node'.retired = node.retired, node'.epoch = node.epoch, node'.session = node.session,
         node' \in [session: Sessions \cup {None}, epoch: 0..MaxSessions,
                    retired: SUBSET Sessions, fresh: BOOLEAN]
  PROVE  ServerOK' /\ RowsMoveOn /\ rows'[o] = r /\ \A p \in Ops \ {o}: rows'[p] = rows[p]
<1>1. rows' \in [Ops -> Row] /\ rows'[o] = r /\ \A p \in Ops \ {o}: rows'[p] = rows[p]
  BY DEF ServerOK
<1>2. NodeCounted'
  BY <1>1 DEF ServerOK, NodeCounted, Live
<1>3. RowsCounted'
  BY <1>1 DEF ServerOK, RowsCounted
<1>4. OneLive'
  BY <1>1 DEF ServerOK, OneLive
<1>5. RowsMoveOn
  <2> SUFFICES ASSUME NEW p \in Ops PROVE MovesOn(rows[p], rows'[p])
    BY DEF RowsMoveOn
  <2>1. CASE p = o
    BY <2>1, <1>1
  <2>2. CASE p # o
    BY <2>2, <1>1, RowFields DEF MovesOn
  <2> QED BY <2>1, <2>2
<1> QED BY <1>1, <1>2, <1>3, <1>4, <1>5 DEF ServerOK

LEMMA ServerUnchanged ==
  ASSUME ServerOK, UNCHANGED server
  PROVE  ServerOK' /\ RowsMoveOn
<1>1. ServerOK'
  BY DEF ServerOK, NodeCounted, RowsCounted, OneLive, server
<1>2. ASSUME NEW o \in Ops PROVE MovesOn(rows[o], rows'[o])
  BY RowFields DEF MovesOn, server
<1> QED BY <1>1, <1>2 DEF RowsMoveOn

LEMMA TakenOverRow ==
  ASSUME ServerOK, NEW o \in Ops, Cardinality(node.retired) + 2 <= MaxSessions,
         node.epoch = Cardinality(node.retired) + 1
  PROVE  /\ TakenOver(rows[o]) \in Row
         /\ MovesOn(rows[o], TakenOver(rows[o]))
         /\ TakenOver(rows[o]).id <= Cardinality(node.retired) + 2
         /\ TakenOver(rows[o]).epoch <= Cardinality(node.retired) + 2
         /\ TakenOver(rows[o]).status = "leased" => TakenOver(rows[o]) = rows[o]
         /\ TakenOver(rows[o]).status \in Live => rows[o].status \in Live
         /\ TakenOver(rows[o]) # rows[o] => rows[o].status \in Live /\ TakenOver(rows[o]).status \in {"queued", "failed"}
<1> DEFINE r == rows[o]  c == Cardinality(node.retired)
<1>1. c \in Nat /\ node.epoch = c + 1
  BY RetiredFinite
<1>2. r \in Row /\ r.id \in 1..MaxSessions /\ r.epoch \in 0..MaxSessions /\ r.id <= c + 1 /\ r.epoch <= c + 1
      /\ r.attempts \in 0..MaxAttempts
  BY RowFields, <1>1 DEF ServerOK, RowsCounted
<1>3. CASE r.status \notin Live \/ r.epoch # node.epoch
  <2>1. TakenOver(r) = r
    BY <1>3 DEF TakenOver
  <2>2. r.id <= c + 2 /\ r.epoch <= c + 2
    BY <1>1, <1>2
  <2>3. r.id <= r.id /\ r.attempts <= r.attempts
    BY <1>2
  <2> QED BY <2>1, <2>2, <2>3, <1>2 DEF MovesOn
<1>4. CASE r.status \in Live /\ r.epoch = node.epoch /\ r.kind = "delete"
  <2> DEFINE t == [r EXCEPT !.id = @ + 1, !.epoch = node.epoch + 1, !.status = "queued",
                            !.attempts = 0, !.expired = FALSE, !.sequence = 0]
  <2>1. TakenOver(r) = t
    BY <1>4 DEF TakenOver
  <2>2. r.id + 1 \in 1..MaxSessions /\ node.epoch + 1 \in 0..MaxSessions /\ 0 \in 0..MaxAttempts /\ 0 \in 0..MaxSequence
    BY <1>1, <1>2, AgentAssumption
  <2>3. t \in Row
    BY <2>2, <1>2 DEF Row
  <2>4. t.id = r.id + 1 /\ t.epoch = c + 2 /\ t.status = "queued"
    BY <1>1, <1>2 DEF Row
  <2> HIDE DEF t
  <2>5. MovesOn(r, t)
    BY <2>4, <1>2, <1>4 DEF MovesOn
  <2>6. t.id <= c + 2 /\ t.epoch <= c + 2
    BY <2>4, <1>1, <1>2
  <2> QED BY <2>1, <2>3, <2>4, <2>5, <2>6, <1>4
<1>5. CASE r.status \in Live /\ r.epoch = node.epoch /\ r.kind # "delete"
  <2>1. TakenOver(r) = Ended(r, "failed")
    BY <1>5 DEF TakenOver
  <2>2. /\ Ended(r, "failed") \in Row /\ Ended(r, "failed").status = "failed"
        /\ Ended(r, "failed").id = r.id /\ Ended(r, "failed").epoch = r.epoch
    BY <1>2, EndedRow
  <2>3. MovesOn(r, TakenOver(r))
    BY <2>1, <2>2, <1>2, <1>5 DEF MovesOn, Live
  <2>4. r.id <= c + 2 /\ r.epoch <= c + 2
    BY <1>1, <1>2
  <2> QED BY <2>1, <2>2, <2>3, <2>4, <1>5 DEF Live
<1> QED BY <1>3, <1>4, <1>5

LEMMA HeartbeatServer ==
  ASSUME ServerOK, NEW s \in Sessions, HeartbeatTaken(s), Heartbeat(s)
  PROVE  /\ ServerOK' /\ RowsMoveOn
         /\ node'.session = s
         /\ node.session = s => node'.epoch = node.epoch /\ node'.retired = node.retired
         /\ node.session \in {s, None} => UNCHANGED rows
         /\ node'.retired = {} => node.session \in {s, None} /\ node.retired = {}
         /\ \A o \in Ops: rows'[o] # rows[o] => rows'[o].status \in {"queued", "failed"}
<1>1. s # None
  BY NoneAssumption
<1>2. node.retired \in SUBSET Sessions /\ node.session \in Sessions \cup {None} /\ node.epoch \in 0..MaxSessions
  BY DEF ServerOK
<1>3. CASE node.session \in {s, None}
  <2>1. UNCHANGED rows
    BY <1>3 DEF Heartbeat
  <2>2. node' = [session |-> s, fresh |-> TRUE,
                 epoch |-> IF node.session = s THEN node.epoch ELSE node.epoch + 1, retired |-> node.retired]
    BY <1>3 DEF Heartbeat
  <2>3. /\ node'.session = s /\ node'.retired = node.retired
        /\ node'.epoch = IF node.session = s THEN node.epoch ELSE node.epoch + 1
    BY <2>2
  <2>4. node.session = None => node.epoch = 0 /\ node.retired = {} /\ \A o \in Ops: rows[o].status = "none"
    BY DEF ServerOK, NodeCounted
  <2>5. node'.epoch \in 0..MaxSessions /\ node.epoch <= node'.epoch
    BY <2>3, <2>4, <1>2, <1>3, <1>1, AgentAssumption
  <2>6. node' \in [session: Sessions \cup {None}, epoch: 0..MaxSessions,
                   retired: SUBSET Sessions, fresh: BOOLEAN]
    BY <2>2, <2>3, <2>5, <1>2
  <2>7. NodeCounted'
    BY <2>1, <2>3, <2>4, <1>1, <1>3, FS_EmptySet DEF ServerOK, NodeCounted
  <2>8. RowsCounted'
    <3> SUFFICES ASSUME NEW o \in Ops PROVE rows[o].epoch <= node'.epoch
      BY <2>1, <2>3 DEF ServerOK, RowsCounted
    <3>1. rows[o].epoch <= node.epoch /\ rows[o].epoch \in 0..MaxSessions
      BY RowFields DEF ServerOK, RowsCounted
    <3> QED BY <3>1, <2>5, <1>2, AgentAssumption
  <2>9. RowsMoveOn
    BY <2>1, RowFields DEF RowsMoveOn, MovesOn
  <2>10. OneLive' /\ rows' \in [Ops -> Row]
    BY <2>1 DEF ServerOK, OneLive
  <2>11. ServerOK'
    BY <2>6, <2>7, <2>8, <2>10 DEF ServerOK
  <2> QED BY <2>1, <2>3, <2>9, <2>11, <1>3
<1>4. CASE node.session \notin {s, None}
  <2> DEFINE c == Cardinality(node.retired)
  <2>1. s \notin node.retired
    BY <1>4 DEF HeartbeatTaken
  <2>2. node' = [session |-> s, fresh |-> TRUE, epoch |-> node.epoch + 1,
                 retired |-> node.retired \cup {node.session}]
    BY <1>4 DEF Heartbeat
  <2>3. rows' = [o \in Ops |-> TakenOver(rows[o])]
    BY <1>4 DEF Heartbeat
  <2>4. /\ node'.session = s /\ node'.epoch = node.epoch + 1
        /\ node'.retired = node.retired \cup {node.session}
    BY <2>2
  <2>5. node.session \notin node.retired /\ node.epoch = c + 1
    BY <1>4 DEF ServerOK, NodeCounted
  <2>6. IsFiniteSet(node.retired) /\ c \in Nat
    BY RetiredFinite
  <2>7. Cardinality(node'.retired) = c + 1 /\ IsFiniteSet(node'.retired)
    BY <2>4, <2>5, <2>6, FS_AddElement
  <2>8. s \notin node'.retired
    BY <2>1, <2>4, <1>4
  <2>9. c + 2 <= MaxSessions
    <3>1. IsFiniteSet(Sessions) /\ Cardinality(Sessions) = MaxSessions
      BY AgentAssumption, FS_Interval DEF Sessions
    <3>2. node'.retired \cup {s} \in SUBSET Sessions
      BY <2>4, <1>2, <1>4
    <3>3. Cardinality(node'.retired \cup {s}) <= MaxSessions
      BY <3>1, <3>2, FS_Subset
    <3>4. Cardinality(node'.retired \cup {s}) = c + 2
      <4>1. Cardinality(node'.retired \cup {s}) = Cardinality(node'.retired) + 1
        BY <2>7, <2>8, FS_AddElement
      <4> QED BY <4>1, <2>7, <2>6
    <3> QED BY <3>3, <3>4
  <2>10. \A o \in Ops: rows'[o] = TakenOver(rows[o])
    BY <2>3
  <2>11. node'.epoch = c + 2
    BY <2>4, <2>5, <2>6
  <2> HIDE DEF c
  <2>12. node' \in [session: Sessions \cup {None}, epoch: 0..MaxSessions,
                    retired: SUBSET Sessions, fresh: BOOLEAN]
    <3>1. node.epoch + 1 \in 0..MaxSessions /\ node.retired \cup {node.session} \in SUBSET Sessions
      BY <2>4, <2>11, <2>9, <2>6, <1>2, <1>4, AgentAssumption
    <3> QED BY <3>1, <2>2
  <2>13. rows' \in [Ops -> Row]
    BY <2>3, <2>5, <2>9, TakenOverRow DEF c
  <2>14. NodeCounted'
    <3>1. node'.session # None
      BY <2>4, <1>1
    <3> QED BY <3>1, <2>4, <2>8, <2>7, <2>11, <2>6 DEF NodeCounted
  <2>15. RowsCounted'
    <3> SUFFICES ASSUME NEW o \in Ops
                 PROVE  /\ rows'[o].epoch <= node'.epoch
                        /\ rows'[o].id <= Cardinality(node'.retired) + 1
                        /\ rows'[o].status = "leased" => rows'[o].attempts # 0
      BY DEF RowsCounted
    <3>1. Cardinality(node'.retired) + 1 = c + 2
      BY <2>6, <2>7
    <3>2. rows'[o].epoch <= c + 2 /\ rows'[o].id <= c + 2
      BY <2>10, <2>5, <2>9, TakenOverRow DEF c
    <3>3. rows'[o].status = "leased" => rows'[o] = rows[o]
      BY <2>10, <2>5, <2>9, TakenOverRow DEF c
    <3>4. rows[o].status = "leased" => rows[o].attempts # 0
      BY DEF ServerOK, RowsCounted
    <3> QED BY <3>1, <3>2, <3>3, <3>4, <2>11
  <2>16. OneLive'
    <3>1. \A o \in Ops: rows'[o].status \in Live => rows[o].status \in Live
      BY <2>10, <2>5, <2>9, TakenOverRow DEF c
    <3> QED BY <3>1 DEF ServerOK, OneLive
  <2>17. RowsMoveOn
    BY <2>10, <2>5, <2>9, TakenOverRow DEF c, RowsMoveOn
  <2>18. \A o \in Ops: rows'[o] # rows[o] => rows'[o].status \in {"queued", "failed"}
    BY <2>10, <2>5, <2>9, TakenOverRow DEF c
  <2>19. node'.retired # {}
    BY <2>4
  <2>20. ServerOK'
    BY <2>12, <2>13, <2>14, <2>15, <2>16 DEF ServerOK
  <2> QED BY <2>4, <2>17, <2>18, <2>19, <2>20, <1>4
<1> QED BY <1>3, <1>4

\* At most one command is out, so the oldest one that may be claimed is that one.
LEMMA OldestIsClaimable ==
  ASSUME ServerOK, Claimable # {}
  PROVE  Oldest \in Claimable
<1>1. PICK o \in Claimable: TRUE
  OBVIOUS
<1>2. Claimable \subseteq Ops /\ \A p \in Claimable: rows[p].status \in Live
  BY DEF Claimable
<1>3. \A p \in Claimable: p = o
  BY <1>1, <1>2 DEF ServerOK, OneLive
<1>4. o \in Nat
  BY <1>1, <1>2, AgentAssumption DEF Ops
<1>5. \A p \in Claimable: o <= p
  BY <1>3, <1>4
<1> QED BY <1>1, <1>5 DEF Oldest

\* What a claim that is taken does: nothing, a last failure, or a new lease.
LEMMA ClaimServer ==
  ASSUME ServerOK, NEW s \in Sessions, Claim(s), ClaimTaken(s)
  PROVE  /\ ServerOK' /\ RowsMoveOn /\ UNCHANGED node
         /\ \/ Claimed = None /\ UNCHANGED rows
            \/ \E o \in Ops:
                 /\ rows[o].status \in Live /\ rows[o].epoch = node.epoch
                 /\ \A p \in Ops \ {o}: rows'[p] = rows[p]
                 /\ \/ /\ Claimed = None /\ rows[o].attempts >= MaxAttempts
                       /\ rows'[o] = Ended(rows[o], "failed")
                    \/ /\ Claimed \in Lease
                       /\ Claimed.op = o /\ Claimed.id = rows[o].id /\ Claimed.epoch = node.epoch
                       /\ Claimed.attempt = rows[o].attempts + 1
                       /\ rows'[o] \in Row
                       /\ rows'[o].status = "leased" /\ rows'[o].attempts = rows[o].attempts + 1
                       /\ rows'[o].sequence = 0 /\ rows'[o].id = rows[o].id
                       /\ rows'[o].epoch = rows[o].epoch
<1>1. UNCHANGED node
  BY DEF Claim
<1>2. node \in [session: Sessions \cup {None}, epoch: 0..MaxSessions,
                retired: SUBSET Sessions, fresh: BOOLEAN]
  BY DEF ServerOK
<1>3. CASE Claimable = {}
  <2>1. Claimed = None /\ UNCHANGED rows
    BY <1>3 DEF Claimed, Claim
  <2>2. UNCHANGED server
    BY <2>1, <1>1 DEF server
  <2> QED BY <2>1, <2>2, <1>1, ServerUnchanged
<1>4. CASE Claimable # {}
  <2> DEFINE o == Oldest
  <2>1. o \in Ops /\ rows[o].status \in Live /\ rows[o].epoch = node.epoch
    BY <1>4, OldestIsClaimable DEF Claimable
  <2>2. /\ rows[o] \in Row /\ rows[o].attempts \in 0..MaxAttempts /\ rows[o].id \in 1..MaxSessions
        /\ rows[o].epoch \in 0..MaxSessions
    BY <2>1, RowFields
  <2>3. CASE Exhausted
    <3>1. Claimed = None /\ rows[o].attempts >= MaxAttempts /\ rows' = [rows EXCEPT ![o] = Ended(rows[o], "failed")]
      BY <2>3, <1>4 DEF Claimed, Claim, Exhausted
    <3>2. /\ Ended(rows[o], "failed") \in Row /\ Ended(rows[o], "failed").status = "failed"
          /\ Ended(rows[o], "failed").id = rows[o].id /\ Ended(rows[o], "failed").epoch = rows[o].epoch
      BY <2>2, EndedRow
    <3>3. MovesOn(rows[o], Ended(rows[o], "failed"))
      BY <3>2, <2>1, <2>2 DEF MovesOn, Live
    <3> HIDE DEF o
    <3>4. /\ ServerOK' /\ RowsMoveOn /\ rows'[o] = Ended(rows[o], "failed")
          /\ \A p \in Ops \ {o}: rows'[p] = rows[p]
      BY <3>1, <3>2, <3>3, <2>1, <1>1, <1>2, RowChanges
    <3> QED BY <3>1, <3>4, <2>1, <1>1
  <2>4. CASE ~Exhausted
    <3> DEFINE r == Leased(rows[o])
    <3>1. rows[o].attempts + 1 \in 1..MaxAttempts
      BY <2>2, <2>4, <1>4, AgentAssumption DEF Exhausted
    <3>2. Claimed = [op |-> o, id |-> rows[o].id, epoch |-> rows[o].epoch, attempt |-> rows[o].attempts + 1]
      BY <2>4, <1>4 DEF Claimed
    <3>3. Claimed \in Lease
      BY <3>1, <3>2, <2>1, <2>2 DEF Lease
    <3>4. rows' = [rows EXCEPT ![o] = r]
      BY <2>4, <1>4 DEF Claim
    <3>5. 0 \in 0..MaxSequence /\ rows[o].attempts + 1 \in 0..MaxAttempts
      BY AgentAssumption, <3>1
    <3>6. r \in Row
      BY <3>5, <2>2 DEF Row, Leased
    <3>7. /\ r.status = "leased" /\ r.attempts = rows[o].attempts + 1 /\ r.sequence = 0
          /\ r.id = rows[o].id /\ r.epoch = rows[o].epoch
      BY <2>2 DEF Row, Leased
    <3> HIDE DEF r, o
    <3>8. MovesOn(rows[o], r)
      BY <3>7, <2>1, <2>2 DEF MovesOn
    <3>9. r.attempts # 0
      BY <3>7, <3>1, AgentAssumption
    <3>10. /\ ServerOK' /\ RowsMoveOn /\ rows'[o] = r /\ \A p \in Ops \ {o}: rows'[p] = rows[p]
      BY <3>4, <3>6, <3>7, <3>8, <3>9, <2>1, <1>1, <1>2, RowChanges
    <3>11. Claimed.op = o /\ Claimed.id = rows[o].id /\ Claimed.epoch = node.epoch
           /\ Claimed.attempt = rows[o].attempts + 1
      BY <3>2, <2>1
    <3> QED BY <3>3, <3>6, <3>7, <3>10, <3>11, <2>1, <1>1
  <2> QED BY <2>3, <2>4
<1> QED BY <1>3, <1>4

\* A report touches the sequence and the expiry of the row it names.
LEMMA ProgressServer ==
  ASSUME ServerOK, NEW s \in Sessions, NEW l \in Lease, NEW q \in 1..MaxSequence,
         ProgressTaken(s, l, q), Progress(l, q)
  PROVE  /\ ServerOK' /\ RowsMoveOn /\ l.op \in Ops
         /\ \A p \in Ops \ {l.op}: rows'[p] = rows[p]
         /\ rows'[l.op].sequence = q
         /\ rows'[l.op].id = rows[l.op].id /\ rows'[l.op].epoch = rows[l.op].epoch
         /\ rows'[l.op].status = rows[l.op].status /\ rows'[l.op].attempts = rows[l.op].attempts
         /\ node'.session = node.session /\ node'.epoch = node.epoch /\ node'.retired = node.retired
<1> DEFINE o == l.op  r == [rows[l.op] EXCEPT !.sequence = q, !.expired = FALSE]
<1>1. o \in Ops
  BY DEF Lease
<1>2. rows[o].status = "leased"
  BY DEF ProgressTaken, LeaseTaken
<1>3. rows[o] \in Row /\ rows[o].id \in 1..MaxSessions /\ rows[o].attempts \in 0..MaxAttempts
  BY <1>1, RowFields
<1>4. r \in Row
  <2>1. q \in 0..MaxSequence
    BY AgentAssumption
  <2> QED BY <2>1, <1>3 DEF Row
<1>5. /\ r.sequence = q /\ r.id = rows[o].id /\ r.epoch = rows[o].epoch /\ r.status = rows[o].status
      /\ r.attempts = rows[o].attempts
  BY <1>3 DEF Row
<1>6. rows \in [Ops -> Row] /\ node \in [session: Sessions \cup {None}, epoch: 0..MaxSessions,
                                         retired: SUBSET Sessions, fresh: BOOLEAN]
  BY DEF ServerOK
<1>7. rows' = [rows EXCEPT ![o] = r]
  BY <1>6 DEF Progress
<1>8. /\ node'.session = node.session /\ node'.epoch = node.epoch /\ node'.retired = node.retired
      /\ node' \in [session: Sessions \cup {None}, epoch: 0..MaxSessions,
                    retired: SUBSET Sessions, fresh: BOOLEAN]
  BY <1>6 DEF Progress
<1>9. rows[o].attempts # 0
  BY <1>1, <1>2 DEF ServerOK, RowsCounted
<1> HIDE DEF r
<1>10. MovesOn(rows[o], r)
  BY <1>5, <1>3, <1>2 DEF MovesOn, Live
<1>11. rows[o].status \in Live
  BY <1>2 DEF Live
<1>12. ServerOK' /\ RowsMoveOn /\ rows'[o] = r /\ \A p \in Ops \ {o}: rows'[p] = rows[p]
  BY <1>1, <1>4, <1>5, <1>7, <1>8, <1>9, <1>10, <1>11, RowChanges
<1> QED BY <1>1, <1>5, <1>8, <1>12

LEMMA ResultServer ==
  ASSUME ServerOK, NEW s \in Sessions, NEW l \in Lease, NEW outcome \in Outcomes,
         ResultTaken(s, l), Result(l, outcome)
  PROVE  /\ ServerOK' /\ RowsMoveOn /\ UNCHANGED node /\ l.op \in Ops
         /\ \A p \in Ops \ {l.op}: rows'[p] = rows[p]
         /\ rows'[l.op].status = outcome /\ rows'[l.op].id = rows[l.op].id /\ rows[l.op].id = l.id
<1>1. l.op \in Ops
  BY DEF Lease
<1>2. rows[l.op].status = "leased" /\ rows[l.op].id = l.id
  BY DEF ResultTaken, LeaseTaken
<1>3. rows[l.op] \in Row /\ rows[l.op].id \in 1..MaxSessions
  BY <1>1, RowFields
<1>4. outcome \in {"succeeded", "failed", "stale"} /\ outcome \notin Live /\ outcome # "none" /\ outcome # "leased"
  BY DEF Outcomes, Live
<1> DEFINE r == Ended(rows[l.op], outcome)
<1>5. r \in Row /\ r.status = outcome /\ r.id = rows[l.op].id /\ r.epoch = rows[l.op].epoch
  BY <1>3, <1>4, EndedRow
<1>6. rows' = [rows EXCEPT ![l.op] = r] /\ UNCHANGED node
  BY DEF Result
<1> HIDE DEF r
<1>7. MovesOn(rows[l.op], r) /\ rows[l.op].status \in Live
  BY <1>5, <1>4, <1>3, <1>2 DEF MovesOn, Live
<1>8. node \in [session: Sessions \cup {None}, epoch: 0..MaxSessions,
                retired: SUBSET Sessions, fresh: BOOLEAN]
  BY DEF ServerOK
<1>9. ServerOK' /\ RowsMoveOn /\ rows'[l.op] = r /\ \A p \in Ops \ {l.op}: rows'[p] = rows[p]
  BY <1>1, <1>4, <1>5, <1>6, <1>7, <1>8, RowChanges
<1> QED BY <1>1, <1>2, <1>5, <1>6, <1>9

LEMMA DispatchServer ==
  ASSUME ServerOK, NEW kind \in {"delete", "other"}, Dispatch(kind)
  PROVE  /\ ServerOK' /\ RowsMoveOn /\ UNCHANGED node
         /\ \A p \in Ops:
              \/ rows[p].status = "none" /\ rows'[p].status = "queued" /\ rows'[p].attempts = 0
              \/ rows'[p] = rows[p] /\ rows[p].status \notin Live
              \/ rows'[p].status = "stale"
<1>1. UNCHANGED node /\ node.session # None
  BY DEF Dispatch
<1>2. PICK o \in Ops: /\ rows[o].status = "none"
                      /\ rows' = [p \in Ops |->
                           IF p = o THEN [NoRow EXCEPT !.kind = kind, !.epoch = node.epoch, !.status = "queued"]
                           ELSE IF rows[p].status \in Live THEN Ended(rows[p], "stale")
                           ELSE rows[p]]
  BY DEF Dispatch
<1> DEFINE new == [NoRow EXCEPT !.kind = kind, !.epoch = node.epoch, !.status = "queued"]
<1>3. /\ node.epoch \in 0..MaxSessions /\ rows \in [Ops -> Row]
      /\ node \in [session: Sessions \cup {None}, epoch: 0..MaxSessions,
                   retired: SUBSET Sessions, fresh: BOOLEAN]
  BY DEF ServerOK
<1>4. 1 \in 1..MaxSessions /\ 0 \in 0..MaxSessions /\ 0 \in 0..MaxAttempts /\ 0 \in 0..MaxSequence
  BY AgentAssumption
<1>5. NoRow \in Row /\ NoRow.attempts = 0 /\ NoRow.id = 1
  BY <1>4 DEF NoRow, Row
<1>6. new \in Row
  BY <1>3, <1>5 DEF Row
<1>7. new.status = "queued" /\ new.attempts = 0 /\ new.id = 1 /\ new.epoch = node.epoch
  BY <1>5 DEF Row
<1> HIDE DEF new
<1>8. rows'[o] = new
  BY <1>2 DEF new
<1>9. ASSUME NEW p \in Ops, p # o, rows[p].status \in Live
      PROVE  /\ rows'[p] \in Row /\ rows'[p].status = "stale" /\ rows'[p].id = rows[p].id
             /\ rows'[p].epoch = rows[p].epoch
  <2>1. rows'[p] = Ended(rows[p], "stale")
    BY <1>2, <1>9
  <2> QED BY <2>1, RowFields, EndedRow
<1>10. ASSUME NEW p \in Ops, p # o, rows[p].status \notin Live
       PROVE  rows'[p] = rows[p]
  BY <1>2, <1>10
<1>11. rows' \in [Ops -> Row]
  <2>1. \A p \in Ops: rows'[p] \in Row
    BY <1>6, <1>8, <1>9, <1>10, RowFields
  <2>2. rows' = [p \in Ops |-> rows'[p]]
    BY <1>2
  <2> QED BY <2>1, <2>2
<1>12. NodeCounted'
  BY <1>1 DEF ServerOK, NodeCounted
<1>13. RowsCounted'
  <2> SUFFICES ASSUME NEW p \in Ops
               PROVE  /\ rows'[p].epoch <= node.epoch
                      /\ rows'[p].id <= Cardinality(node.retired) + 1
                      /\ rows'[p].status = "leased" => rows'[p].attempts # 0
    BY <1>1 DEF RowsCounted
  <2>1. /\ rows[p].epoch <= node.epoch /\ rows[p].id <= Cardinality(node.retired) + 1
        /\ rows[p].status = "leased" => rows[p].attempts # 0
    BY DEF ServerOK, RowsCounted
  <2>2. Cardinality(node.retired) \in Nat
    BY RetiredFinite
  <2>3. CASE p = o
    BY <2>3, <1>3, <1>7, <1>8, <2>2
  <2>4. CASE p # o /\ rows[p].status \in Live
    BY <2>4, <2>1, <1>9
  <2>5. CASE p # o /\ rows[p].status \notin Live
    BY <2>5, <2>1, <1>10
  <2> QED BY <2>3, <2>4, <2>5
<1>14. \A p \in Ops: rows'[p].status \in Live => p = o
  BY <1>9, <1>10 DEF Live
<1>15. OneLive'
  BY <1>14 DEF OneLive
<1>16. RowsMoveOn
  <2> SUFFICES ASSUME NEW p \in Ops, rows[p].status # "none" PROVE MovesOn(rows[p], rows'[p])
    BY DEF RowsMoveOn, MovesOn
  <2>1. p # o
    BY <1>2
  <2>2. rows[p].id \in 1..MaxSessions /\ rows[p].attempts \in 0..MaxAttempts
    BY RowFields
  <2>3. CASE rows[p].status \in Live
    BY <2>1, <2>2, <2>3, <1>9 DEF MovesOn, Live
  <2>4. CASE rows[p].status \notin Live
    BY <2>1, <2>2, <2>4, <1>10 DEF MovesOn
  <2> QED BY <2>3, <2>4
<1>17. ServerOK'
  BY <1>1, <1>3, <1>11, <1>12, <1>13, <1>15 DEF ServerOK
<1>18. ASSUME NEW p \in Ops
       PROVE  \/ rows[p].status = "none" /\ rows'[p].status = "queued" /\ rows'[p].attempts = 0
              \/ rows'[p] = rows[p] /\ rows[p].status \notin Live
              \/ rows'[p].status = "stale"
  BY <1>2, <1>7, <1>8, <1>9, <1>10
<1> QED BY <1>1, <1>16, <1>17, <1>18

LEMMA ExpiresServer ==
  ASSUME ServerOK, LeaseExpires
  PROVE  /\ ServerOK' /\ RowsMoveOn /\ UNCHANGED node
         /\ \A p \in Ops: /\ rows'[p].status = rows[p].status /\ rows'[p].id = rows[p].id
                          /\ rows'[p].epoch = rows[p].epoch /\ rows'[p].attempts = rows[p].attempts
                          /\ rows'[p].sequence = rows[p].sequence
<1>1. PICK o \in Ops: rows[o].status = "leased" /\ rows' = [rows EXCEPT ![o].expired = TRUE]
  BY DEF LeaseExpires
<1> DEFINE r == [rows[o] EXCEPT !.expired = TRUE]
<1>2. UNCHANGED node
  BY DEF LeaseExpires
<1>3. rows \in [Ops -> Row] /\ node \in [session: Sessions \cup {None}, epoch: 0..MaxSessions,
                                         retired: SUBSET Sessions, fresh: BOOLEAN]
  BY DEF ServerOK
<1>4. rows[o] \in Row /\ rows[o].id \in 1..MaxSessions /\ rows[o].attempts \in 0..MaxAttempts
  BY RowFields
<1>5. /\ r \in Row
      /\ r.id = rows[o].id /\ r.epoch = rows[o].epoch /\ r.status = rows[o].status
      /\ r.attempts = rows[o].attempts /\ r.sequence = rows[o].sequence
  BY <1>4 DEF Row
<1>6. rows' = [rows EXCEPT ![o] = r]
  BY <1>1, <1>3
<1> HIDE DEF r
<1>7. rows[o].attempts # 0
  BY <1>1 DEF ServerOK, RowsCounted
<1>8. MovesOn(rows[o], r) /\ rows[o].status \in Live
  BY <1>5, <1>4, <1>1 DEF MovesOn, Live
<1>9. ServerOK' /\ RowsMoveOn /\ rows'[o] = r /\ \A p \in Ops \ {o}: rows'[p] = rows[p]
  BY <1>2, <1>3, <1>5, <1>6, <1>7, <1>8, RowChanges
<1> QED BY <1>2, <1>5, <1>9

LEMMA StaleServer ==
  ASSUME ServerOK, NodeGoesStale
  PROVE  /\ ServerOK' /\ RowsMoveOn /\ UNCHANGED rows
         /\ node'.session = node.session /\ node'.epoch = node.epoch /\ node'.retired = node.retired
<1>1. node \in [session: Sessions \cup {None}, epoch: 0..MaxSessions,
                retired: SUBSET Sessions, fresh: BOOLEAN] /\ rows \in [Ops -> Row]
  BY DEF ServerOK
<1>2. UNCHANGED rows /\ node' = [node EXCEPT !.fresh = FALSE]
  BY DEF NodeGoesStale
<1>3. /\ node'.session = node.session /\ node'.epoch = node.epoch /\ node'.retired = node.retired
      /\ node' \in [session: Sessions \cup {None}, epoch: 0..MaxSessions,
                    retired: SUBSET Sessions, fresh: BOOLEAN]
  BY <1>1, <1>2
<1>4. NodeCounted' /\ RowsCounted' /\ OneLive'
  BY <1>2, <1>3 DEF ServerOK, NodeCounted, RowsCounted, OneLive
<1>5. RowsMoveOn
  BY <1>2, RowFields DEF RowsMoveOn, MovesOn
<1> QED BY <1>1, <1>2, <1>3, <1>4, <1>5 DEF ServerOK

-----------------------------------------------------------------------------
(* The process *)

Report == [sequence: 1..MaxSequence, for: {"command", "keepalive"}]

Reporting == {"work", "applying", "recordEffect", "recordResult", "recordFailed", "finally"}

\* What is set where pollOnce is: the timer runs, and reports are under way, in
\* its try block only.
StagesOK ==
  /\ (agent.lease = None) = (agent.stage \in {"down", "poll", "claim", "observe"})
  /\ agent.lease = None => ~agent.fence /\ agent.sequence = 0 /\ ~agent.done
  /\ agent.stage \in {"receipt", "sendReceipt"} => agent.sequence = 0 /\ ~agent.fence
  /\ agent.stage \in {"receipt", "sendReceipt", "firstReport", "work"} => ~agent.done
  /\ agent.stage \notin Reporting => keep = "off"
  /\ agent.stage \notin Reporting \cup {"firstReport"} => chain = <<>>

\* The reports are sent in the order of their numbers, one of the keepalive among them.
ChainOK ==
  /\ \A i \in DOMAIN chain: chain[i].sequence <= agent.sequence
  /\ \A i, j \in DOMAIN chain: i < j => chain[i].sequence < chain[j].sequence
  /\ \A i \in DOMAIN chain: chain[i].for = "keepalive" => keep = "report"
  /\ \A i, j \in DOMAIN chain: chain[i].for = "keepalive" /\ chain[j].for = "keepalive" => i = j

ProcessOK ==
  /\ agent \in Process
  /\ keep \in {"off", "idle", "heartbeat", "report"}
  /\ chain \in Seq(Report)
  /\ StagesOK /\ ChainOK

LEMMA AgentFields ==
  ASSUME NEW a \in Process
  PROVE  /\ a.stage \in Stages /\ a.session \in 0..MaxSessions /\ a.due \in BOOLEAN /\ a.broken \in BOOLEAN
         /\ a.lease \in Lease \cup {None} /\ a.fence \in BOOLEAN /\ a.sequence \in 0..MaxSequence
         /\ a.done \in BOOLEAN /\ a.ends \in {"send", "throw"}
BY DEF Process

LEMMA PollFields ==
  ASSUME NEW a \in Process
  PROVE  /\ Poll(a) \in Process
         /\ Poll(a).stage = "poll" /\ Poll(a).lease = None /\ Poll(a).fence = FALSE
         /\ Poll(a).sequence = 0 /\ Poll(a).done = FALSE /\ Poll(a).ends = "throw"
         /\ Poll(a).session = a.session /\ Poll(a).broken = a.broken /\ Poll(a).due = a.due
<1>1. 0 \in 0..MaxSequence /\ "poll" \in Stages
  BY AgentAssumption DEF Stages
<1>2. Poll(a) \in Process
  BY <1>1 DEF Poll, Process
<1> QED BY <1>2 DEF Poll, Process

\* A poll that ends, with nothing under way, leaves the process in order.
LEMMA PollsAgain ==
  ASSUME ProcessOK, NEW a \in Process, agent' = Poll(a), chain' = <<>>, keep' = "off"
  PROVE  ProcessOK'
<1>1. /\ agent' \in Process
      /\ agent'.stage = "poll" /\ agent'.lease = None /\ agent'.fence = FALSE
      /\ agent'.sequence = 0 /\ agent'.done = FALSE
  BY PollFields
<1>2. chain' \in Seq(Report) /\ DOMAIN chain' = {}
  BY EmptySeq, LenProperties
<1>3. StagesOK'
  BY <1>1 DEF StagesOK, Reporting
<1>4. ChainOK'
  BY <1>2 DEF ChainOK
<1> QED BY <1>1, <1>2, <1>3, <1>4 DEF ProcessOK

LEMMA ChainDomain ==
  ASSUME ProcessOK
  PROVE  /\ Len(chain) \in Nat /\ DOMAIN chain = 1..Len(chain)
         /\ \A i \in DOMAIN chain: chain[i] \in Report /\ chain[i].sequence \in 1..MaxSequence
                                   /\ chain[i].for \in {"command", "keepalive"}
<1>1. chain \in Seq(Report)
  BY DEF ProcessOK
<1>2. Len(chain) \in Nat /\ DOMAIN chain = 1..Len(chain) /\ \A i \in DOMAIN chain: chain[i] \in Report
  BY <1>1, LenProperties, ElementOfSeq
<1> QED BY <1>2 DEF Report

LEMMA QueuedChain ==
  ASSUME ProcessOK, agent.sequence < MaxSequence, NEW who \in {"command", "keepalive"},
         chain' = Queued(who), agent'.sequence = agent.sequence + 1,
         IF who = "keepalive" THEN keep = "heartbeat" /\ keep' = "report" ELSE keep' = keep
  PROVE  /\ chain' \in Seq(Report) /\ ChainOK'
         /\ \A i \in DOMAIN chain': \/ i \in DOMAIN chain /\ chain'[i] = chain[i]
                                    \/ chain'[i].sequence = agent.sequence + 1
<1> DEFINE new == [sequence |-> agent.sequence + 1, for |-> who]
<1>1. agent.sequence \in 0..MaxSequence /\ chain \in Seq(Report)
  BY AgentFields DEF ProcessOK
<1>2. new \in Report /\ new.sequence = agent.sequence + 1 /\ new.for = who
  BY <1>1, AgentAssumption DEF Report
<1>3. chain' = Append(chain, new)
  BY DEF Queued
<1> HIDE DEF new
<1>4. /\ chain' \in Seq(Report) /\ Len(chain') = Len(chain) + 1
      /\ \A i \in 1..Len(chain): chain'[i] = chain[i]
      /\ chain'[Len(chain) + 1] = new
  BY <1>1, <1>2, <1>3, AppendProperties
<1>5. Len(chain) \in Nat /\ DOMAIN chain = 1..Len(chain)
  BY ChainDomain
<1>6. DOMAIN chain' = 1..(Len(chain) + 1)
  BY <1>4, LenProperties
<1>7. \A i \in DOMAIN chain': (i \in DOMAIN chain /\ chain'[i] = chain[i]) \/ (i = Len(chain) + 1 /\ chain'[i] = new)
  BY <1>4, <1>5
<1>8. \A i \in DOMAIN chain: chain[i].sequence <= agent.sequence /\ chain[i].sequence \in 1..MaxSequence
  BY ChainDomain DEF ProcessOK, ChainOK
<1>9. ChainOK'
  <2>1. \A i \in DOMAIN chain': chain'[i].sequence <= agent'.sequence
    BY <1>1, <1>2, <1>7, <1>8
  <2>2. ASSUME NEW i \in DOMAIN chain', NEW j \in DOMAIN chain', i < j
        PROVE  chain'[i].sequence < chain'[j].sequence
    <3>1. CASE j \in DOMAIN chain /\ chain'[j] = chain[j]
      <4>1. i \in DOMAIN chain /\ chain'[i] = chain[i]
        BY <3>1, <2>2, <1>4, <1>5, <1>6
      <4> QED BY <4>1, <3>1, <2>2 DEF ProcessOK, ChainOK
    <3>2. CASE j = Len(chain) + 1 /\ chain'[j] = new
      <4>1. i \in DOMAIN chain /\ chain'[i] = chain[i]
        BY <3>2, <2>2, <1>4, <1>5, <1>6
      <4> QED BY <4>1, <3>2, <1>1, <1>2, <1>8
    <3> QED BY <3>1, <3>2, <1>7
  <2>3. \A i \in DOMAIN chain': chain'[i].for = "keepalive" => keep' = "report"
    BY <1>2, <1>7 DEF ProcessOK, ChainOK
  <2>4. \A i \in DOMAIN chain: who = "keepalive" => chain[i].for # "keepalive"
    BY DEF ProcessOK, ChainOK
  <2>5. ASSUME NEW i \in DOMAIN chain', NEW j \in DOMAIN chain', chain'[i].for = "keepalive", chain'[j].for = "keepalive"
        PROVE  i = j
    BY <2>4, <2>5, <1>2, <1>7 DEF ProcessOK, ChainOK
  <2> QED BY <2>1, <2>2, <2>3, <2>5 DEF ChainOK
<1> QED BY <1>2, <1>4, <1>7, <1>9

LEMMA SubmittedChain ==
  ASSUME ProcessOK, chain # <<>>,
         chain' = SubSeq(chain, 1, 1 - 1) \o SubSeq(chain, 1 + 1, Len(chain)),
         agent'.sequence = agent.sequence,
         keep' = IF chain[1].for = "keepalive" THEN "idle" ELSE keep
  PROVE  /\ chain' \in Seq(Report) /\ ChainOK' /\ 1 \in DOMAIN chain
         /\ \A i \in DOMAIN chain': /\ i + 1 \in DOMAIN chain /\ chain'[i] = chain[i + 1]
                                    /\ chain[1].sequence < chain'[i].sequence
<1>1. chain \in Seq(Report) /\ Len(chain) \in Nat /\ DOMAIN chain = 1..Len(chain)
  BY ChainDomain DEF ProcessOK
<1>2. Len(chain) # 0
  BY <1>1, EmptySeq
<1>3. SubSeq(chain, 1, 1 - 1) = <<>>
  BY SubSeqEmpty
<1>4. \A i \in 2..Len(chain): chain[i] \in Report
  BY <1>1, ElementOfSeq
<1>5. /\ SubSeq(chain, 2, Len(chain)) \in Seq(Report)
      /\ Len(SubSeq(chain, 2, Len(chain))) = IF 2 <= Len(chain) THEN Len(chain) - 2 + 1 ELSE 0
      /\ \A i \in 1..(Len(chain) - 2 + 1): SubSeq(chain, 2, Len(chain))[i] = chain[2 + i - 1]
  BY <1>1, <1>4, SubSeqProperties
<1>6. chain' = SubSeq(chain, 2, Len(chain))
  BY <1>3, <1>5, ConcatEmptySeq
<1>7. chain' \in Seq(Report) /\ Len(chain') = Len(chain) - 1 /\ DOMAIN chain' = 1..Len(chain')
  BY <1>1, <1>2, <1>5, <1>6, LenProperties
<1>8. \A i \in DOMAIN chain': i \in Nat /\ i + 1 \in DOMAIN chain /\ chain'[i] = chain[i + 1] /\ 1 < i + 1
  BY <1>1, <1>5, <1>6, <1>7
<1>9. 1 \in DOMAIN chain
  BY <1>1, <1>2
<1>10. \A i \in DOMAIN chain': chain[1].sequence < chain'[i].sequence
  BY <1>8, <1>9 DEF ProcessOK, ChainOK
<1>11. ChainOK'
  <2>1. \A i \in DOMAIN chain': chain'[i].sequence <= agent'.sequence
    BY <1>8 DEF ProcessOK, ChainOK
  <2>2. ASSUME NEW i \in DOMAIN chain', NEW j \in DOMAIN chain', i < j
        PROVE  chain'[i].sequence < chain'[j].sequence
    <3>1. i + 1 < j + 1
      BY <1>8, <2>2
    <3> QED BY <3>1, <1>8 DEF ProcessOK, ChainOK
  <2>3. \A i \in DOMAIN chain': chain'[i].for = "keepalive" => keep' = "report"
    <3>1. ASSUME NEW i \in DOMAIN chain', chain'[i].for = "keepalive" PROVE chain[1].for # "keepalive"
      <4>1. i + 1 # 1
        BY <1>8
      <4> QED BY <4>1, <3>1, <1>8, <1>9 DEF ProcessOK, ChainOK
    <3> QED BY <3>1, <1>8 DEF ProcessOK, ChainOK
  <2>4. ASSUME NEW i \in DOMAIN chain', NEW j \in DOMAIN chain', chain'[i].for = "keepalive", chain'[j].for = "keepalive"
        PROVE  i = j
    <3>1. i + 1 = j + 1
      BY <2>4, <1>8 DEF ProcessOK, ChainOK
    <3> QED BY <3>1, <1>8
  <2> QED BY <2>1, <2>2, <2>3, <2>4 DEF ChainOK
<1> QED BY <1>7, <1>8, <1>9, <1>10, <1>11

\* The step of a process inside the try block: what it reported stays as it is, and
\* it leaves without a result only under the fence, with a fault, or because its
\* broken journal takes no failure.
WorkMoves ==
  /\ agent.stage \in Reporting \ {"finally"} /\ agent'.stage \in Reporting \ {"work"}
  /\ agent' \in Process
  /\ agent'.session = agent.session /\ agent'.lease = agent.lease /\ agent'.fence = agent.fence
  /\ agent'.sequence = agent.sequence
  /\ UNCHANGED <<node, rows, late, keep, chain>>
  /\ agent.broken => agent'.broken
  /\ agent'.broken => agent.broken \/ faults' = faults + 1
  /\ faults' \in {faults, faults + 1} /\ faults' <= MaxFaults
  /\ agent'.stage = "finally" /\ agent'.ends = "throw" =>
       agent.fence \/ faults' = faults + 1 \/ (agent.broken /\ agent.stage = "recordFailed")

LEMMA StageFields ==
  ASSUME NEW a \in Process, NEW st \in Stages
  PROVE  LET b == [a EXCEPT !.stage = st] IN
         /\ b \in Process /\ b.stage = st
         /\ b.session = a.session /\ b.lease = a.lease /\ b.fence = a.fence /\ b.sequence = a.sequence
         /\ b.broken = a.broken /\ b.done = a.done /\ b.ends = a.ends
BY DEF Process

LEMMA LeaveFields ==
  ASSUME agent \in Process, NEW e \in {"send", "throw"}
  PROVE  LET b == Leave(e) IN
         /\ b \in Process /\ b.stage = "finally" /\ b.ends = e
         /\ b.session = agent.session /\ b.lease = agent.lease /\ b.fence = agent.fence
         /\ b.sequence = agent.sequence /\ b.broken = agent.broken /\ b.done = agent.done
BY DEF Process, Leave, Stages

LEMMA BrokenFields ==
  ASSUME NEW a \in Process
  PROVE  LET b == [a EXCEPT !.broken = TRUE] IN
         /\ b \in Process /\ b.stage = a.stage /\ b.broken = TRUE
         /\ b.session = a.session /\ b.lease = a.lease /\ b.fence = a.fence /\ b.sequence = a.sequence
         /\ b.done = a.done /\ b.ends = a.ends
BY DEF Process

LEMMA WorkProcess ==
  ASSUME ProcessOK, WorkMoves
  PROVE  ProcessOK'
<1>1. StagesOK'
  BY DEF ProcessOK, StagesOK, WorkMoves, Reporting
<1>2. ChainOK'
  BY DEF ProcessOK, ChainOK, WorkMoves
<1> QED BY <1>1, <1>2 DEF ProcessOK, WorkMoves

LEMMA StartWorkMoves ==
  ASSUME ProcessOK, faults \in 0..MaxFaults, StartWork
  PROVE  /\ WorkMoves /\ At("work") /\ UNCHANGED <<journal, effects, faults>> /\ agent'.done = agent.done
         /\ agent'.broken = agent.broken
         /\ \/ Logged.result # None /\ agent'.stage = "finally" /\ agent'.ends = "send"
            \/ Logged.result = None /\ Logged.effect /\ agent'.stage = "recordEffect"
            \/ Logged.result = None /\ ~Logged.effect /\ agent'.stage = "applying"
<1>1. agent \in Process /\ agent.stage = "work" /\ UNCHANGED <<node, rows, late, keep, chain, journal, effects, faults>>
  BY DEF ProcessOK, StartWork, At, Local, server
<1>2. "recordEffect" \in Stages /\ "applying" \in Stages /\ "work" \in Reporting \ {"finally"}
      /\ "recordEffect" \in Reporting \ {"work"} /\ "applying" \in Reporting \ {"work"}
      /\ "finally" \in Reporting \ {"work"}
  BY DEF Stages, Reporting
<1>3. CASE Logged.result # None
  <2>1. agent' = Leave("send")
    BY <1>3 DEF StartWork
  <2> QED BY <2>1, <1>1, <1>2, <1>3, LeaveFields DEF WorkMoves, At
<1>4. CASE Logged.result = None /\ Logged.effect
  <2>1. agent' = [agent EXCEPT !.stage = "recordEffect"]
    BY <1>4 DEF StartWork
  <2> QED BY <2>1, <1>1, <1>2, <1>4, StageFields DEF WorkMoves, At
<1>5. CASE Logged.result = None /\ ~Logged.effect
  <2>1. agent' = [agent EXCEPT !.stage = "applying"]
    BY <1>5 DEF StartWork
  <2> QED BY <2>1, <1>1, <1>2, <1>5, StageFields DEF WorkMoves, At
<1> QED BY <1>3, <1>4, <1>5

LEMMA RuntimeWorksMoves ==
  ASSUME ProcessOK, faults \in 0..MaxFaults, RuntimeWorks
  PROVE  /\ WorkMoves /\ At("applying") /\ UNCHANGED <<journal, faults>>
         /\ agent'.stage = "applying" /\ effects' = effects \cup {Id}
         /\ agent'.broken = agent.broken
<1>1. /\ agent \in Process /\ agent.stage = "applying" /\ UNCHANGED <<node, rows, late, keep, chain, journal, faults>>
      /\ agent' = [agent EXCEPT !.done = TRUE]
  BY DEF ProcessOK, RuntimeWorks, At, Local, server
<1>2. /\ agent' \in Process /\ agent'.stage = agent.stage
      /\ agent'.session = agent.session /\ agent'.lease = agent.lease /\ agent'.fence = agent.fence
      /\ agent'.sequence = agent.sequence /\ agent'.broken = agent.broken
  BY <1>1 DEF Process
<1> QED BY <1>1, <1>2 DEF WorkMoves, Reporting, RuntimeWorks, At

LEMMA ApplyReturnsMoves ==
  ASSUME ProcessOK, faults \in 0..MaxFaults, ApplyReturns
  PROVE  /\ WorkMoves /\ At("applying") /\ agent.done /\ UNCHANGED <<journal, effects, faults>>
         /\ agent'.done = agent.done /\ agent'.broken = agent.broken
         /\ \/ agent'.stage = "finally" /\ agent'.ends = "throw"
            \/ agent'.stage = "recordEffect"
<1>1. /\ agent \in Process /\ agent.stage = "applying" /\ agent.done
      /\ UNCHANGED <<node, rows, late, keep, chain, journal, effects, faults>>
  BY DEF ProcessOK, ApplyReturns, At, Local, server
<1>2. "recordEffect" \in Stages /\ "applying" \in Reporting \ {"finally"}
      /\ "recordEffect" \in Reporting \ {"work"} /\ "finally" \in Reporting \ {"work"}
  BY DEF Stages, Reporting
<1>3. CASE agent.fence
  <2>1. agent' = Leave("throw")
    BY <1>3 DEF ApplyReturns, Catch
  <2>2. /\ agent' \in Process /\ agent'.stage = "finally" /\ agent'.ends = "throw"
        /\ agent'.session = agent.session /\ agent'.lease = agent.lease /\ agent'.fence = agent.fence
        /\ agent'.sequence = agent.sequence /\ agent'.broken = agent.broken /\ agent'.done = agent.done
    BY <2>1, <1>1, LeaveFields
  <2>3. WorkMoves
    BY <2>2, <1>1, <1>2, <1>3 DEF WorkMoves
  <2> QED BY <2>2, <2>3, <1>1 DEF At
<1>4. CASE ~agent.fence
  <2>1. agent' = [agent EXCEPT !.stage = "recordEffect"]
    BY <1>4 DEF ApplyReturns, Catch
  <2>2. /\ agent' \in Process /\ agent'.stage = "recordEffect"
        /\ agent'.session = agent.session /\ agent'.lease = agent.lease /\ agent'.fence = agent.fence
        /\ agent'.sequence = agent.sequence /\ agent'.broken = agent.broken /\ agent'.done = agent.done
    BY <2>1, <1>1, <1>2, StageFields
  <2>3. WorkMoves
    BY <2>2, <1>1, <1>2 DEF WorkMoves
  <2> QED BY <2>2, <2>3, <1>1 DEF At
<1> QED BY <1>3, <1>4

LEMMA ApplyThrowsMoves ==
  ASSUME ProcessOK, faults \in 0..MaxFaults, ApplyThrows
  PROVE  /\ WorkMoves /\ At("applying") /\ UNCHANGED <<journal, effects>>
         /\ agent'.done = agent.done /\ agent'.broken = agent.broken
         /\ \/ agent'.stage = "finally" /\ agent'.ends = "throw"
            \/ agent'.stage = "recordFailed"
<1>1. /\ agent \in Process /\ agent.stage = "applying"
      /\ UNCHANGED <<node, rows, late, keep, chain, journal, effects>>
  BY DEF ProcessOK, ApplyThrows, At, Local, server
<1>2. "recordFailed" \in Stages /\ "applying" \in Reporting \ {"finally"}
      /\ "recordFailed" \in Reporting \ {"work"} /\ "finally" \in Reporting \ {"work"}
  BY DEF Stages, Reporting
<1>3. CASE faults < MaxFaults /\ faults' = faults + 1 /\ agent' = Leave("throw")
  <2>1. faults + 1 <= MaxFaults
    BY <1>3, AgentAssumption
  <2> QED BY <2>1, <1>1, <1>2, <1>3, LeaveFields DEF WorkMoves, At
<1>4. CASE agent' = Catch([agent EXCEPT !.stage = "recordFailed"]) /\ UNCHANGED faults
  <2>1. CASE agent.fence
    <3>1. agent' = Leave("throw")
      BY <1>4, <2>1 DEF Catch
    <3>2. /\ agent' \in Process /\ agent'.stage = "finally" /\ agent'.ends = "throw"
          /\ agent'.session = agent.session /\ agent'.lease = agent.lease /\ agent'.fence = agent.fence
          /\ agent'.sequence = agent.sequence /\ agent'.broken = agent.broken /\ agent'.done = agent.done
      BY <3>1, <1>1, LeaveFields
    <3>3. WorkMoves
      BY <3>2, <1>1, <1>2, <1>4, <2>1 DEF WorkMoves
    <3> QED BY <3>2, <3>3, <1>1 DEF At
  <2>2. CASE ~agent.fence
    <3>1. agent' = [agent EXCEPT !.stage = "recordFailed"]
      BY <1>4, <2>2 DEF Catch
    <3> QED BY <3>1, <1>1, <1>2, <1>4, StageFields DEF WorkMoves, At
  <2> QED BY <2>1, <2>2
<1> QED BY <1>3, <1>4 DEF ApplyThrows

\* An append is made, or throws: the first time for a fault, later because the
\* journal is broken.
LEMMA LogMoves ==
  ASSUME faults \in 0..MaxFaults, NEW entry, NEW next, NEW thrown \in Process, Log(entry, next, thrown)
  PROVE  \/ ~agent.broken /\ journal' = [journal EXCEPT ![Id] = entry] /\ agent' = next /\ faults' = faults
         \/ /\ journal' = journal /\ faults' \in {faults, faults + 1} /\ faults' <= MaxFaults
            /\ faults' = faults + 1 \/ (agent.broken /\ faults' = faults)
            /\ agent' \in Process /\ agent'.stage = thrown.stage /\ agent'.broken = TRUE
            /\ agent'.session = thrown.session /\ agent'.lease = thrown.lease /\ agent'.fence = thrown.fence
            /\ agent'.sequence = thrown.sequence /\ agent'.done = thrown.done /\ agent'.ends = thrown.ends
<1>1. CASE ~agent.broken /\ journal' = [journal EXCEPT ![Id] = entry] /\ agent' = next /\ UNCHANGED faults
  BY <1>1
<1>2. CASE /\ agent.broken \/ faults < MaxFaults
           /\ agent' = [thrown EXCEPT !.broken = TRUE]
           /\ faults' = IF agent.broken THEN faults ELSE faults + 1
           /\ UNCHANGED journal
  <2>1. /\ agent' \in Process /\ agent'.stage = thrown.stage /\ agent'.broken = TRUE
        /\ agent'.session = thrown.session /\ agent'.lease = thrown.lease /\ agent'.fence = thrown.fence
        /\ agent'.sequence = thrown.sequence /\ agent'.done = thrown.done /\ agent'.ends = thrown.ends
    BY <1>2, BrokenFields
  <2>2. /\ faults' \in {faults, faults + 1} /\ faults' <= MaxFaults
        /\ faults' = faults + 1 \/ (agent.broken /\ faults' = faults)
    BY <1>2, AgentAssumption
  <2> QED BY <2>1, <2>2, <1>2
<1> QED BY <1>1, <1>2 DEF Log

LEMMA RecordEffectMoves ==
  ASSUME ProcessOK, faults \in 0..MaxFaults, RecordEffect
  PROVE  /\ WorkMoves /\ At("recordEffect") /\ UNCHANGED effects /\ agent'.done = agent.done
         /\ \/ journal' = journal /\ agent'.stage = "finally" /\ agent'.ends = "throw"
            \/ /\ journal' = [journal EXCEPT ![Id] = [Logged EXCEPT !.effect = TRUE]] /\ ~agent.broken
               /\ agent'.stage = "recordResult"
            \/ journal' = journal /\ agent'.stage = "recordFailed"
<1>1. /\ agent \in Process /\ agent.stage = "recordEffect"
      /\ UNCHANGED <<node, rows, late, keep, chain, effects>>
  BY DEF ProcessOK, RecordEffect, At, Local, server
<1>2. "recordFailed" \in Stages /\ "recordResult" \in Stages /\ "recordEffect" \in Reporting \ {"finally"}
      /\ "recordFailed" \in Reporting \ {"work"} /\ "recordResult" \in Reporting \ {"work"}
      /\ "finally" \in Reporting \ {"work"}
  BY DEF Stages, Reporting
<1>3. CASE agent.fence
  <2>1. agent' = Leave("throw") /\ UNCHANGED <<journal, faults>>
    BY <1>3 DEF RecordEffect
  <2>2. /\ agent' \in Process /\ agent'.stage = "finally" /\ agent'.ends = "throw"
        /\ agent'.session = agent.session /\ agent'.lease = agent.lease /\ agent'.fence = agent.fence
        /\ agent'.sequence = agent.sequence /\ agent'.broken = agent.broken /\ agent'.done = agent.done
    BY <2>1, <1>1, LeaveFields
  <2>3. faults' = faults /\ faults' \in {faults, faults + 1} /\ faults' <= MaxFaults
    BY <2>1, AgentAssumption
  <2>4. WorkMoves
    BY <2>3, <2>2, <1>1, <1>2, <1>3 DEF WorkMoves
  <2> QED BY <2>1, <2>2, <2>4, <1>1 DEF At
<1>4. CASE ~agent.fence
  <2> DEFINE next == [agent EXCEPT !.stage = "recordResult"]  thrown == [agent EXCEPT !.stage = "recordFailed"]
             entry == [Logged EXCEPT !.effect = TRUE]
  <2>1. Log(entry, next, thrown)
    BY <1>4 DEF RecordEffect
  <2>2. /\ next \in Process /\ next.stage = "recordResult"
        /\ next.session = agent.session /\ next.lease = agent.lease /\ next.fence = agent.fence
        /\ next.sequence = agent.sequence /\ next.broken = agent.broken /\ next.done = agent.done
    BY <1>1, <1>2, StageFields
  <2>3. /\ thrown \in Process /\ thrown.stage = "recordFailed"
        /\ thrown.session = agent.session /\ thrown.lease = agent.lease /\ thrown.fence = agent.fence
        /\ thrown.sequence = agent.sequence /\ thrown.broken = agent.broken /\ thrown.done = agent.done
    BY <1>1, <1>2, StageFields
  <2> HIDE DEF next, thrown, entry
  <2>4. CASE ~agent.broken /\ journal' = [journal EXCEPT ![Id] = entry] /\ agent' = next /\ faults' = faults
    <3>1. WorkMoves
      BY <2>2, <2>4, <1>1, <1>2 DEF WorkMoves
    <3> QED BY <3>1, <2>2, <2>4, <1>1 DEF At, entry
  <2>5. CASE /\ journal' = journal /\ faults' \in {faults, faults + 1} /\ faults' <= MaxFaults
             /\ faults' = faults + 1 \/ (agent.broken /\ faults' = faults)
             /\ agent' \in Process /\ agent'.stage = thrown.stage /\ agent'.broken = TRUE
             /\ agent'.session = thrown.session /\ agent'.lease = thrown.lease /\ agent'.fence = thrown.fence
             /\ agent'.sequence = thrown.sequence /\ agent'.done = thrown.done /\ agent'.ends = thrown.ends
    <3>1. WorkMoves
      BY <2>3, <2>5, <1>1, <1>2 DEF WorkMoves
    <3> QED BY <3>1, <2>3, <2>5, <1>1 DEF At
  <2> QED BY <2>1, <2>3, <2>4, <2>5, LogMoves
<1> QED BY <1>3, <1>4

LEMMA RecordResultMoves ==
  ASSUME ProcessOK, faults \in 0..MaxFaults, RecordResult
  PROVE  /\ WorkMoves /\ At("recordResult") /\ UNCHANGED effects /\ agent'.done = agent.done
         /\ \/ journal' = journal /\ agent'.stage = "finally" /\ agent'.ends = "throw"
            \/ /\ journal' = [journal EXCEPT ![Id] = [Logged EXCEPT !.result = "succeeded"]] /\ ~agent.broken
               /\ agent'.stage = "finally" /\ agent'.ends = "send"
            \/ journal' = journal /\ agent'.stage = "recordFailed"
<1>1. /\ agent \in Process /\ agent.stage = "recordResult"
      /\ UNCHANGED <<node, rows, late, keep, chain, effects>>
  BY DEF ProcessOK, RecordResult, At, Local, server
<1>2. "recordFailed" \in Stages /\ "recordResult" \in Reporting \ {"finally"}
      /\ "recordFailed" \in Reporting \ {"work"} /\ "finally" \in Reporting \ {"work"}
  BY DEF Stages, Reporting
<1>3. CASE agent.fence
  <2>1. agent' = Leave("throw") /\ UNCHANGED <<journal, faults>>
    BY <1>3 DEF RecordResult
  <2>2. /\ agent' \in Process /\ agent'.stage = "finally" /\ agent'.ends = "throw"
        /\ agent'.session = agent.session /\ agent'.lease = agent.lease /\ agent'.fence = agent.fence
        /\ agent'.sequence = agent.sequence /\ agent'.broken = agent.broken /\ agent'.done = agent.done
    BY <2>1, <1>1, LeaveFields
  <2>3. faults' = faults /\ faults' \in {faults, faults + 1} /\ faults' <= MaxFaults
    BY <2>1, AgentAssumption
  <2>4. WorkMoves
    BY <2>3, <2>2, <1>1, <1>2, <1>3 DEF WorkMoves
  <2> QED BY <2>1, <2>2, <2>4, <1>1 DEF At
<1>4. CASE ~agent.fence
  <2> DEFINE next == Leave("send")  thrown == [agent EXCEPT !.stage = "recordFailed"]
             entry == [Logged EXCEPT !.result = "succeeded"]
  <2>1. Log(entry, next, thrown)
    BY <1>4 DEF RecordResult
  <2>2. /\ next \in Process /\ next.stage = "finally" /\ next.ends = "send"
        /\ next.session = agent.session /\ next.lease = agent.lease /\ next.fence = agent.fence
        /\ next.sequence = agent.sequence /\ next.broken = agent.broken /\ next.done = agent.done
    BY <1>1, LeaveFields
  <2>3. /\ thrown \in Process /\ thrown.stage = "recordFailed"
        /\ thrown.session = agent.session /\ thrown.lease = agent.lease /\ thrown.fence = agent.fence
        /\ thrown.sequence = agent.sequence /\ thrown.broken = agent.broken /\ thrown.done = agent.done
    BY <1>1, <1>2, StageFields
  <2> HIDE DEF next, thrown, entry
  <2>4. CASE ~agent.broken /\ journal' = [journal EXCEPT ![Id] = entry] /\ agent' = next /\ faults' = faults
    <3>1. WorkMoves
      BY <2>2, <2>4, <1>1, <1>2 DEF WorkMoves
    <3> QED BY <3>1, <2>2, <2>4, <1>1 DEF At, entry
  <2>5. CASE /\ journal' = journal /\ faults' \in {faults, faults + 1} /\ faults' <= MaxFaults
             /\ faults' = faults + 1 \/ (agent.broken /\ faults' = faults)
             /\ agent' \in Process /\ agent'.stage = thrown.stage /\ agent'.broken = TRUE
             /\ agent'.session = thrown.session /\ agent'.lease = thrown.lease /\ agent'.fence = thrown.fence
             /\ agent'.sequence = thrown.sequence /\ agent'.done = thrown.done /\ agent'.ends = thrown.ends
    <3>1. WorkMoves
      BY <2>3, <2>5, <1>1, <1>2 DEF WorkMoves
    <3> QED BY <3>1, <2>3, <2>5, <1>1 DEF At
  <2> QED BY <2>1, <2>3, <2>4, <2>5, LogMoves
<1> QED BY <1>3, <1>4

LEMMA RecordFailedMoves ==
  ASSUME ProcessOK, faults \in 0..MaxFaults, RecordFailed
  PROVE  /\ WorkMoves /\ At("recordFailed") /\ UNCHANGED effects /\ agent'.done = agent.done
         /\ \/ /\ journal' = [journal EXCEPT ![Id] = [Logged EXCEPT !.result = "failed"]] /\ ~agent.broken
               /\ agent'.stage = "finally" /\ agent'.ends = "send"
            \/ journal' = journal /\ agent'.stage = "finally" /\ agent'.ends = "throw"
<1>1. /\ agent \in Process /\ agent.stage = "recordFailed"
      /\ UNCHANGED <<node, rows, late, keep, chain, effects>>
  BY DEF ProcessOK, RecordFailed, At, Local, server
<1>2. "recordFailed" \in Reporting \ {"finally"} /\ "finally" \in Reporting \ {"work"}
  BY DEF Reporting
<1> DEFINE next == Leave("send")  thrown == Leave("throw")  entry == [Logged EXCEPT !.result = "failed"]
<1>3. Log(entry, next, thrown)
  BY DEF RecordFailed
<1>4. /\ next \in Process /\ next.stage = "finally" /\ next.ends = "send"
      /\ next.session = agent.session /\ next.lease = agent.lease /\ next.fence = agent.fence
      /\ next.sequence = agent.sequence /\ next.broken = agent.broken /\ next.done = agent.done
  BY <1>1, LeaveFields
<1>5. /\ thrown \in Process /\ thrown.stage = "finally" /\ thrown.ends = "throw"
      /\ thrown.session = agent.session /\ thrown.lease = agent.lease /\ thrown.fence = agent.fence
      /\ thrown.sequence = agent.sequence /\ thrown.broken = agent.broken /\ thrown.done = agent.done
  BY <1>1, LeaveFields
<1> HIDE DEF next, thrown, entry
<1>6. CASE ~agent.broken /\ journal' = [journal EXCEPT ![Id] = entry] /\ agent' = next /\ faults' = faults
  <2>1. WorkMoves
    BY <1>4, <1>6, <1>1, <1>2 DEF WorkMoves
  <2> QED BY <2>1, <1>4, <1>6, <1>1 DEF At, entry
<1>7. CASE /\ journal' = journal /\ faults' \in {faults, faults + 1} /\ faults' <= MaxFaults
           /\ faults' = faults + 1 \/ (agent.broken /\ faults' = faults)
           /\ agent' \in Process /\ agent'.stage = thrown.stage /\ agent'.broken = TRUE
           /\ agent'.session = thrown.session /\ agent'.lease = thrown.lease /\ agent'.fence = thrown.fence
           /\ agent'.sequence = thrown.sequence /\ agent'.done = thrown.done /\ agent'.ends = thrown.ends
  <2>1. WorkMoves
    BY <1>5, <1>7, <1>1, <1>2 DEF WorkMoves
  <2> QED BY <2>1, <1>5, <1>7, <1>1 DEF At
<1> QED BY <1>3, <1>5, <1>6, <1>7, LogMoves

-----------------------------------------------------------------------------
(* Polling, the reports, and a new process *)

\* Sessions are numbered in the order of the processes: no request, and no node,
\* names one that is still to come.
SessionsOK ==
  /\ late \subseteq Requests
  /\ \A r \in late: r.session <= Session
  /\ node.session # None => node.session <= Session
  /\ IF At("down") THEN Session < MaxSessions ELSE Session \in Sessions
  /\ agent.lease # None /\ node.retired = {} => node.session = Session

\* A poll without a command in hand goes on, or ends.
IdleMoves ==
  /\ agent.lease = None /\ ~At("down") /\ agent.stage \notin Reporting
  /\ agent' \in Process
  /\ agent'.lease = None /\ agent'.stage \in {"poll", "claim", "observe"}
  /\ agent'.session = agent.session /\ agent'.broken = agent.broken
  /\ agent'.fence = FALSE /\ agent'.done = FALSE
  /\ UNCHANGED <<keep, chain, journal, effects>>

\* What a step of the process leaves as it is while it has a command in hand.
SameCommand ==
  /\ agent' \in Process /\ agent'.session = agent.session /\ agent'.lease = agent.lease
  /\ agent'.broken = agent.broken /\ agent'.done = agent.done /\ agent'.ends = agent.ends

Quiet == chain = <<>> /\ keep = "off"

LEMMA IdleQuiet ==
  ASSUME ProcessOK, agent.stage \notin Reporting \cup {"firstReport"}
  PROVE  Quiet
BY DEF ProcessOK, StagesOK, Quiet

LEMMA PollHeartbeatProcess ==
  ASSUME ProcessOK, PollHeartbeat
  PROVE  ProcessOK' /\ IdleMoves
<1>1. agent \in Process /\ agent.stage = "poll" /\ UNCHANGED <<keep, chain, journal, effects>>
  BY DEF ProcessOK, PollHeartbeat, At
<1>2. Quiet /\ agent.lease = None /\ agent.fence = FALSE /\ agent.sequence = 0 /\ agent.done = FALSE
  BY <1>1, IdleQuiet, AgentFields DEF Reporting, ProcessOK, StagesOK
<1>3. CASE agent' = Poll(agent)
  <2>1. ProcessOK'
    BY <1>1, <1>2, <1>3, PollsAgain DEF Quiet
  <2> QED BY <2>1, <1>1, <1>2, <1>3, PollFields DEF IdleMoves, At, Reporting
<1>4. CASE agent' = [agent EXCEPT !.stage = "claim"]
  <2>1. /\ agent' \in Process /\ agent'.stage = "claim"
        /\ agent'.session = agent.session /\ agent'.lease = agent.lease /\ agent'.fence = agent.fence
        /\ agent'.sequence = agent.sequence /\ agent'.broken = agent.broken /\ agent'.done = agent.done
    <3>1. "claim" \in Stages
      BY DEF Stages
    <3> QED BY <3>1, <1>1, <1>4, StageFields
  <2>2. StagesOK' /\ ChainOK'
    BY <2>1, <1>1, <1>2 DEF StagesOK, ChainOK, ProcessOK, Quiet
  <2>3. ProcessOK'
    BY <2>1, <2>2, <1>1 DEF ProcessOK
  <2> QED BY <2>1, <2>3, <1>1, <1>2 DEF IdleMoves, At, Reporting
<1> QED BY <1>3, <1>4 DEF PollHeartbeat, PollAgain, To

LEMMA PollClaimProcess ==
  ASSUME ServerOK, SessionsOK, ProcessOK, PollClaim
  PROVE  /\ ProcessOK'
         /\ \/ IdleMoves /\ ClaimTaken(Session) /\ Claim(Session) /\ Claimed = None /\ Answered
            \/ IdleMoves /\ UNCHANGED server /\ Answered
            \/ IdleMoves /\ GivenUp({Sends("claim")})
            \/ /\ ClaimTaken(Session) /\ Claim(Session) /\ Claimed # None /\ Answered
               /\ agent.lease = None /\ agent' \in Process /\ agent'.stage = "receipt" /\ agent'.lease = Claimed
               /\ agent'.session = agent.session /\ agent'.broken = agent.broken
               /\ agent'.fence = FALSE /\ agent'.done = FALSE /\ agent'.sequence = 0
               /\ Quiet /\ UNCHANGED <<keep, chain, journal, effects>>
<1>1. agent \in Process /\ agent.stage \in {"claim", "poll"} /\ UNCHANGED <<keep, chain, journal, effects>>
  BY DEF ProcessOK, PollClaim, At
<1>2. Quiet /\ agent.lease = None /\ agent.fence = FALSE /\ agent.sequence = 0 /\ agent.done = FALSE
  BY <1>1, IdleQuiet, AgentFields DEF Reporting, ProcessOK, StagesOK
<1>3. Session \in Sessions
  BY <1>1 DEF SessionsOK, At
<1>4. ASSUME NEW a \in Process, a.session = agent.session, a.broken = agent.broken, agent' = Poll(a)
      PROVE  ProcessOK' /\ IdleMoves
  <2>1. ProcessOK'
    BY <1>1, <1>2, <1>4, PollsAgain DEF Quiet
  <2> QED BY <2>1, <1>1, <1>2, <1>4, PollFields DEF IdleMoves, At, Reporting
<1> DEFINE undue == [agent EXCEPT !.due = FALSE]
<1>5. undue \in Process /\ undue.session = agent.session /\ undue.broken = agent.broken
  BY <1>1 DEF Process
<1> HIDE DEF undue
<1>6. agent' = Poll(undue) => ProcessOK' /\ IdleMoves
  BY <1>4, <1>5
<1>7. CASE /\ ClaimTaken(Session) /\ Claim(Session) /\ Answered
           /\ agent' = IF Claimed # None
                       THEN [agent EXCEPT !.stage = "receipt", !.lease = Claimed, !.due = TRUE]
                       ELSE IF agent.due THEN [agent EXCEPT !.stage = "observe", !.due = FALSE]
                       ELSE Poll(agent)
  <2>1. CASE Claimed # None
    <3>1. Claimed \in Lease
      BY <2>1, <1>3, <1>7, ClaimServer
    <3>2. agent' = [agent EXCEPT !.stage = "receipt", !.lease = Claimed, !.due = TRUE]
      BY <2>1, <1>7
    <3>3. agent' \in Process
      BY <3>1, <3>2, <1>1 DEF Process, Stages
    <3>4. /\ agent'.stage = "receipt" /\ agent'.lease = Claimed
          /\ agent'.session = agent.session /\ agent'.fence = agent.fence
          /\ agent'.sequence = agent.sequence /\ agent'.broken = agent.broken /\ agent'.done = agent.done
      BY <3>2, <1>1 DEF Process
    <3>5. StagesOK' /\ ChainOK'
      BY <2>1, <3>4, <1>1, <1>2 DEF StagesOK, ChainOK, ProcessOK, Quiet, Reporting
    <3>6. ProcessOK'
      BY <3>3, <3>5, <1>1 DEF ProcessOK
    <3> QED BY <2>1, <3>3, <3>4, <3>6, <1>1, <1>2, <1>7
  <2>2. CASE Claimed = None /\ agent.due
    <3>1. agent' = [agent EXCEPT !.stage = "observe", !.due = FALSE]
      BY <2>2, <1>7
    <3>2. agent' \in Process
      BY <3>1, <1>1 DEF Process, Stages
    <3>3. /\ agent'.stage = "observe" /\ agent'.lease = agent.lease
          /\ agent'.session = agent.session /\ agent'.fence = agent.fence
          /\ agent'.sequence = agent.sequence /\ agent'.broken = agent.broken /\ agent'.done = agent.done
      BY <3>1, <1>1 DEF Process
    <3>4. StagesOK' /\ ChainOK'
      BY <3>3, <1>1, <1>2 DEF StagesOK, ChainOK, ProcessOK, Quiet, Reporting
    <3>5. ProcessOK' /\ IdleMoves
      BY <3>2, <3>3, <3>4, <1>1, <1>2 DEF ProcessOK, IdleMoves, At, Reporting
    <3> QED BY <2>2, <3>5, <1>7
  <2>3. CASE Claimed = None /\ ~agent.due
    <3>1. agent' = Poll(agent)
      BY <2>3, <1>7
    <3> QED BY <2>3, <3>1, <1>1, <1>4, <1>7
  <2> QED BY <2>1, <2>2, <2>3
<1>8. \/ /\ ClaimTaken(Session) /\ Claim(Session) /\ Answered
         /\ agent' = IF Claimed # None
                     THEN [agent EXCEPT !.stage = "receipt", !.lease = Claimed, !.due = TRUE]
                     ELSE IF agent.due THEN [agent EXCEPT !.stage = "observe", !.due = FALSE]
                     ELSE Poll(agent)
      \/ UNCHANGED server /\ Answered /\ agent' = Poll(undue)
      \/ GivenUp({Sends("claim")}) /\ agent' = Poll(undue)
  BY DEF PollClaim, Refused, undue
<1> QED BY <1>6, <1>7, <1>8

LEMMA ObserveProcess ==
  ASSUME ProcessOK, Observe
  PROVE  ProcessOK' /\ IdleMoves
<1>1. agent \in Process /\ agent.stage = "observe" /\ UNCHANGED <<keep, chain, journal, effects>>
      /\ agent' = Poll(agent)
  BY DEF ProcessOK, Observe, At, PollAgain
<1>2. Quiet /\ agent.lease = None
  BY <1>1, IdleQuiet DEF Reporting, ProcessOK, StagesOK
<1>3. ProcessOK'
  BY <1>1, <1>2, PollsAgain DEF Quiet
<1> QED BY <1>1, <1>2, <1>3, PollFields DEF IdleMoves, At, Reporting

LEMMA BecomesDueProcess ==
  ASSUME ProcessOK, BecomesDue
  PROVE  ProcessOK' /\ IdleMoves
<1>1. agent \in Process /\ agent.stage = "poll" /\ UNCHANGED <<keep, chain, journal, effects>>
      /\ agent' = [agent EXCEPT !.due = TRUE]
  BY DEF ProcessOK, BecomesDue, At
<1>2. Quiet /\ agent.lease = None /\ agent.fence = FALSE /\ agent.sequence = 0 /\ agent.done = FALSE
  BY <1>1, IdleQuiet, AgentFields DEF Reporting, ProcessOK, StagesOK
<1>3. /\ agent' \in Process /\ agent'.stage = "poll" /\ agent'.lease = agent.lease
      /\ agent'.session = agent.session /\ agent'.fence = agent.fence
      /\ agent'.sequence = agent.sequence /\ agent'.broken = agent.broken /\ agent'.done = agent.done
  BY <1>1 DEF Process
<1>4. StagesOK' /\ ChainOK'
  BY <1>3, <1>1, <1>2 DEF StagesOK, ChainOK, ProcessOK, Quiet, Reporting
<1> QED BY <1>1, <1>2, <1>3, <1>4 DEF ProcessOK, IdleMoves, At, Reporting

LEMMA NumberedFields ==
  ASSUME NEW a \in Process, a.sequence < MaxSequence
  PROVE  LET b == Numbered(a) IN
         /\ b \in Process /\ b.sequence = a.sequence + 1 /\ b.stage = a.stage
         /\ b.session = a.session /\ b.lease = a.lease /\ b.fence = a.fence
         /\ b.broken = a.broken /\ b.done = a.done /\ b.ends = a.ends
<1>1. a.sequence \in 0..MaxSequence
  BY AgentFields
<1>2. a.sequence + 1 \in 0..MaxSequence
  BY <1>1, AgentAssumption
<1> QED BY <1>2 DEF Numbered, Process

LEMMA FencedFields ==
  ASSUME NEW a \in Process
  PROVE  LET b == [a EXCEPT !.fence = TRUE] IN
         /\ b \in Process /\ b.sequence = a.sequence /\ b.stage = a.stage /\ b.fence = TRUE
         /\ b.session = a.session /\ b.lease = a.lease
         /\ b.broken = a.broken /\ b.done = a.done /\ b.ends = a.ends
BY DEF Process

\* Reports are added behind those that wait, with higher numbers, or none is.
ReportsGrow ==
  /\ agent.sequence <= agent'.sequence
  /\ \A i \in DOMAIN chain': \/ i \in DOMAIN chain /\ chain'[i] = chain[i]
                             \/ chain'[i].sequence = agent.sequence + 1

LEMMA NothingGrows ==
  ASSUME ProcessOK, UNCHANGED chain, agent'.sequence = agent.sequence
  PROVE  ReportsGrow
<1>1. agent.sequence \in 0..MaxSequence
  BY AgentFields DEF ProcessOK
<1>2. agent.sequence <= agent.sequence
  BY <1>1
<1> QED BY <1>2 DEF ReportsGrow

LEMMA RecordReceiptProcess ==
  ASSUME ProcessOK, faults \in 0..MaxFaults, RecordReceipt
  PROVE  /\ ProcessOK' /\ UNCHANGED <<node, rows, late, keep, chain, effects>> /\ agent.lease # None
         /\ At("receipt") /\ Quiet /\ ~agent.fence /\ agent'.session = agent.session /\ agent'.done = FALSE
         /\ agent'.fence = FALSE
         /\ \/ /\ SameCommand /\ faults' = faults /\ agent'.stage = "sendReceipt" /\ agent'.sequence = agent.sequence
               /\ \/ Logged.receipt /\ journal' = journal
                  \/ /\ ~Logged.receipt /\ ~agent.broken
                     /\ journal' = [journal EXCEPT ![Id] = [Logged EXCEPT !.receipt = TRUE]]
            \/ /\ ~Logged.receipt /\ journal' = journal /\ agent'.stage = "poll" /\ agent'.lease = None
               /\ agent'.broken = TRUE /\ faults' \in {faults, faults + 1} /\ faults' <= MaxFaults
               /\ faults' = faults + 1 \/ agent.broken
<1>1. agent \in Process /\ agent.stage = "receipt" /\ UNCHANGED <<node, rows, late, keep, chain, effects>>
  BY DEF ProcessOK, RecordReceipt, At, server
<1>2. /\ Quiet /\ agent.lease # None /\ agent.fence = FALSE /\ agent.sequence = 0 /\ agent.done = FALSE
      /\ agent.lease \in Lease \cup {None}
  BY <1>1, IdleQuiet, AgentFields DEF Reporting, ProcessOK, StagesOK
<1> DEFINE next == [agent EXCEPT !.stage = "sendReceipt"]
<1>3. /\ next \in Process /\ next.stage = "sendReceipt"
      /\ next.session = agent.session /\ next.lease = agent.lease /\ next.fence = agent.fence
      /\ next.sequence = agent.sequence /\ next.broken = agent.broken /\ next.done = agent.done
      /\ next.ends = agent.ends
  <2>1. "sendReceipt" \in Stages
    BY DEF Stages
  <2> QED BY <2>1, <1>1, StageFields
<1> HIDE DEF next
<1>4. ASSUME agent' = next PROVE ProcessOK' /\ SameCommand
  <2>1. StagesOK' /\ ChainOK'
    BY <1>1, <1>2, <1>3, <1>4 DEF StagesOK, ChainOK, ProcessOK, Quiet, Reporting
  <2> QED BY <2>1, <1>1, <1>3, <1>4 DEF ProcessOK, SameCommand
<1>5. CASE Logged.receipt
  <2>1. agent' = next /\ journal' = journal /\ faults' = faults
    BY <1>5 DEF RecordReceipt, To, next
  <2>2. ProcessOK' /\ SameCommand
    BY <2>1, <1>4
  <2> QED BY <2>1, <2>2, <1>1, <1>2, <1>3, <1>5 DEF At
<1>6. CASE ~Logged.receipt
  <2> DEFINE entry == [Logged EXCEPT !.receipt = TRUE]
  <2>1. Log(entry, next, Poll(agent))
    BY <1>6 DEF RecordReceipt, next
  <2> HIDE DEF entry
  <2>2. /\ Poll(agent) \in Process
        /\ Poll(agent).stage = "poll" /\ Poll(agent).lease = None /\ Poll(agent).fence = FALSE
        /\ Poll(agent).sequence = 0 /\ Poll(agent).done = FALSE
        /\ Poll(agent).session = agent.session
    BY <1>1, PollFields
  <2>3. CASE ~agent.broken /\ journal' = [journal EXCEPT ![Id] = entry] /\ agent' = next /\ faults' = faults
    <3>1. ProcessOK' /\ SameCommand
      BY <2>3, <1>4
    <3>2. journal' = [journal EXCEPT ![Id] = [Logged EXCEPT !.receipt = TRUE]]
      BY <2>3 DEF entry
    <3> QED BY <2>3, <3>1, <3>2, <1>1, <1>2, <1>3, <1>6 DEF At
  <2>4. CASE /\ journal' = journal /\ faults' \in {faults, faults + 1} /\ faults' <= MaxFaults
             /\ faults' = faults + 1 \/ (agent.broken /\ faults' = faults)
             /\ agent' \in Process /\ agent'.stage = Poll(agent).stage /\ agent'.broken = TRUE
             /\ agent'.session = Poll(agent).session /\ agent'.lease = Poll(agent).lease
             /\ agent'.fence = Poll(agent).fence
             /\ agent'.sequence = Poll(agent).sequence /\ agent'.done = Poll(agent).done
             /\ agent'.ends = Poll(agent).ends
    <3>1. StagesOK' /\ ChainOK'
      BY <1>1, <1>2, <2>2, <2>4 DEF StagesOK, ChainOK, ProcessOK, Quiet, Reporting
    <3>2. ProcessOK'
      BY <3>1, <2>4, <1>1 DEF ProcessOK
    <3> QED BY <3>2, <2>2, <2>4, <1>1, <1>2, <1>6 DEF At
  <2> QED BY <2>1, <2>2, <2>3, <2>4, LogMoves
<1> QED BY <1>5, <1>6

LEMMA SendReceiptProcess ==
  ASSUME ProcessOK, SendReceipt
  PROVE  /\ ProcessOK' /\ UNCHANGED <<node, rows, keep, journal, effects>> /\ agent.lease # None
         /\ At("sendReceipt") /\ ~agent.fence /\ agent'.session = agent.session /\ agent'.done = FALSE
         /\ agent'.fence = FALSE /\ agent'.broken = agent.broken
         /\ \/ SameCommand /\ Answered /\ agent'.stage = "firstReport" /\ ReportsGrow
            \/ agent'.stage = "poll" /\ agent'.lease = None /\ ~LeaseTaken(Session, Lse) /\ Answered
            \/ agent'.stage = "poll" /\ agent'.lease = None /\ GivenUp({})
<1>1. agent \in Process /\ agent.stage = "sendReceipt" /\ UNCHANGED <<node, rows, keep, journal, effects>>
  BY DEF ProcessOK, SendReceipt, At, server, Refused, GivenUp
<1>2. Quiet /\ agent.lease # None /\ agent.fence = FALSE /\ agent.sequence = 0 /\ agent.done = FALSE
  BY <1>1, IdleQuiet, AgentFields DEF Reporting, ProcessOK, StagesOK
<1>3. ASSUME agent' = Poll(agent), UNCHANGED chain
      PROVE  /\ ProcessOK' /\ agent'.stage = "poll" /\ agent'.lease = None /\ agent'.session = agent.session
             /\ agent'.done = FALSE /\ agent'.fence = FALSE /\ agent'.broken = agent.broken
  <2>1. ProcessOK'
    BY <1>1, <1>2, <1>3, PollsAgain DEF Quiet
  <2> QED BY <2>1, <1>1, <1>3, PollFields
<1>4. CASE /\ Answered /\ UNCHANGED server
           /\ agent' = Numbered([agent EXCEPT !.stage = "firstReport"])
           /\ chain' = Queued("command")
  <2> DEFINE a == [agent EXCEPT !.stage = "firstReport"]
  <2>1. /\ a \in Process /\ a.stage = "firstReport"
        /\ a.session = agent.session /\ a.lease = agent.lease /\ a.fence = agent.fence
        /\ a.sequence = agent.sequence /\ a.broken = agent.broken /\ a.done = agent.done /\ a.ends = agent.ends
    <3>1. "firstReport" \in Stages
      BY DEF Stages
    <3> QED BY <3>1, <1>1, StageFields
  <2>2. agent' = Numbered(a)
    BY <1>4
  <2> HIDE DEF a
  <2>3. a.sequence < MaxSequence /\ agent.sequence < MaxSequence
    BY <2>1, <1>2, AgentAssumption
  <2>4. /\ agent' \in Process /\ agent'.sequence = agent.sequence + 1 /\ agent'.stage = "firstReport"
        /\ agent'.session = agent.session /\ agent'.lease = agent.lease /\ agent'.fence = agent.fence
        /\ agent'.broken = agent.broken /\ agent'.done = agent.done /\ agent'.ends = agent.ends
    BY <2>1, <2>2, <2>3, NumberedFields
  <2>5. /\ chain' \in Seq(Report) /\ ChainOK'
        /\ \A i \in DOMAIN chain': \/ i \in DOMAIN chain /\ chain'[i] = chain[i]
                                   \/ chain'[i].sequence = agent.sequence + 1
    BY <2>3, <2>4, <1>1, <1>4, QueuedChain
  <2>6. StagesOK'
    BY <2>4, <1>1, <1>2 DEF StagesOK, Quiet, Reporting
  <2>7. ProcessOK'
    BY <2>4, <2>5, <2>6, <1>1 DEF ProcessOK
  <2>8. SameCommand /\ ReportsGrow
    BY <2>4, <2>5, <1>2 DEF SameCommand, ReportsGrow
  <2> QED BY <2>4, <2>7, <2>8, <1>1, <1>2, <1>4 DEF At
<1>5. \/ Answered /\ UNCHANGED server /\ agent' = Numbered([agent EXCEPT !.stage = "firstReport"])
         /\ chain' = Queued("command")
      \/ ~LeaseTaken(Session, Lse) /\ Answered /\ agent' = Poll(agent) /\ UNCHANGED chain
      \/ GivenUp({}) /\ agent' = Poll(agent) /\ UNCHANGED chain
  BY DEF SendReceipt, Refused, PollAgain
<1> QED BY <1>1, <1>2, <1>3, <1>4, <1>5 DEF At

\* The report in front ends, with the fence or without; the others move up.
LEMMA SubmitProcess ==
  ASSUME ProcessOK, Submit
  PROVE  /\ ProcessOK' /\ SameCommand /\ agent'.stage = agent.stage /\ agent'.sequence = agent.sequence
         /\ agent.lease \in Lease /\ UNCHANGED <<journal, effects>>
         /\ 1 \in DOMAIN chain /\ chain[1].sequence \in 1..MaxSequence
         /\ \A i \in DOMAIN chain': /\ i + 1 \in DOMAIN chain /\ chain'[i] = chain[i + 1]
                                    /\ chain[1].sequence < chain'[i].sequence
         /\ \/ agent'.fence = agent.fence /\ agent.fence /\ Answered /\ UNCHANGED server
            \/ /\ agent'.fence = agent.fence /\ Answered
               /\ ProgressTaken(Session, Lse, chain[1].sequence) /\ Progress(Lse, chain[1].sequence)
            \/ /\ agent'.fence = TRUE /\ UNCHANGED server
               /\ \/ ~ProgressTaken(Session, Lse, chain[1].sequence) /\ Answered /\ ~agent.fence
                  \/ GivenUp({SendsProgress(Lse, chain[1].sequence)})
<1>1. /\ agent \in Process /\ chain # <<>> /\ UNCHANGED <<journal, effects>>
      /\ chain' = SubSeq(chain, 1, 1 - 1) \o SubSeq(chain, 1 + 1, Len(chain))
      /\ keep' = IF chain[1].for = "keepalive" THEN "idle" ELSE keep
  BY DEF ProcessOK, Submit, SubmitNth
<1>2. agent.stage \in Reporting \cup {"firstReport"}
  BY <1>1, IdleQuiet DEF Quiet
<1>3. agent.lease # None /\ agent.lease \in Lease \cup {None} /\ agent.fence \in BOOLEAN
  BY <1>1, <1>2, AgentFields DEF ProcessOK, StagesOK, Reporting
<1>4. agent' = agent \/ agent' = [agent EXCEPT !.fence = TRUE]
  BY DEF Submit, SubmitNth
<1>5. /\ agent' \in Process /\ agent'.sequence = agent.sequence /\ agent'.stage = agent.stage
      /\ agent'.session = agent.session /\ agent'.lease = agent.lease
      /\ agent'.broken = agent.broken /\ agent'.done = agent.done /\ agent'.ends = agent.ends
  BY <1>1, <1>4, FencedFields
<1>6. /\ chain' \in Seq(Report) /\ ChainOK' /\ 1 \in DOMAIN chain
      /\ \A i \in DOMAIN chain': /\ i + 1 \in DOMAIN chain /\ chain'[i] = chain[i + 1]
                                 /\ chain[1].sequence < chain'[i].sequence
  BY <1>1, <1>5, SubmittedChain
<1>7. agent.stage \in Reporting \/ UNCHANGED keep
  BY <1>1, <1>2, <1>6 DEF ProcessOK, ChainOK, StagesOK, Reporting
<1>8. keep' \in {"off", "idle", "heartbeat", "report"}
  BY <1>1 DEF ProcessOK
<1>9. StagesOK'
  BY <1>2, <1>3, <1>5, <1>7 DEF ProcessOK, StagesOK, Reporting
<1>10. ProcessOK'
  BY <1>5, <1>6, <1>8, <1>9 DEF ProcessOK
<1>11. chain[1].sequence \in 1..MaxSequence
  BY <1>6, ChainDomain
<1>12. SameCommand
  BY <1>5 DEF SameCommand
<1>13. \/ agent' = agent /\ agent.fence /\ Answered /\ UNCHANGED server
       \/ /\ agent' = agent /\ Answered
          /\ ProgressTaken(Session, Lse, chain[1].sequence) /\ Progress(Lse, chain[1].sequence)
       \/ /\ agent' = [agent EXCEPT !.fence = TRUE] /\ UNCHANGED server
          /\ \/ ~ProgressTaken(Session, Lse, chain[1].sequence) /\ Answered /\ ~agent.fence
             \/ GivenUp({SendsProgress(Lse, chain[1].sequence)})
  BY DEF Submit, SubmitNth, Refused, GivenUp
<1>14. agent' = [agent EXCEPT !.fence = TRUE] => agent'.fence = TRUE
  BY <1>1, FencedFields
<1> QED BY <1>1, <1>3, <1>5, <1>6, <1>10, <1>11, <1>12, <1>13, <1>14

LEMMA FirstReportEndsProcess ==
  ASSUME ProcessOK, FirstReportEnds
  PROVE  /\ ProcessOK' /\ UNCHANGED <<node, rows, late, chain, journal, effects, faults>>
         /\ agent.lease # None /\ agent'.session = agent.session /\ agent'.done = FALSE
         /\ agent'.broken = agent.broken /\ At("firstReport")
         /\ \/ agent.fence /\ agent'.stage = "poll" /\ agent'.lease = None /\ agent'.fence = FALSE
            \/ SameCommand /\ agent'.fence = agent.fence /\ agent'.stage = "work" /\ agent'.sequence = agent.sequence
<1>1. agent \in Process /\ agent.stage = "firstReport" /\ ~Pending("command")
      /\ UNCHANGED <<node, rows, late, chain, journal, effects, faults>>
  BY DEF ProcessOK, FirstReportEnds, At, server
<1>2. /\ keep = "off" /\ agent.lease # None /\ agent.done = FALSE
  BY <1>1, AgentFields DEF Reporting, ProcessOK, StagesOK
<1>3. chain = <<>>
  <2>1. DOMAIN chain = {}
    BY <1>1, <1>2, ChainDomain DEF ProcessOK, ChainOK, Pending
  <2>2. Len(chain) = 0
    BY <2>1, ChainDomain
  <2> QED BY <2>2, EmptySeq DEF ProcessOK
<1>4. CASE agent.fence
  <2>1. agent' = Poll(agent) /\ UNCHANGED keep
    BY <1>4 DEF FirstReportEnds, PollAgain
  <2>2. ProcessOK'
    BY <2>1, <1>1, <1>2, <1>3, PollsAgain
  <2> QED BY <2>1, <2>2, <1>1, <1>2, <1>4, PollFields DEF At
<1>5. CASE ~agent.fence
  <2>1. agent' = [agent EXCEPT !.stage = "work"] /\ keep' = "idle"
    BY <1>5 DEF FirstReportEnds, To
  <2>2. /\ agent' \in Process /\ agent'.stage = "work"
        /\ agent'.session = agent.session /\ agent'.lease = agent.lease /\ agent'.fence = agent.fence
        /\ agent'.sequence = agent.sequence /\ agent'.broken = agent.broken /\ agent'.done = agent.done
        /\ agent'.ends = agent.ends
    <3>1. "work" \in Stages
      BY DEF Stages
    <3> QED BY <3>1, <2>1, <1>1, StageFields
  <2>3. chain' \in Seq(Report) /\ DOMAIN chain' = {}
    BY <1>1, <1>3, EmptySeq, LenProperties
  <2>4. StagesOK' /\ ChainOK'
    BY <2>2, <2>3, <1>2 DEF StagesOK, ChainOK, Reporting
  <2>5. ProcessOK'
    BY <2>1, <2>2, <2>3, <2>4 DEF ProcessOK
  <2>6. SameCommand
    BY <2>2 DEF SameCommand
  <2> QED BY <2>2, <2>5, <2>6, <1>1, <1>2 DEF At
<1> QED BY <1>4, <1>5

LEMMA KeepaliveFiresProcess ==
  ASSUME ProcessOK, KeepaliveFires
  PROVE  ProcessOK' /\ UNCHANGED <<node, rows, late, agent, chain, journal, effects, faults>>
<1>1. keep = "idle" /\ keep' = "heartbeat" /\ UNCHANGED <<node, rows, late, agent, chain, journal, effects, faults>>
  BY DEF KeepaliveFires, server
<1>2. StagesOK' /\ ChainOK'
  BY <1>1 DEF ProcessOK, StagesOK, ChainOK
<1> QED BY <1>1, <1>2 DEF ProcessOK

LEMMA KeepaliveBeatsProcess ==
  ASSUME ProcessOK, KeepaliveBeats
  PROVE  /\ ProcessOK' /\ SameCommand /\ agent'.stage = agent.stage /\ UNCHANGED <<journal, effects>>
         /\ agent.lease # None /\ ReportsGrow
         /\ \/ agent'.fence = agent.fence /\ HeartbeatTaken(Session) /\ Heartbeat(Session) /\ Answered
            \/ agent'.fence = agent.fence /\ GivenUp({Sends("heartbeat")})
            \/ agent'.fence = TRUE /\ ~HeartbeatTaken(Session) /\ UNCHANGED server /\ Answered
<1>1. agent \in Process /\ keep = "heartbeat" /\ UNCHANGED <<journal, effects>>
  BY DEF ProcessOK, KeepaliveBeats
<1>2. agent.stage \in Reporting
  BY <1>1 DEF ProcessOK, StagesOK
<1>3. agent.lease # None /\ agent.fence \in BOOLEAN /\ agent.sequence \in 0..MaxSequence
  BY <1>1, <1>2, AgentFields DEF ProcessOK, StagesOK, Reporting
<1>4. ASSUME keep' = "idle", UNCHANGED chain, agent' = agent \/ agent' = [agent EXCEPT !.fence = TRUE]
      PROVE  /\ ProcessOK' /\ SameCommand /\ agent'.stage = agent.stage /\ ReportsGrow
             /\ agent' = agent => agent'.fence = agent.fence
             /\ agent' # agent => agent'.fence = TRUE
  <2>1. /\ agent' \in Process /\ agent'.sequence = agent.sequence /\ agent'.stage = agent.stage
        /\ agent'.session = agent.session /\ agent'.lease = agent.lease
        /\ agent'.broken = agent.broken /\ agent'.done = agent.done /\ agent'.ends = agent.ends
        /\ agent' # agent => agent'.fence = TRUE
    BY <1>1, <1>4, FencedFields
  <2>2. ChainOK'
    BY <2>1, <1>1, <1>4 DEF ProcessOK, ChainOK
  <2>3. StagesOK'
    BY <2>1, <1>2, <1>3 DEF StagesOK, Reporting, ProcessOK
  <2>4. ProcessOK'
    BY <2>1, <2>2, <2>3, <1>4 DEF ProcessOK
  <2>5. SameCommand /\ ReportsGrow
    BY <2>1, <1>4, NothingGrows DEF SameCommand
  <2> QED BY <2>1, <2>4, <2>5
<1>5. ASSUME KeepaliveReports
      PROVE  /\ ProcessOK' /\ SameCommand /\ agent'.stage = agent.stage /\ ReportsGrow
             /\ agent'.fence = agent.fence
  <2>1. CASE agent.fence \/ agent.sequence = MaxSequence
    BY <2>1, <1>4, <1>5 DEF KeepaliveReports
  <2>2. CASE ~(agent.fence \/ agent.sequence = MaxSequence)
    <3>1. keep' = "report" /\ agent' = Numbered(agent) /\ chain' = Queued("keepalive")
      BY <2>2, <1>5 DEF KeepaliveReports
    <3>2. agent.sequence < MaxSequence
      BY <2>2, <1>3, AgentAssumption
    <3>3. /\ agent' \in Process /\ agent'.sequence = agent.sequence + 1 /\ agent'.stage = agent.stage
          /\ agent'.session = agent.session /\ agent'.lease = agent.lease /\ agent'.fence = agent.fence
          /\ agent'.broken = agent.broken /\ agent'.done = agent.done /\ agent'.ends = agent.ends
      BY <3>1, <3>2, <1>1, NumberedFields
    <3>4. /\ chain' \in Seq(Report) /\ ChainOK'
          /\ \A i \in DOMAIN chain': \/ i \in DOMAIN chain /\ chain'[i] = chain[i]
                                     \/ chain'[i].sequence = agent.sequence + 1
      BY <3>1, <3>2, <3>3, <1>1, QueuedChain
    <3>5. StagesOK'
      BY <3>3, <1>2, <1>3 DEF StagesOK, Reporting, ProcessOK
    <3>6. ProcessOK'
      BY <3>1, <3>3, <3>4, <3>5 DEF ProcessOK
    <3>7. SameCommand /\ ReportsGrow
      BY <3>3, <3>4, <1>3 DEF SameCommand, ReportsGrow
    <3> QED BY <3>3, <3>6, <3>7
  <2> QED BY <2>1, <2>2
<1>6. \/ HeartbeatTaken(Session) /\ Heartbeat(Session) /\ Answered /\ KeepaliveReports
      \/ GivenUp({Sends("heartbeat")}) /\ KeepaliveReports
      \/ /\ ~HeartbeatTaken(Session) /\ UNCHANGED server /\ Answered
         /\ agent' = [agent EXCEPT !.fence = TRUE] /\ keep' = "idle" /\ UNCHANGED chain
  BY DEF KeepaliveBeats, Refused
<1>7. agent' = [agent EXCEPT !.fence = TRUE] => agent'.fence = TRUE
  BY <1>1, FencedFields
<1> QED BY <1>1, <1>3, <1>4, <1>5, <1>6, <1>7

LEMMA RuntimeReportsProcess ==
  ASSUME ProcessOK, RuntimeReports
  PROVE  /\ ProcessOK' /\ SameCommand /\ agent'.stage = agent.stage /\ agent.stage = "applying"
         /\ agent'.fence = agent.fence
         /\ agent.lease # None /\ ReportsGrow /\ UNCHANGED <<node, rows, late, journal, effects, faults>>
<1>1. /\ agent \in Process /\ agent.stage = "applying" /\ agent.sequence < MaxSequence
      /\ agent' = Numbered(agent) /\ chain' = Queued("command")
      /\ UNCHANGED <<node, rows, late, keep, journal, effects, faults>>
  BY DEF ProcessOK, RuntimeReports, At, server
<1>2. agent.lease # None /\ agent.sequence \in 0..MaxSequence
  BY <1>1, AgentFields DEF ProcessOK, StagesOK
<1>3. /\ agent' \in Process /\ agent'.sequence = agent.sequence + 1 /\ agent'.stage = agent.stage
      /\ agent'.session = agent.session /\ agent'.lease = agent.lease /\ agent'.fence = agent.fence
      /\ agent'.broken = agent.broken /\ agent'.done = agent.done /\ agent'.ends = agent.ends
  BY <1>1, NumberedFields
<1>4. /\ chain' \in Seq(Report) /\ ChainOK'
      /\ \A i \in DOMAIN chain': \/ i \in DOMAIN chain /\ chain'[i] = chain[i]
                                 \/ chain'[i].sequence = agent.sequence + 1
  BY <1>1, <1>3, QueuedChain
<1>5. StagesOK'
  BY <1>1, <1>2, <1>3 DEF StagesOK, Reporting, ProcessOK
<1>6. ProcessOK'
  BY <1>1, <1>3, <1>4, <1>5 DEF ProcessOK
<1> QED BY <1>1, <1>2, <1>3, <1>4, <1>6 DEF SameCommand, ReportsGrow

LEMMA FinallyProcess ==
  ASSUME ProcessOK, Finally
  PROVE  /\ ProcessOK' /\ At("finally") /\ UNCHANGED <<node, rows, late, chain, journal, effects, faults>>
         /\ agent.lease # None /\ agent'.session = agent.session /\ agent'.broken = agent.broken
         /\ \/ /\ agent.fence \/ agent.ends = "throw"
               /\ agent'.stage = "poll" /\ agent'.lease = None /\ agent'.fence = FALSE /\ agent'.done = FALSE
            \/ /\ SameCommand /\ agent.fence = FALSE /\ agent'.fence = FALSE /\ agent.ends = "send"
               /\ agent'.stage = "sendResult" /\ agent'.sequence = agent.sequence
<1>1. /\ agent \in Process /\ agent.stage = "finally" /\ keep' = "off" /\ chain = <<>>
      /\ UNCHANGED <<node, rows, late, chain, journal, effects, faults>>
  BY DEF ProcessOK, Finally, At, server
<1>2. agent.lease # None /\ agent.fence \in BOOLEAN /\ agent.ends \in {"send", "throw"}
  BY <1>1, AgentFields DEF ProcessOK, StagesOK
<1>3. CASE agent.fence \/ agent.ends = "throw"
  <2>1. agent' = Poll(agent)
    BY <1>3 DEF Finally, PollAgain
  <2>2. ProcessOK'
    BY <2>1, <1>1, PollsAgain
  <2> QED BY <2>1, <2>2, <1>1, <1>2, <1>3, PollFields DEF At
<1>4. CASE ~(agent.fence \/ agent.ends = "throw")
  <2>1. agent' = [agent EXCEPT !.stage = "sendResult"]
    BY <1>4 DEF Finally, To
  <2>2. /\ agent' \in Process /\ agent'.stage = "sendResult"
        /\ agent'.session = agent.session /\ agent'.lease = agent.lease /\ agent'.fence = agent.fence
        /\ agent'.sequence = agent.sequence /\ agent'.broken = agent.broken /\ agent'.done = agent.done
        /\ agent'.ends = agent.ends
    <3>1. "sendResult" \in Stages
      BY DEF Stages
    <3> QED BY <3>1, <2>1, <1>1, StageFields
  <2>3. chain' \in Seq(Report) /\ DOMAIN chain' = {}
    BY <1>1, EmptySeq, LenProperties
  <2>4. StagesOK' /\ ChainOK'
    BY <2>2, <2>3, <1>1, <1>2 DEF StagesOK, ChainOK, Reporting
  <2>5. ProcessOK'
    BY <2>2, <2>3, <2>4, <1>1 DEF ProcessOK
  <2>6. SameCommand
    BY <2>2 DEF SameCommand
  <2> QED BY <2>2, <2>5, <2>6, <1>1, <1>2, <1>4 DEF At
<1> QED BY <1>3, <1>4

LEMMA SendResultProcess ==
  ASSUME ProcessOK, SendResult
  PROVE  /\ ProcessOK' /\ At("sendResult") /\ agent.lease # None /\ UNCHANGED <<keep, chain, journal, effects>>
         /\ agent'.stage = "poll" /\ agent'.lease = None /\ agent'.session = agent.session
         /\ agent'.broken = agent.broken /\ agent'.fence = FALSE /\ agent'.done = FALSE
         /\ \/ ResultTaken(Session, Lse) /\ Result(Lse, Logged.result) /\ Answered
            \/ ~ResultTaken(Session, Lse) /\ UNCHANGED server /\ Answered
            \/ GivenUp({SendsResult(Lse, Logged.result)})
<1>1. /\ agent \in Process /\ agent.stage = "sendResult" /\ UNCHANGED <<keep, chain, journal, effects>>
      /\ agent' = Poll(agent)
      /\ \/ ResultTaken(Session, Lse) /\ Result(Lse, Logged.result) /\ Answered
         \/ ~ResultTaken(Session, Lse) /\ UNCHANGED server /\ Answered
         \/ GivenUp({SendsResult(Lse, Logged.result)})
  BY DEF ProcessOK, SendResult, At, PollAgain, ResultLease, Refused
<1>2. Quiet /\ agent.lease # None
  BY <1>1, IdleQuiet DEF ProcessOK, StagesOK, Reporting
<1>3. ProcessOK'
  BY <1>1, <1>2, PollsAgain DEF Quiet
<1> QED BY <1>1, <1>2, <1>3, PollFields DEF At

LEMMA CrashProcess ==
  ASSUME ProcessOK, Crash
  PROVE  /\ ProcessOK' /\ ~At("down") /\ UNCHANGED <<node, rows, late, journal, effects>> /\ faults < MaxFaults
         /\ faults' = faults + 1 /\ Session < MaxSessions
         /\ agent'.stage = "down" /\ agent'.lease = None /\ agent'.session = agent.session
         /\ agent'.broken = agent.broken /\ agent'.fence = FALSE /\ agent'.done = FALSE
<1>1. /\ agent \in Process /\ ~At("down") /\ UNCHANGED <<node, rows, late, journal, effects>>
      /\ agent' = [Poll(agent) EXCEPT !.stage = "down"] /\ keep' = "off" /\ chain' = <<>>
      /\ faults' = faults + 1 /\ Session < MaxSessions /\ faults < MaxFaults
  BY DEF ProcessOK, Crash, server
<1>2. "down" \in Stages
  BY DEF Stages
<1>3. /\ Poll(agent) \in Process
      /\ Poll(agent).lease = None /\ Poll(agent).fence = FALSE /\ Poll(agent).sequence = 0
      /\ Poll(agent).done = FALSE /\ Poll(agent).session = agent.session /\ Poll(agent).broken = agent.broken
  BY <1>1, PollFields
<1>4. /\ agent' \in Process /\ agent'.stage = "down"
      /\ agent'.lease = None /\ agent'.fence = FALSE /\ agent'.sequence = 0
      /\ agent'.done = FALSE /\ agent'.session = agent.session /\ agent'.broken = agent.broken
  BY <1>1, <1>2, <1>3, StageFields
<1>5. chain' \in Seq(Report) /\ DOMAIN chain' = {}
  BY <1>1, EmptySeq, LenProperties
<1>6. StagesOK' /\ ChainOK'
  BY <1>1, <1>4, <1>5 DEF StagesOK, ChainOK, Reporting
<1> QED BY <1>1, <1>4, <1>5, <1>6 DEF ProcessOK

LEMMA StartProcess ==
  ASSUME ProcessOK, SessionsOK, Start
  PROVE  /\ ProcessOK' /\ At("down") /\ UNCHANGED <<node, rows, late, journal, effects, faults>>
         /\ agent.lease = None /\ agent'.lease = None /\ agent'.stage = "poll"
         /\ agent'.session = agent.session + 1 /\ agent'.session \in Sessions
         /\ agent'.fence = FALSE /\ agent'.done = FALSE /\ agent'.broken = FALSE
<1>1. /\ agent \in Process /\ agent.stage = "down" /\ UNCHANGED <<node, rows, late, keep, chain, journal, effects, faults>>
      /\ agent' = [agent EXCEPT !.stage = "poll", !.session = @ + 1, !.due = TRUE, !.broken = FALSE]
  BY DEF ProcessOK, Start, At, server
<1>2. Quiet /\ agent.lease = None /\ agent.fence = FALSE /\ agent.sequence = 0 /\ agent.done = FALSE
  BY <1>1, IdleQuiet, AgentFields DEF Reporting, ProcessOK, StagesOK
<1>3. agent.session + 1 \in Sessions /\ agent.session + 1 \in 0..MaxSessions
  <2>1. agent.session \in 0..MaxSessions
    BY <1>1, AgentFields
  <2>2. agent.session < MaxSessions
    BY <1>1 DEF SessionsOK, At, Session
  <2> QED BY <2>1, <2>2, AgentAssumption DEF Sessions
<1>4. agent' \in Process
  BY <1>1, <1>3 DEF Process, Stages
<1>5. /\ agent'.stage = "poll" /\ agent'.session = agent.session + 1 /\ agent'.broken = FALSE
      /\ agent'.lease = agent.lease /\ agent'.fence = agent.fence /\ agent'.sequence = agent.sequence
      /\ agent'.done = agent.done
  BY <1>1 DEF Process
<1>6. StagesOK' /\ ChainOK'
  BY <1>1, <1>2, <1>5 DEF StagesOK, ChainOK, ProcessOK, Reporting, Quiet
<1>7. ProcessOK'
  BY <1>1, <1>4, <1>6 DEF ProcessOK
<1> QED BY <1>1, <1>2, <1>3, <1>5, <1>7 DEF At

-----------------------------------------------------------------------------
(* The records *)

IdOf(l) == [op |-> l.op, id |-> l.id]

JournalOK ==
  \A i \in Ids:
    /\ journal[i].effect => i \in effects
    /\ journal[i].result = "succeeded" => i \in effects
    /\ journal[i].result # None => journal[i].receipt

\* What the journal says of the command in hand at each point of a poll: a result
\* is written over none, an effect over none, and both after the receipt.
LoggedOK ==
  /\ agent.lease # None /\ ~At("receipt") => Logged.receipt
  /\ agent.stage \in {"applying", "recordEffect", "recordResult", "recordFailed"} => Logged.result = None
  /\ At("applying") => ~Logged.effect
  /\ agent.done => Id \in effects
  /\ agent.stage \in {"recordEffect", "recordResult"} => Id \in effects
  /\ At("sendResult") \/ (At("finally") /\ agent.ends = "send") => Logged.result # None

RecordsOK ==
  /\ journal \in [Ids -> Entry] /\ effects \subseteq Ids
  /\ JournalOK /\ LoggedOK

\* A result that is recorded stays; one that is new was written by a process that
\* has a command in hand and a journal that is whole.
RecordsMoveOn ==
  /\ effects \subseteq effects'
  /\ \A i \in Ids:
       /\ journal[i].result # None => journal'[i].result = journal[i].result
       /\ journal'[i].result # journal[i].result => agent.lease # None /\ ~agent.broken

LEMMA IdIsOne ==
  ASSUME ProcessOK, agent.lease # None
  PROVE  agent.lease \in Lease /\ Id \in Ids /\ Id = IdOf(Lse)
<1>1. agent.lease \in Lease
  BY AgentFields DEF ProcessOK
<1> QED BY <1>1 DEF Lease, Id, Lse, Ids, IdOf

LEMMA EntryFields ==
  ASSUME RecordsOK, NEW i \in Ids
  PROVE  /\ journal[i] \in Entry /\ journal[i].receipt \in BOOLEAN /\ journal[i].effect \in BOOLEAN
         /\ journal[i].result \in Outcomes \cup {None}
BY DEF RecordsOK, Entry

LEMMA RecordsStay ==
  ASSUME RecordsOK, UNCHANGED <<journal, effects>>, LoggedOK'
  PROVE  RecordsOK' /\ RecordsMoveOn
<1>1. JournalOK'
  BY DEF RecordsOK, JournalOK
<1> QED BY <1>1 DEF RecordsOK, RecordsMoveOn

LEMMA LoggedIdle ==
  ASSUME RecordsOK, agent'.lease = None, agent'.stage \in {"poll", "claim", "observe", "down"}, agent'.done = FALSE
  PROVE  LoggedOK'
BY DEF LoggedOK, At, Lse

LEMMA LoggedSame ==
  ASSUME RecordsOK, UNCHANGED <<journal, effects>>, SameCommand, agent'.stage = agent.stage
  PROVE  LoggedOK'
BY DEF RecordsOK, LoggedOK, SameCommand, At, Logged, Id, Lse

\* An entry of the command in hand is written.
LEMMA RecordsWritten ==
  ASSUME ProcessOK, RecordsOK, agent.lease # None, ~agent.broken, agent'.lease = agent.lease,
         NEW e \in Entry, journal' = [journal EXCEPT ![Id] = e], UNCHANGED effects,
         e.effect => Id \in effects, e.result = "succeeded" => Id \in effects,
         e.result # None => e.receipt,
         e.result = Logged.result \/ Logged.result = None
  PROVE  /\ journal' \in [Ids -> Entry] /\ JournalOK' /\ RecordsMoveOn /\ Logged' = e /\ Id' = Id
<1>1. Id \in Ids
  BY IdIsOne
<1>2. journal' \in [Ids -> Entry] /\ journal'[Id] = e /\ \A i \in Ids \ {Id}: journal'[i] = journal[i]
  BY <1>1 DEF RecordsOK
<1>3. Id' = Id
  BY DEF Id, Lse
<1>4. JournalOK'
  BY <1>2 DEF RecordsOK, JournalOK
<1>5. RecordsMoveOn
  <2> SUFFICES ASSUME NEW i \in Ids
               PROVE  /\ journal[i].result # None => journal'[i].result = journal[i].result
                      /\ journal'[i].result # journal[i].result => agent.lease # None /\ ~agent.broken
    BY DEF RecordsMoveOn
  <2>1. CASE i = Id
    BY <2>1, <1>2 DEF Logged
  <2>2. CASE i # Id
    BY <2>2, <1>2
  <2> QED BY <2>1, <2>2
<1>6. Logged' = e
  BY <1>2, <1>3 DEF Logged
<1> QED BY <1>2, <1>3, <1>4, <1>5, <1>6

LEMMA RecordReceiptRecords ==
  ASSUME ProcessOK, RecordsOK, faults \in 0..MaxFaults, RecordReceipt
  PROVE  RecordsOK' /\ RecordsMoveOn
<1>1. /\ UNCHANGED effects /\ agent.lease # None /\ agent'.done = FALSE
      /\ \/ /\ SameCommand /\ agent'.stage = "sendReceipt"
            /\ \/ Logged.receipt /\ journal' = journal
               \/ /\ ~Logged.receipt /\ ~agent.broken
                  /\ journal' = [journal EXCEPT ![Id] = [Logged EXCEPT !.receipt = TRUE]]
         \/ ~Logged.receipt /\ journal' = journal /\ agent'.stage = "poll" /\ agent'.lease = None
  BY RecordReceiptProcess
<1>2. CASE journal' = journal /\ agent'.stage = "poll" /\ agent'.lease = None
  <2>1. LoggedOK'
    BY <1>1, <1>2, LoggedIdle
  <2> QED BY <2>1, <1>1, <1>2, RecordsStay
<1>3. CASE SameCommand /\ agent'.stage = "sendReceipt" /\ Logged.receipt /\ journal' = journal
  <2>1. Id' = Id /\ Logged' = Logged
    BY <1>3 DEF SameCommand, Id, Lse, Logged
  <2>2. LoggedOK'
    BY <2>1, <1>1, <1>3 DEF LoggedOK, At
  <2> QED BY <2>2, <1>1, <1>3, RecordsStay
<1>4. CASE /\ SameCommand /\ agent'.stage = "sendReceipt" /\ ~agent.broken
           /\ journal' = [journal EXCEPT ![Id] = [Logged EXCEPT !.receipt = TRUE]]
  <2> DEFINE e == [Logged EXCEPT !.receipt = TRUE]
  <2>1. Id \in Ids
    BY <1>1, IdIsOne
  <2>2. Logged \in Entry
    BY <2>1, EntryFields DEF Logged
  <2>3. e \in Entry /\ e.receipt = TRUE /\ e.effect = Logged.effect /\ e.result = Logged.result
    BY <2>2 DEF Entry
  <2>4. (Logged.effect => Id \in effects) /\ (Logged.result = "succeeded" => Id \in effects)
    BY <2>1 DEF RecordsOK, JournalOK, Logged
  <2> HIDE DEF e
  <2>5. /\ journal' \in [Ids -> Entry] /\ JournalOK' /\ RecordsMoveOn /\ Logged' = e
    BY <2>3, <2>4, <1>1, <1>4, RecordsWritten DEF SameCommand, e
  <2>6. LoggedOK'
    BY <2>3, <2>5, <1>1, <1>4 DEF LoggedOK, At
  <2> QED BY <2>5, <2>6, <1>1 DEF RecordsOK
<1> QED BY <1>1, <1>2, <1>3, <1>4

LEMMA WorkHasLease ==
  ASSUME ProcessOK, WorkMoves
  PROVE  /\ agent.lease # None /\ Id \in Ids /\ Id' = Id /\ agent.stage \in Reporting /\ agent'.stage \in Reporting
         /\ agent'.lease = agent.lease
<1>1. agent.stage \in Reporting /\ agent'.lease = agent.lease /\ agent'.stage \in Reporting
  BY DEF WorkMoves
<1>2. agent.lease # None
  BY <1>1 DEF ProcessOK, StagesOK, Reporting
<1>3. Id' = Id
  BY <1>1 DEF Id, Lse
<1> QED BY <1>1, <1>2, <1>3, IdIsOne

\* The work of a command, without a record: the journal stays, effects may grow.
LEMMA WorkUnrecorded ==
  ASSUME ProcessOK, RecordsOK, WorkMoves, journal' = journal, effects \subseteq effects', effects' \subseteq Ids,
         agent'.stage \in {"applying", "recordEffect", "recordFailed"} => Logged.result = None,
         agent'.stage # "recordResult",
         agent'.stage = "applying" => ~Logged.effect,
         agent'.done => Id \in effects',
         agent'.stage = "recordEffect" => Id \in effects',
         agent'.stage = "finally" /\ agent'.ends = "send" => Logged.result # None
  PROVE  RecordsOK' /\ RecordsMoveOn
<1>1. /\ agent.lease # None /\ Id' = Id /\ agent.stage \in Reporting /\ agent'.stage \in Reporting
      /\ agent'.lease = agent.lease
  BY WorkHasLease
<1>2. Logged' = Logged
  BY <1>1 DEF Logged
<1>3. Logged.receipt
  BY <1>1 DEF RecordsOK, LoggedOK, At, Reporting
<1>4. LoggedOK'
  BY <1>1, <1>2, <1>3 DEF LoggedOK, At, Reporting
<1>5. JournalOK'
  BY DEF RecordsOK, JournalOK
<1> QED BY <1>4, <1>5 DEF RecordsOK, RecordsMoveOn

LEMMA StartWorkRecords ==
  ASSUME ProcessOK, RecordsOK, faults \in 0..MaxFaults, StartWork
  PROVE  RecordsOK' /\ RecordsMoveOn
<1>1. /\ WorkMoves /\ At("work") /\ UNCHANGED <<journal, effects, faults>> /\ agent'.done = agent.done
      /\ \/ Logged.result # None /\ agent'.stage = "finally" /\ agent'.ends = "send"
         \/ Logged.result = None /\ Logged.effect /\ agent'.stage = "recordEffect"
         \/ Logged.result = None /\ ~Logged.effect /\ agent'.stage = "applying"
  BY StartWorkMoves
<1>2. Id \in Ids
  BY <1>1, WorkHasLease
<1>3. Logged.effect => Id \in effects
  BY <1>2 DEF RecordsOK, JournalOK, Logged
<1>4. agent'.done => Id \in effects
  BY <1>1 DEF RecordsOK, LoggedOK
<1>5. effects \subseteq Ids
  BY DEF RecordsOK
<1> QED BY <1>1, <1>3, <1>4, <1>5, WorkUnrecorded

LEMMA RuntimeWorksRecords ==
  ASSUME ProcessOK, RecordsOK, faults \in 0..MaxFaults, RuntimeWorks
  PROVE  RecordsOK' /\ RecordsMoveOn
<1>1. /\ WorkMoves /\ At("applying") /\ UNCHANGED <<journal, faults>>
      /\ agent'.stage = "applying" /\ effects' = effects \cup {Id}
  BY RuntimeWorksMoves
<1>2. Id \in Ids /\ effects \subseteq Ids
  BY <1>1, WorkHasLease DEF RecordsOK
<1>3. Logged.result = None /\ ~Logged.effect
  BY <1>1 DEF RecordsOK, LoggedOK, At
<1> QED BY <1>1, <1>2, <1>3, WorkUnrecorded

LEMMA ApplyReturnsRecords ==
  ASSUME ProcessOK, RecordsOK, faults \in 0..MaxFaults, ApplyReturns
  PROVE  RecordsOK' /\ RecordsMoveOn
<1>1. /\ WorkMoves /\ At("applying") /\ agent.done /\ UNCHANGED <<journal, effects, faults>>
      /\ \/ agent'.stage = "finally" /\ agent'.ends = "throw"
         \/ agent'.stage = "recordEffect"
  BY ApplyReturnsMoves
<1>2. Logged.result = None /\ Id \in effects /\ effects \subseteq Ids
  BY <1>1 DEF RecordsOK, LoggedOK, At
<1> QED BY <1>1, <1>2, WorkUnrecorded

LEMMA ApplyThrowsRecords ==
  ASSUME ProcessOK, RecordsOK, faults \in 0..MaxFaults, ApplyThrows
  PROVE  RecordsOK' /\ RecordsMoveOn
<1>1. /\ WorkMoves /\ At("applying") /\ UNCHANGED <<journal, effects>> /\ agent'.done = agent.done
      /\ \/ agent'.stage = "finally" /\ agent'.ends = "throw"
         \/ agent'.stage = "recordFailed"
  BY ApplyThrowsMoves
<1>2. Logged.result = None /\ (agent'.done => Id \in effects) /\ effects \subseteq Ids
  BY <1>1 DEF RecordsOK, LoggedOK, At
<1> QED BY <1>1, <1>2, WorkUnrecorded

LEMMA RecordEffectRecords ==
  ASSUME ProcessOK, RecordsOK, faults \in 0..MaxFaults, RecordEffect
  PROVE  RecordsOK' /\ RecordsMoveOn
<1>1. /\ WorkMoves /\ At("recordEffect") /\ UNCHANGED effects /\ agent'.done = agent.done
      /\ \/ journal' = journal /\ agent'.stage = "finally" /\ agent'.ends = "throw"
         \/ /\ journal' = [journal EXCEPT ![Id] = [Logged EXCEPT !.effect = TRUE]] /\ ~agent.broken
            /\ agent'.stage = "recordResult"
         \/ journal' = journal /\ agent'.stage = "recordFailed"
  BY RecordEffectMoves
<1>2. Logged.result = None /\ Id \in effects /\ effects \subseteq Ids /\ (agent'.done => Id \in effects)
  BY <1>1 DEF RecordsOK, LoggedOK, At
<1>3. CASE journal' = journal /\ agent'.stage = "finally" /\ agent'.ends = "throw"
  BY <1>1, <1>2, <1>3, WorkUnrecorded
<1>4. CASE journal' = journal /\ agent'.stage = "recordFailed"
  BY <1>1, <1>2, <1>4, WorkUnrecorded
<1>5. CASE /\ journal' = [journal EXCEPT ![Id] = [Logged EXCEPT !.effect = TRUE]] /\ ~agent.broken
           /\ agent'.stage = "recordResult"
  <2> DEFINE e == [Logged EXCEPT !.effect = TRUE]
  <2>1. /\ agent.lease # None /\ Id \in Ids /\ Id' = Id /\ agent.stage \in Reporting
        /\ agent'.lease = agent.lease
    BY <1>1, WorkHasLease
  <2>2. Logged \in Entry /\ Logged.receipt
    BY <2>1, EntryFields DEF Logged, RecordsOK, LoggedOK, At, Reporting
  <2>3. e \in Entry /\ e.receipt = Logged.receipt /\ e.effect = TRUE /\ e.result = Logged.result
    BY <2>2 DEF Entry
  <2> HIDE DEF e
  <2>4. /\ journal' \in [Ids -> Entry] /\ JournalOK' /\ RecordsMoveOn /\ Logged' = e
    BY <2>1, <2>2, <2>3, <1>1, <1>2, <1>5, NoneAssumption, RecordsWritten DEF e
  <2>5. Logged'.receipt /\ Logged'.result = None
    BY <2>2, <2>3, <2>4, <1>2
  <2>6. LoggedOK'
    BY <2>1, <2>5, <1>1, <1>2, <1>5 DEF LoggedOK, At
  <2> QED BY <2>4, <2>6, <1>1, <1>2 DEF RecordsOK
<1> QED BY <1>1, <1>3, <1>4, <1>5

LEMMA ResultWritten ==
  ASSUME ProcessOK, RecordsOK, WorkMoves, ~agent.broken, UNCHANGED effects, Logged.result = None,
         agent'.done => Id \in effects, agent'.stage = "finally",
         NEW x \in Outcomes, x = "succeeded" => Id \in effects,
         journal' = [journal EXCEPT ![Id] = [Logged EXCEPT !.result = x]]
  PROVE  RecordsOK' /\ RecordsMoveOn
<1> DEFINE e == [Logged EXCEPT !.result = x]
<1>1. /\ agent.lease # None /\ Id \in Ids /\ Id' = Id /\ agent.stage \in Reporting
      /\ agent'.lease = agent.lease
  BY WorkHasLease
<1>2. Logged \in Entry /\ Logged.receipt /\ (Logged.effect => Id \in effects)
  BY <1>1, EntryFields DEF Logged, RecordsOK, LoggedOK, JournalOK, At, Reporting
<1>3. e \in Entry /\ e.receipt = Logged.receipt /\ e.effect = Logged.effect /\ e.result = x
  BY <1>2 DEF Entry
<1> HIDE DEF e
<1>4. /\ journal' \in [Ids -> Entry] /\ JournalOK' /\ RecordsMoveOn /\ Logged' = e
  BY <1>1, <1>2, <1>3, RecordsWritten DEF e
<1>5. Logged'.receipt /\ Logged'.result # None
  BY <1>2, <1>3, <1>4, NoneAssumption
<1>6. LoggedOK'
  BY <1>1, <1>5 DEF LoggedOK, At
<1> QED BY <1>4, <1>6 DEF RecordsOK

LEMMA RecordResultRecords ==
  ASSUME ProcessOK, RecordsOK, faults \in 0..MaxFaults, RecordResult
  PROVE  RecordsOK' /\ RecordsMoveOn
<1>1. /\ WorkMoves /\ At("recordResult") /\ UNCHANGED effects /\ agent'.done = agent.done
      /\ \/ journal' = journal /\ agent'.stage = "finally" /\ agent'.ends = "throw"
         \/ /\ journal' = [journal EXCEPT ![Id] = [Logged EXCEPT !.result = "succeeded"]] /\ ~agent.broken
            /\ agent'.stage = "finally" /\ agent'.ends = "send"
         \/ journal' = journal /\ agent'.stage = "recordFailed"
  BY RecordResultMoves
<1>2. Logged.result = None /\ Id \in effects /\ effects \subseteq Ids /\ (agent'.done => Id \in effects)
  BY <1>1 DEF RecordsOK, LoggedOK, At
<1>3. CASE journal' = journal /\ agent'.stage = "finally" /\ agent'.ends = "throw"
  BY <1>1, <1>2, <1>3, WorkUnrecorded
<1>4. CASE journal' = journal /\ agent'.stage = "recordFailed"
  BY <1>1, <1>2, <1>4, WorkUnrecorded
<1>5. CASE /\ journal' = [journal EXCEPT ![Id] = [Logged EXCEPT !.result = "succeeded"]] /\ ~agent.broken
           /\ agent'.stage = "finally"
  <2>1. "succeeded" \in Outcomes
    BY DEF Outcomes
  <2> QED BY <2>1, <1>1, <1>2, <1>5, ResultWritten
<1> QED BY <1>1, <1>3, <1>4, <1>5

LEMMA RecordFailedRecords ==
  ASSUME ProcessOK, RecordsOK, faults \in 0..MaxFaults, RecordFailed
  PROVE  RecordsOK' /\ RecordsMoveOn
<1>1. /\ WorkMoves /\ At("recordFailed") /\ UNCHANGED effects /\ agent'.done = agent.done
      /\ \/ /\ journal' = [journal EXCEPT ![Id] = [Logged EXCEPT !.result = "failed"]] /\ ~agent.broken
            /\ agent'.stage = "finally" /\ agent'.ends = "send"
         \/ journal' = journal /\ agent'.stage = "finally" /\ agent'.ends = "throw"
  BY RecordFailedMoves
<1>2. Logged.result = None /\ effects \subseteq Ids /\ (agent'.done => Id \in effects)
  BY <1>1 DEF RecordsOK, LoggedOK, At
<1>3. CASE journal' = journal /\ agent'.stage = "finally" /\ agent'.ends = "throw"
  BY <1>1, <1>2, <1>3, WorkUnrecorded
<1>4. CASE /\ journal' = [journal EXCEPT ![Id] = [Logged EXCEPT !.result = "failed"]] /\ ~agent.broken
           /\ agent'.stage = "finally"
  <2>1. "failed" \in Outcomes /\ "failed" # "succeeded"
    BY DEF Outcomes
  <2> QED BY <2>1, <1>1, <1>2, <1>4, ResultWritten
<1> QED BY <1>1, <1>3, <1>4

-----------------------------------------------------------------------------
(* What a step may do, whichever it is *)

Basics == ServerOK /\ SessionsOK /\ ProcessOK /\ RecordsOK /\ faults \in 0..MaxFaults

\* A request that is new among the late ones was sent by the process just now.
LateMoves ==
  \A r \in late' \ late:
    \/ r.type \in {"heartbeat", "claim"}
    \/ r.type = "progress" /\ agent.lease # None /\ r.lease = Lse /\ agent'.lease = agent.lease /\ agent'.fence
    \/ r.type = "result" /\ agent.lease # None /\ r.lease = Lse
         /\ Logged.result \in Outcomes /\ r.outcome = Logged.result

\* A lease that is new in hand was made by a claim just now.
NewLease ==
  /\ agent.lease = None /\ agent'.lease \in Lease /\ late' = late
  /\ LET l == agent'.lease IN
       /\ rows[l.op].status \in Live /\ rows[l.op].attempts < l.attempt
       /\ rows'[l.op].id = l.id /\ rows'[l.op].epoch = l.epoch /\ rows'[l.op].attempts = l.attempt
       /\ rows[l.op].id = l.id /\ rows'[l.op].sequence = 0 /\ rows'[l.op].status = "leased"
       /\ node'.session = agent'.session /\ node'.epoch = l.epoch

LeaseMoves ==
  \/ agent'.lease = None
  \/ agent'.lease = agent.lease /\ (agent.fence => agent'.fence)
  \/ NewLease

Moves == Basics' /\ RowsMoveOn /\ RecordsMoveOn /\ LateMoves /\ LeaseMoves

LEMMA SendsTypes ==
  ASSUME Session \in Sessions
  PROVE  /\ \A type \in {"heartbeat", "claim"}:
              Sends(type) \in Requests /\ Sends(type).session = Session /\ Sends(type).type = type
         /\ \A l \in Lease, q \in 1..MaxSequence:
              /\ SendsProgress(l, q) \in Requests /\ SendsProgress(l, q).session = Session
              /\ SendsProgress(l, q).type = "progress" /\ SendsProgress(l, q).lease = l
         /\ \A l \in Lease, o \in Outcomes:
              /\ SendsResult(l, o) \in Requests /\ SendsResult(l, o).session = Session
              /\ SendsResult(l, o).type = "result" /\ SendsResult(l, o).lease = l /\ SendsResult(l, o).outcome = o
<1>1. ASSUME NEW type \in {"heartbeat", "claim"}
      PROVE  Sends(type) \in Requests /\ Sends(type).session = Session /\ Sends(type).type = type
  BY DEF Sends, Requests
<1>2. ASSUME NEW l \in Lease, NEW q \in 1..MaxSequence
      PROVE  /\ SendsProgress(l, q) \in Requests /\ SendsProgress(l, q).session = Session
             /\ SendsProgress(l, q).type = "progress" /\ SendsProgress(l, q).lease = l
  BY DEF SendsProgress, Requests
<1>3. ASSUME NEW l \in Lease, NEW o \in Outcomes
      PROVE  /\ SendsResult(l, o) \in Requests /\ SendsResult(l, o).session = Session
             /\ SendsResult(l, o).type = "result" /\ SendsResult(l, o).lease = l /\ SendsResult(l, o).outcome = o
  BY DEF SendsResult, Requests
<1> QED BY <1>1, <1>2, <1>3

LEMMA GivenUpMoves ==
  ASSUME faults \in 0..MaxFaults, NEW R, GivenUp(R)
  PROVE  /\ UNCHANGED <<node, rows>> /\ UNCHANGED server /\ late' = late \cup R
         /\ faults' = faults + 1 /\ faults' \in 0..MaxFaults
<1>1. faults < MaxFaults /\ faults' = faults + 1 /\ late' = late \cup R /\ UNCHANGED server
  BY DEF GivenUp
<1>2. faults + 1 \in 0..MaxFaults
  BY <1>1, AgentAssumption
<1> QED BY <1>1, <1>2 DEF server

LEMMA SessionIs ==
  ASSUME ProcessOK, SessionsOK
  PROVE  Session \in 0..MaxSessions /\ Session <= Session /\ (~At("down") => Session \in Sessions)
<1>1. agent.session \in 0..MaxSessions
  BY AgentFields DEF ProcessOK
<1> QED BY <1>1, AgentAssumption DEF Session, SessionsOK

\* The process that runs stays the same.
LEMMA SessionsKept ==
  ASSUME ServerOK, ProcessOK, SessionsOK, agent'.session = agent.session, ~At("down"),
         agent'.stage # "down" \/ Session < MaxSessions,
         late' \subseteq Requests, \A r \in late' \ late: r.session = Session,
         node'.session \in {node.session, Session}, agent'.lease \in {agent.lease, None},
         node'.retired = {} => node.retired = {}
  PROVE  SessionsOK'
<1>1. Session' = Session /\ Session \in Sessions /\ Session <= Session
  BY SessionIs DEF Session
<1>2. \A r \in late': r.session <= Session'
  BY <1>1 DEF SessionsOK
<1>3. node'.session # None => node'.session <= Session'
  BY <1>1 DEF SessionsOK
<1>4. agent'.lease # None /\ node'.retired = {} => node'.session = Session'
  BY <1>1 DEF SessionsOK
<1>5. IF agent'.stage = "down" THEN Session' < MaxSessions ELSE Session' \in Sessions
  BY <1>1
<1> QED BY <1>2, <1>3, <1>4, <1>5 DEF SessionsOK, At

LEMMA WorkMovesOn ==
  ASSUME Basics, WorkMoves, RecordsOK', RecordsMoveOn
  PROVE  Moves
<1>1. /\ agent.stage \in Reporting /\ agent'.stage \in Reporting /\ UNCHANGED <<node, rows, late>>
      /\ agent'.session = agent.session /\ agent'.lease = agent.lease /\ agent'.fence = agent.fence
      /\ faults' \in {faults, faults + 1} /\ faults' <= MaxFaults
  BY DEF WorkMoves
<1>2. ~At("down") /\ agent'.stage # "down"
  BY <1>1 DEF At, Reporting
<1>3. ProcessOK'
  BY WorkProcess DEF Basics
<1>4. SessionsOK'
  BY <1>1, <1>2, SessionsKept DEF Basics, SessionsOK
<1>5. ServerOK' /\ RowsMoveOn
  BY <1>1, ServerUnchanged DEF Basics, server
<1>6. faults' \in 0..MaxFaults
  BY <1>1, AgentAssumption DEF Basics
<1> QED BY <1>1, <1>3, <1>4, <1>5, <1>6 DEF Moves, Basics, LateMoves, LeaseMoves

\* A heartbeat of the process itself, whichever answer it gets.
LEMMA BeatMoves ==
  ASSUME Basics, ~At("down"), agent'.session = agent.session, agent'.stage # "down",
         agent'.lease = agent.lease \/ agent'.lease = None,
         agent'.lease = None \/ (agent.fence => agent'.fence),
         \/ HeartbeatTaken(Session) /\ Heartbeat(Session) /\ Answered
         \/ UNCHANGED server /\ Answered
         \/ GivenUp({Sends("heartbeat")})
  PROVE  ServerOK' /\ RowsMoveOn /\ SessionsOK' /\ faults' \in 0..MaxFaults /\ LateMoves /\ LeaseMoves
<1>1. Session \in Sessions
  BY SessionIs DEF Basics
<1>2. LeaseMoves
  BY DEF LeaseMoves
<1>3. CASE HeartbeatTaken(Session) /\ Heartbeat(Session) /\ Answered
  <2>1. /\ ServerOK' /\ RowsMoveOn /\ node'.session = Session
        /\ node'.retired = {} => node.retired = {}
    BY <1>1, <1>3, HeartbeatServer DEF Basics
  <2>2. late' = late /\ faults' = faults
    BY <1>3 DEF Answered
  <2>3. SessionsOK'
    BY <2>1, <2>2, SessionsKept DEF Basics, SessionsOK
  <2> QED BY <2>1, <2>2, <2>3, <1>2 DEF LateMoves, Basics
<1>4. CASE UNCHANGED server /\ Answered
  <2>1. ServerOK' /\ RowsMoveOn /\ node' = node
    BY <1>4, ServerUnchanged DEF Basics, server
  <2>2. late' = late /\ faults' = faults
    BY <1>4 DEF Answered
  <2>3. SessionsOK'
    BY <2>1, <2>2, SessionsKept DEF Basics, SessionsOK
  <2> QED BY <2>1, <2>2, <2>3, <1>2 DEF LateMoves, Basics
<1>5. CASE GivenUp({Sends("heartbeat")})
  <2>1. UNCHANGED server /\ late' = late \cup {Sends("heartbeat")} /\ faults' \in 0..MaxFaults
    BY <1>5, GivenUpMoves DEF Basics
  <2>2. ServerOK' /\ RowsMoveOn /\ node' = node
    BY <2>1, ServerUnchanged DEF Basics, server
  <2>3. Sends("heartbeat") \in Requests /\ Sends("heartbeat").session = Session /\ Sends("heartbeat").type = "heartbeat"
    BY <1>1, SendsTypes
  <2>4. late' \subseteq Requests /\ \A r \in late' \ late: r = Sends("heartbeat")
    BY <2>1, <2>3 DEF Basics, SessionsOK
  <2>5. SessionsOK'
    BY <2>2, <2>3, <2>4, SessionsKept DEF Basics
  <2> QED BY <2>1, <2>2, <2>3, <2>4, <2>5, <1>2 DEF LateMoves
<1> QED BY <1>3, <1>4, <1>5

\* The same for the steps that leave the control plane as it is.
LEMMA LocalMoves ==
  ASSUME Basics, ~At("down"), agent'.session = agent.session, agent'.stage # "down",
         agent'.lease = agent.lease \/ agent'.lease = None,
         agent'.lease = None \/ (agent.fence => agent'.fence),
         UNCHANGED <<node, rows>>, late' = late, faults' \in 0..MaxFaults
  PROVE  ServerOK' /\ RowsMoveOn /\ SessionsOK' /\ LateMoves /\ LeaseMoves
<1>1. ServerOK' /\ RowsMoveOn
  BY ServerUnchanged DEF Basics, server
<1>2. SessionsOK'
  BY SessionsKept DEF Basics, SessionsOK
<1> QED BY <1>1, <1>2 DEF LateMoves, LeaseMoves

LEMMA PollHeartbeatMoves ==
  ASSUME Basics, PollHeartbeat
  PROVE  Moves
<1>1. ProcessOK' /\ IdleMoves
  BY PollHeartbeatProcess DEF Basics
<1>2. \/ HeartbeatTaken(Session) /\ Heartbeat(Session) /\ Answered
      \/ UNCHANGED server /\ Answered
      \/ GivenUp({Sends("heartbeat")})
  BY DEF PollHeartbeat, Refused
<1>3. ServerOK' /\ RowsMoveOn /\ SessionsOK' /\ faults' \in 0..MaxFaults /\ LateMoves /\ LeaseMoves
  BY <1>1, <1>2, BeatMoves DEF IdleMoves
<1>4. RecordsOK' /\ RecordsMoveOn
  BY <1>1, LoggedIdle, RecordsStay DEF IdleMoves, Basics
<1> QED BY <1>1, <1>3, <1>4 DEF Moves, Basics

LEMMA ObserveMoves ==
  ASSUME Basics, Observe
  PROVE  Moves
<1>1. ProcessOK' /\ IdleMoves
  BY ObserveProcess DEF Basics
<1>2. \/ HeartbeatTaken(Session) /\ Heartbeat(Session) /\ Answered
      \/ UNCHANGED server /\ Answered
      \/ GivenUp({Sends("heartbeat")})
  BY DEF Observe, Refused
<1>3. ServerOK' /\ RowsMoveOn /\ SessionsOK' /\ faults' \in 0..MaxFaults /\ LateMoves /\ LeaseMoves
  BY <1>1, <1>2, BeatMoves DEF IdleMoves
<1>4. RecordsOK' /\ RecordsMoveOn
  BY <1>1, LoggedIdle, RecordsStay DEF IdleMoves, Basics
<1> QED BY <1>1, <1>3, <1>4 DEF Moves, Basics

LEMMA BecomesDueMoves ==
  ASSUME Basics, BecomesDue
  PROVE  Moves
<1>1. ProcessOK' /\ IdleMoves
  BY BecomesDueProcess DEF Basics
<1>2. UNCHANGED <<node, rows>> /\ late' = late /\ faults' = faults
  BY DEF BecomesDue, server
<1>3. ServerOK' /\ RowsMoveOn /\ SessionsOK' /\ LateMoves /\ LeaseMoves /\ faults' \in 0..MaxFaults
  BY <1>1, <1>2, LocalMoves DEF IdleMoves, Basics
<1>4. RecordsOK' /\ RecordsMoveOn
  BY <1>1, LoggedIdle, RecordsStay DEF IdleMoves, Basics
<1> QED BY <1>1, <1>3, <1>4 DEF Moves, Basics

\* The claim: nothing to do, a command that used its attempts up, or a new lease.
LEMMA PollClaimMoves ==
  ASSUME Basics, PollClaim
  PROVE  Moves
<1>1. /\ ProcessOK'
      /\ \/ IdleMoves /\ ClaimTaken(Session) /\ Claim(Session) /\ Claimed = None /\ Answered
         \/ IdleMoves /\ UNCHANGED server /\ Answered
         \/ IdleMoves /\ GivenUp({Sends("claim")})
         \/ /\ ClaimTaken(Session) /\ Claim(Session) /\ Claimed # None /\ Answered
            /\ agent.lease = None /\ agent' \in Process /\ agent'.stage = "receipt" /\ agent'.lease = Claimed
            /\ agent'.session = agent.session /\ agent'.broken = agent.broken
            /\ agent'.fence = FALSE /\ agent'.done = FALSE /\ agent'.sequence = 0
            /\ Quiet /\ UNCHANGED <<keep, chain, journal, effects>>
  BY PollClaimProcess DEF Basics
<1>2. ~At("down")
  BY DEF PollClaim, At
<1>3. Session \in Sessions
  BY <1>2, SessionIs DEF Basics
<1>4. IdleMoves => RecordsOK' /\ RecordsMoveOn /\ LeaseMoves
  BY LoggedIdle, RecordsStay DEF IdleMoves, Basics, LeaseMoves
<1>5. CASE IdleMoves /\ ClaimTaken(Session) /\ Claim(Session) /\ Claimed = None /\ Answered
  <2>1. ServerOK' /\ RowsMoveOn /\ node' = node
    BY <1>3, <1>5, ClaimServer DEF Basics
  <2>2. late' = late /\ faults' = faults
    BY <1>5 DEF Answered
  <2>3. SessionsOK'
    BY <2>1, <2>2, <1>2, <1>5, SessionsKept DEF Basics, SessionsOK, IdleMoves
  <2> QED BY <2>1, <2>2, <2>3, <1>1, <1>4, <1>5 DEF Moves, Basics, LateMoves
<1>6. CASE IdleMoves /\ UNCHANGED server /\ Answered
  <2>1. ServerOK' /\ RowsMoveOn /\ SessionsOK' /\ LateMoves /\ faults' \in 0..MaxFaults
    BY <1>2, <1>6, LocalMoves DEF IdleMoves, Basics, server, Answered
  <2> QED BY <2>1, <1>1, <1>4, <1>6 DEF Moves, Basics
<1>7. CASE IdleMoves /\ GivenUp({Sends("claim")})
  <2>1. UNCHANGED server /\ late' = late \cup {Sends("claim")} /\ faults' \in 0..MaxFaults
    BY <1>7, GivenUpMoves DEF Basics
  <2>2. ServerOK' /\ RowsMoveOn /\ node' = node
    BY <2>1, ServerUnchanged DEF Basics, server
  <2>3. Sends("claim") \in Requests /\ Sends("claim").session = Session /\ Sends("claim").type = "claim"
    BY <1>3, SendsTypes
  <2>4. late' \subseteq Requests /\ \A r \in late' \ late: r = Sends("claim")
    BY <2>1, <2>3 DEF Basics, SessionsOK
  <2>5. SessionsOK'
    BY <2>2, <2>3, <2>4, <1>2, <1>7, SessionsKept DEF Basics, IdleMoves
  <2>6. LateMoves
    BY <2>3, <2>4 DEF LateMoves
  <2> QED BY <2>1, <2>2, <2>5, <2>6, <1>1, <1>4, <1>7 DEF Moves, Basics
<1>8. CASE /\ ClaimTaken(Session) /\ Claim(Session) /\ Claimed # None /\ Answered
           /\ agent.lease = None /\ agent' \in Process /\ agent'.stage = "receipt" /\ agent'.lease = Claimed
           /\ agent'.session = agent.session /\ agent'.broken = agent.broken
           /\ agent'.fence = FALSE /\ agent'.done = FALSE /\ agent'.sequence = 0
           /\ Quiet /\ UNCHANGED <<keep, chain, journal, effects>>
  <2>1. /\ ServerOK' /\ RowsMoveOn /\ node' = node
        /\ \E o \in Ops:
             /\ rows[o].status \in Live /\ rows[o].epoch = node.epoch
             /\ Claimed \in Lease
             /\ Claimed.op = o /\ Claimed.id = rows[o].id /\ Claimed.epoch = node.epoch
             /\ Claimed.attempt = rows[o].attempts + 1
             /\ rows'[o].status = "leased" /\ rows'[o].attempts = rows[o].attempts + 1
             /\ rows'[o].sequence = 0 /\ rows'[o].id = rows[o].id
             /\ rows'[o].epoch = rows[o].epoch
    BY <1>3, <1>8, ClaimServer DEF Basics
  <2>2. late' = late /\ faults' = faults /\ node.session = Session
    BY <1>8 DEF Answered, ClaimTaken
  <2>3. NewLease
    <3>1. \A o \in Ops: rows[o].attempts < rows[o].attempts + 1
      <4> SUFFICES ASSUME NEW o \in Ops PROVE rows[o].attempts < rows[o].attempts + 1
        OBVIOUS
      <4>1. rows[o].attempts \in 0..MaxAttempts
        BY RowFields DEF Basics
      <4> QED BY <4>1
    <3> QED BY <2>1, <2>2, <3>1, <1>8 DEF NewLease, Session
  <2>4. SessionsOK'
    <3>1. Session' = Session
      BY <1>8 DEF Session
    <3> QED BY <2>1, <2>2, <3>1, <1>3, <1>8 DEF Basics, SessionsOK, At
  <2>5. LoggedOK'
    BY <1>8 DEF LoggedOK, At
  <2>6. RecordsOK' /\ RecordsMoveOn
    BY <2>5, <1>8, RecordsStay DEF Basics
  <2> QED BY <2>1, <2>2, <2>3, <2>4, <2>6, <1>1 DEF Moves, Basics, LateMoves, LeaseMoves
<1> QED BY <1>1, <1>5, <1>6, <1>7, <1>8

LEMMA RecordReceiptMoves ==
  ASSUME Basics, RecordReceipt
  PROVE  Moves
<1>1. /\ ProcessOK' /\ UNCHANGED <<node, rows, late>> /\ At("receipt")
      /\ agent'.session = agent.session /\ agent'.stage # "down"
      /\ agent'.lease = agent.lease \/ agent'.lease = None
      /\ ~agent.fence /\ faults' \in {faults, faults + 1} /\ faults' <= MaxFaults
  <2>1. faults <= MaxFaults /\ faults \in {faults, faults + 1}
    BY AgentAssumption DEF Basics
  <2> QED BY <2>1, RecordReceiptProcess DEF Basics, SameCommand
<1>2. faults' \in 0..MaxFaults
  BY <1>1, AgentAssumption DEF Basics
<1>3. ServerOK' /\ RowsMoveOn /\ SessionsOK' /\ LateMoves /\ LeaseMoves
  BY <1>1, <1>2, LocalMoves DEF At
<1>4. RecordsOK' /\ RecordsMoveOn
  BY RecordReceiptRecords DEF Basics
<1> QED BY <1>1, <1>2, <1>3, <1>4 DEF Moves, Basics

LEMMA SendReceiptMoves ==
  ASSUME Basics, SendReceipt
  PROVE  Moves
<1>1. /\ ProcessOK' /\ UNCHANGED <<node, rows, journal, effects>> /\ agent.lease # None /\ At("sendReceipt")
      /\ agent'.session = agent.session /\ agent'.stage # "down" /\ agent'.done = FALSE /\ ~agent.fence
      /\ \/ SameCommand /\ agent'.stage = "firstReport"
         \/ agent'.stage = "poll" /\ agent'.lease = None
      /\ Answered \/ GivenUp({})
  BY SendReceiptProcess DEF Basics
<1>2. late' = late /\ faults' \in 0..MaxFaults
  BY <1>1, GivenUpMoves DEF Answered, Basics
<1>3. ServerOK' /\ RowsMoveOn /\ SessionsOK' /\ LateMoves /\ LeaseMoves
  BY <1>1, <1>2, LocalMoves DEF At, SameCommand
<1>4. LoggedOK'
  <2>1. CASE agent'.stage = "poll" /\ agent'.lease = None
    BY <2>1, <1>1, LoggedIdle DEF Basics
  <2>2. CASE SameCommand /\ agent'.stage = "firstReport"
    <3>1. Logged' = Logged
      BY <1>1, <2>2 DEF Logged, Id, Lse, SameCommand
    <3> QED BY <3>1, <2>2, <1>1 DEF Basics, RecordsOK, LoggedOK, At, SameCommand
  <2> QED BY <2>1, <2>2, <1>1
<1>5. RecordsOK' /\ RecordsMoveOn
  BY <1>1, <1>4, RecordsStay DEF Basics
<1> QED BY <1>1, <1>2, <1>3, <1>5 DEF Moves, Basics

LEMMA FirstReportEndsMoves ==
  ASSUME Basics, FirstReportEnds
  PROVE  Moves
<1>1. /\ ProcessOK' /\ UNCHANGED <<node, rows, late, journal, effects, faults>>
      /\ agent.lease # None /\ agent'.session = agent.session /\ agent'.done = FALSE /\ At("firstReport")
      /\ \/ agent'.stage = "poll" /\ agent'.lease = None
         \/ SameCommand /\ agent'.fence = agent.fence /\ agent'.stage = "work"
  BY FirstReportEndsProcess DEF Basics
<1>2. ServerOK' /\ RowsMoveOn /\ SessionsOK' /\ LateMoves /\ LeaseMoves /\ faults' \in 0..MaxFaults
  BY <1>1, LocalMoves DEF At, SameCommand, Basics
<1>3. LoggedOK'
  <2>1. CASE agent'.stage = "poll" /\ agent'.lease = None
    BY <2>1, <1>1, LoggedIdle DEF Basics
  <2>2. CASE SameCommand /\ agent'.stage = "work"
    <3>1. Logged' = Logged
      BY <1>1, <2>2 DEF Logged, Id, Lse, SameCommand
    <3> QED BY <3>1, <2>2, <1>1 DEF Basics, RecordsOK, LoggedOK, At, SameCommand
  <2> QED BY <2>1, <2>2, <1>1
<1>4. RecordsOK' /\ RecordsMoveOn
  BY <1>1, <1>3, RecordsStay DEF Basics
<1> QED BY <1>1, <1>2, <1>4 DEF Moves, Basics

LEMMA FinallyMoves ==
  ASSUME Basics, Finally
  PROVE  Moves
<1>1. /\ ProcessOK' /\ At("finally") /\ UNCHANGED <<node, rows, late, journal, effects, faults>>
      /\ agent.lease # None /\ agent'.session = agent.session
      /\ \/ agent'.stage = "poll" /\ agent'.lease = None /\ agent'.done = FALSE
         \/ /\ SameCommand /\ agent.fence = FALSE /\ agent'.fence = FALSE /\ agent.ends = "send"
            /\ agent'.stage = "sendResult"
  BY FinallyProcess DEF Basics
<1>2. ServerOK' /\ RowsMoveOn /\ SessionsOK' /\ LateMoves /\ LeaseMoves /\ faults' \in 0..MaxFaults
  BY <1>1, LocalMoves DEF At, SameCommand, Basics
<1>3. LoggedOK'
  <2>1. CASE agent'.stage = "poll" /\ agent'.lease = None /\ agent'.done = FALSE
    BY <2>1, <1>1, LoggedIdle DEF Basics
  <2>2. CASE SameCommand /\ agent'.stage = "sendResult" /\ agent.ends = "send"
    <3>1. Logged' = Logged /\ Id' = Id
      BY <1>1, <2>2 DEF Logged, Id, Lse, SameCommand
    <3> QED BY <3>1, <2>2, <1>1 DEF Basics, RecordsOK, LoggedOK, At, SameCommand
  <2> QED BY <2>1, <2>2, <1>1
<1>4. RecordsOK' /\ RecordsMoveOn
  BY <1>1, <1>3, RecordsStay DEF Basics
<1> QED BY <1>1, <1>2, <1>4 DEF Moves, Basics

LEMMA KeepaliveFiresMoves ==
  ASSUME Basics, KeepaliveFires
  PROVE  Moves
<1>1. ProcessOK' /\ UNCHANGED <<node, rows, late, agent, chain, journal, effects, faults>>
  BY KeepaliveFiresProcess DEF Basics
<1>2. ServerOK' /\ RowsMoveOn
  BY <1>1, ServerUnchanged DEF Basics, server
<1>3. SessionsOK'
  BY <1>1 DEF Basics, SessionsOK, Session, At
<1>4. LoggedOK'
  BY <1>1 DEF Basics, RecordsOK, LoggedOK, Logged, Id, Lse, At
<1>5. RecordsOK' /\ RecordsMoveOn
  BY <1>1, <1>4, RecordsStay DEF Basics
<1> QED BY <1>1, <1>2, <1>3, <1>5 DEF Moves, Basics, LateMoves, LeaseMoves

LEMMA HeldIsUp ==
  ASSUME ProcessOK, agent.lease # None
  PROVE  ~At("down")
BY DEF ProcessOK, StagesOK, At

LEMMA KeepaliveBeatsMoves ==
  ASSUME Basics, KeepaliveBeats
  PROVE  Moves
<1>1. /\ ProcessOK' /\ SameCommand /\ agent'.stage = agent.stage /\ UNCHANGED <<journal, effects>>
      /\ agent.lease # None
      /\ \/ agent'.fence = agent.fence /\ HeartbeatTaken(Session) /\ Heartbeat(Session) /\ Answered
         \/ agent'.fence = agent.fence /\ GivenUp({Sends("heartbeat")})
         \/ agent'.fence = TRUE /\ UNCHANGED server /\ Answered
  BY KeepaliveBeatsProcess DEF Basics
<1>2. ~At("down") /\ agent'.stage # "down"
  BY <1>1, HeldIsUp DEF Basics, At
<1>3. ServerOK' /\ RowsMoveOn /\ SessionsOK' /\ faults' \in 0..MaxFaults /\ LateMoves /\ LeaseMoves
  BY <1>1, <1>2, BeatMoves DEF SameCommand
<1>4. RecordsOK' /\ RecordsMoveOn
  BY <1>1, LoggedSame, RecordsStay DEF Basics
<1> QED BY <1>1, <1>3, <1>4 DEF Moves, Basics

LEMMA RuntimeReportsMoves ==
  ASSUME Basics, RuntimeReports
  PROVE  Moves
<1>1. /\ ProcessOK' /\ SameCommand /\ agent'.stage = agent.stage /\ agent'.fence = agent.fence
      /\ agent.lease # None /\ UNCHANGED <<node, rows, late, journal, effects, faults>>
  BY RuntimeReportsProcess DEF Basics
<1>2. ~At("down") /\ agent'.stage # "down"
  BY <1>1, HeldIsUp DEF Basics, At
<1>3. ServerOK' /\ RowsMoveOn /\ SessionsOK' /\ faults' \in 0..MaxFaults /\ LateMoves /\ LeaseMoves
  BY <1>1, <1>2, LocalMoves DEF SameCommand, Basics
<1>4. RecordsOK' /\ RecordsMoveOn
  BY <1>1, LoggedSame, RecordsStay DEF Basics
<1> QED BY <1>1, <1>3, <1>4 DEF Moves, Basics

LEMMA SubmitMoves ==
  ASSUME Basics, Submit
  PROVE  Moves
<1>1. /\ ProcessOK' /\ SameCommand /\ agent'.stage = agent.stage /\ agent.lease \in Lease
      /\ UNCHANGED <<journal, effects>> /\ chain[1].sequence \in 1..MaxSequence
      /\ \/ agent'.fence = agent.fence /\ Answered /\ UNCHANGED server
         \/ /\ agent'.fence = agent.fence /\ Answered
            /\ ProgressTaken(Session, Lse, chain[1].sequence) /\ Progress(Lse, chain[1].sequence)
         \/ agent'.fence = TRUE /\ UNCHANGED server /\ Answered
         \/ agent'.fence = TRUE /\ GivenUp({SendsProgress(Lse, chain[1].sequence)})
  BY SubmitProcess DEF Basics
<1>2. agent.lease # None
  BY <1>1, NoneAssumption
<1>3. ~At("down") /\ agent'.stage # "down" /\ Session \in Sessions
  BY <1>1, <1>2, HeldIsUp, SessionIs DEF Basics, At
<1>4. RecordsOK' /\ RecordsMoveOn
  BY <1>1, LoggedSame, RecordsStay DEF Basics
<1>5. LeaseMoves
  BY <1>1 DEF LeaseMoves, SameCommand
<1>6. CASE UNCHANGED server /\ Answered
  <2>1. ServerOK' /\ RowsMoveOn /\ SessionsOK' /\ faults' \in 0..MaxFaults /\ LateMoves
    BY <1>1, <1>3, <1>6, LocalMoves DEF SameCommand, Basics, server, Answered
  <2> QED BY <2>1, <1>1, <1>4, <1>5 DEF Moves, Basics
<1>7. CASE /\ ProgressTaken(Session, Lse, chain[1].sequence) /\ Progress(Lse, chain[1].sequence) /\ Answered
  <2>1. /\ ServerOK' /\ RowsMoveOn
        /\ node'.session = node.session /\ node'.retired = node.retired
    BY <1>1, <1>3, <1>7, ProgressServer DEF Basics, Lse
  <2>2. late' = late /\ faults' = faults
    BY <1>7 DEF Answered
  <2>3. SessionsOK'
    BY <2>1, <2>2, <1>1, <1>3, SessionsKept DEF Basics, SessionsOK, SameCommand
  <2> QED BY <2>1, <2>2, <2>3, <1>1, <1>4, <1>5 DEF Moves, Basics, LateMoves
<1>8. CASE agent'.fence = TRUE /\ GivenUp({SendsProgress(Lse, chain[1].sequence)})
  <2> DEFINE x == SendsProgress(Lse, chain[1].sequence)
  <2>1. UNCHANGED server /\ late' = late \cup {x} /\ faults' \in 0..MaxFaults
    BY <1>8, GivenUpMoves DEF Basics
  <2>2. ServerOK' /\ RowsMoveOn /\ node' = node
    BY <2>1, ServerUnchanged DEF Basics, server
  <2>3. x \in Requests /\ x.session = Session /\ x.type = "progress" /\ x.lease = Lse
    BY <1>1, <1>3, SendsTypes DEF Lse
  <2> HIDE DEF x
  <2>4. late' \subseteq Requests /\ \A r \in late' \ late: r = x
    BY <2>1, <2>3 DEF Basics, SessionsOK
  <2>5. SessionsOK'
    BY <2>2, <2>3, <2>4, <1>1, <1>3, SessionsKept DEF Basics, SameCommand
  <2>6. LateMoves
    BY <2>3, <2>4, <1>1, <1>2, <1>8 DEF LateMoves, SameCommand
  <2> QED BY <2>1, <2>2, <2>5, <2>6, <1>1, <1>4, <1>5 DEF Moves, Basics
<1> QED BY <1>1, <1>6, <1>7, <1>8

LEMMA LoggedOutcome ==
  ASSUME Basics, SendResult
  PROVE  Logged.result \in Outcomes /\ agent.lease \in Lease
<1>1. At("sendResult") /\ agent.lease # None
  BY SendResultProcess DEF Basics
<1>2. Id \in Ids /\ agent.lease \in Lease
  BY <1>1, IdIsOne DEF Basics
<1>3. Logged.result # None
  BY <1>1 DEF Basics, RecordsOK, LoggedOK
<1> QED BY <1>2, <1>3, EntryFields DEF Basics, Logged

LEMMA SendResultMoves ==
  ASSUME Basics, SendResult
  PROVE  Moves
<1>1. /\ ProcessOK' /\ At("sendResult") /\ agent.lease # None /\ UNCHANGED <<journal, effects>>
      /\ agent'.stage = "poll" /\ agent'.lease = None /\ agent'.session = agent.session /\ agent'.done = FALSE
      /\ \/ ResultTaken(Session, Lse) /\ Result(Lse, Logged.result) /\ Answered
         \/ UNCHANGED server /\ Answered
         \/ GivenUp({SendsResult(Lse, Logged.result)})
  BY SendResultProcess DEF Basics
<1>2. Logged.result \in Outcomes /\ agent.lease \in Lease
  BY LoggedOutcome
<1>3. ~At("down") /\ Session \in Sessions
  BY <1>1, SessionIs DEF Basics, At
<1>4. RecordsOK' /\ RecordsMoveOn
  BY <1>1, LoggedIdle, RecordsStay DEF Basics
<1>5. LeaseMoves
  BY <1>1 DEF LeaseMoves
<1>6. CASE UNCHANGED server /\ Answered
  <2>1. ServerOK' /\ RowsMoveOn /\ SessionsOK' /\ faults' \in 0..MaxFaults /\ LateMoves
    BY <1>1, <1>3, <1>6, LocalMoves DEF Basics, server, Answered
  <2> QED BY <2>1, <1>1, <1>4, <1>5 DEF Moves, Basics
<1>7. CASE ResultTaken(Session, Lse) /\ Result(Lse, Logged.result) /\ Answered
  <2>1. ServerOK' /\ RowsMoveOn /\ node' = node
    BY <1>2, <1>3, <1>7, ResultServer DEF Basics, Lse
  <2>2. late' = late /\ faults' = faults
    BY <1>7 DEF Answered
  <2>3. SessionsOK'
    BY <2>1, <2>2, <1>1, <1>3, SessionsKept DEF Basics, SessionsOK
  <2> QED BY <2>1, <2>2, <2>3, <1>1, <1>4, <1>5 DEF Moves, Basics, LateMoves
<1>8. CASE GivenUp({SendsResult(Lse, Logged.result)})
  <2> DEFINE x == SendsResult(Lse, Logged.result)
  <2>1. UNCHANGED server /\ late' = late \cup {x} /\ faults' \in 0..MaxFaults
    BY <1>8, GivenUpMoves DEF Basics
  <2>2. ServerOK' /\ RowsMoveOn /\ node' = node
    BY <2>1, ServerUnchanged DEF Basics, server
  <2>3. x \in Requests /\ x.session = Session /\ x.type = "result" /\ x.lease = Lse /\ x.outcome = Logged.result
    BY <1>2, <1>3, SendsTypes DEF Lse
  <2> HIDE DEF x
  <2>4. late' \subseteq Requests /\ \A r \in late' \ late: r = x
    BY <2>1, <2>3 DEF Basics, SessionsOK
  <2>5. SessionsOK'
    BY <2>2, <2>3, <2>4, <1>1, <1>3, SessionsKept DEF Basics
  <2>6. LateMoves
    BY <2>3, <2>4, <1>1, <1>2 DEF LateMoves
  <2> QED BY <2>1, <2>2, <2>5, <2>6, <1>1, <1>4, <1>5 DEF Moves, Basics
<1> QED BY <1>1, <1>6, <1>7, <1>8

LEMMA CrashMoves ==
  ASSUME Basics, Crash
  PROVE  Moves
<1>1. /\ ProcessOK' /\ ~At("down") /\ UNCHANGED <<node, rows, late, journal, effects>> /\ faults < MaxFaults
      /\ faults' = faults + 1 /\ Session < MaxSessions
      /\ agent'.stage = "down" /\ agent'.lease = None /\ agent'.session = agent.session /\ agent'.done = FALSE
  BY CrashProcess DEF Basics
<1>2. faults' \in 0..MaxFaults
  BY <1>1, AgentAssumption DEF Basics
<1>3. ServerOK' /\ RowsMoveOn
  BY <1>1, ServerUnchanged DEF Basics, server
<1>4. SessionsOK'
  BY <1>1, SessionsKept DEF Basics, SessionsOK
<1>5. RecordsOK' /\ RecordsMoveOn
  BY <1>1, LoggedIdle, RecordsStay DEF Basics
<1> QED BY <1>1, <1>2, <1>3, <1>4, <1>5 DEF Moves, Basics, LateMoves, LeaseMoves

LEMMA StartMoves ==
  ASSUME Basics, Start
  PROVE  Moves
<1>1. /\ ProcessOK' /\ At("down") /\ UNCHANGED <<node, rows, late, journal, effects, faults>>
      /\ agent'.lease = None /\ agent'.stage = "poll"
      /\ agent'.session = agent.session + 1 /\ agent'.session \in Sessions /\ agent'.done = FALSE
  BY StartProcess DEF Basics
<1>2. ServerOK' /\ RowsMoveOn
  BY <1>1, ServerUnchanged DEF Basics, server
<1>3. SessionsOK'
  <2>1. Session' = Session + 1 /\ Session \in 0..MaxSessions
    BY <1>1, SessionIs DEF Session, Basics
  <2>2. late \subseteq Requests /\ \A r \in late: r.session \in Sessions
    BY DEF Basics, SessionsOK, Requests
  <2>3. \A r \in late: r.session <= Session + 1
    <3> SUFFICES ASSUME NEW r \in late PROVE r.session <= Session + 1
      OBVIOUS
    <3>1. r.session <= Session /\ r.session \in Sessions
      BY <2>2 DEF Basics, SessionsOK
    <3> QED BY <3>1, <2>1, AgentAssumption DEF Sessions
  <2>4. node.session # None => node.session <= Session + 1
    <3>1. node.session # None => node.session <= Session /\ node.session \in Sessions
      BY DEF Basics, SessionsOK, ServerOK
    <3> QED BY <3>1, <2>1, AgentAssumption DEF Sessions
  <2> QED BY <2>1, <2>2, <2>3, <2>4, <1>1 DEF SessionsOK, At, Session, Basics
<1>4. RecordsOK' /\ RecordsMoveOn
  BY <1>1, LoggedIdle, RecordsStay DEF Basics
<1> QED BY <1>1, <1>2, <1>3, <1>4 DEF Moves, Basics, LateMoves, LeaseMoves

-----------------------------------------------------------------------------
(* The steps that are not the process's *)

LEMMA RequestFields ==
  ASSUME NEW r \in Requests
  PROVE  /\ r.session \in Sessions /\ r.type \in {"heartbeat", "claim", "progress", "result"}
         /\ r.type = "progress" => r.lease \in Lease /\ r.sequence \in 1..MaxSequence
         /\ r.type = "result" => r.lease \in Lease /\ r.outcome \in Outcomes
BY DEF Requests

\* The process, its records and the faults stay; the node may be beaten or taken over.
LEMMA ElsewhereMoves ==
  ASSUME Basics, ServerOK', RowsMoveOn, UNCHANGED <<process, journal, effects, faults>>, late' \subseteq late,
         node'.session = node.session \/ node'.session <= Session,
         node'.retired = {} => node.retired = {} /\ node.session \in {node'.session, None}
  PROVE  Moves
<1>1. agent' = agent /\ keep' = keep /\ chain' = chain
  BY DEF process
<1>2. ProcessOK'
  BY <1>1 DEF Basics, ProcessOK, StagesOK, ChainOK
<1>3. LoggedOK'
  BY <1>1 DEF Basics, RecordsOK, LoggedOK, Logged, Id, Lse, At
<1>4. RecordsOK' /\ RecordsMoveOn
  BY <1>3, RecordsStay DEF Basics
<1>5. SessionsOK'
  <2>1. Session' = Session
    BY <1>1 DEF Session
  <2>2. agent.lease # None /\ node'.retired = {} => node'.session = Session
    <3>1. agent.lease # None => Session \in Sessions
      BY HeldIsUp, SessionIs DEF Basics
    <3> QED BY <3>1, NoneAssumption DEF Basics, SessionsOK
  <2> QED BY <2>1, <2>2, <1>1 DEF Basics, SessionsOK, At
<1> QED BY <1>1, <1>2, <1>4, <1>5 DEF Moves, Basics, LateMoves, LeaseMoves

LEMMA ArrivesMoves ==
  ASSUME Basics, NEW r \in late, Arrives(r)
  PROVE  Moves
<1>1. r \in Requests /\ r.session <= Session
  BY DEF Basics, SessionsOK
<1>2. /\ r.session \in Sessions /\ r.type \in {"heartbeat", "claim", "progress", "result"}
      /\ r.type = "progress" => r.lease \in Lease /\ r.sequence \in 1..MaxSequence
      /\ r.type = "result" => r.lease \in Lease /\ r.outcome \in Outcomes
  BY <1>1, RequestFields
<1>3. late' \subseteq late /\ UNCHANGED <<process, journal, effects, faults>>
  BY DEF Arrives
<1>4. CASE r.type = "heartbeat"
  <2>1. HeartbeatTaken(r.session) /\ Heartbeat(r.session)
    BY <1>4 DEF Arrives
  <2>2. /\ ServerOK' /\ RowsMoveOn /\ node'.session = r.session
        /\ node'.retired = {} => node.session \in {r.session, None} /\ node.retired = {}
    BY <2>1, <1>2, HeartbeatServer DEF Basics
  <2> QED BY <2>2, <1>1, <1>3, ElsewhereMoves
<1>5. CASE r.type = "claim"
  <2>1. ClaimTaken(r.session) /\ Claim(r.session)
    BY <1>5 DEF Arrives
  <2>2. ServerOK' /\ RowsMoveOn /\ node' = node
    BY <2>1, <1>2, ClaimServer DEF Basics
  <2> QED BY <2>2, <1>3, ElsewhereMoves
<1>6. CASE r.type = "progress"
  <2>1. ProgressTaken(r.session, r.lease, r.sequence) /\ Progress(r.lease, r.sequence)
    BY <1>6 DEF Arrives
  <2>2. ServerOK' /\ RowsMoveOn /\ node'.session = node.session /\ node'.retired = node.retired
    BY <2>1, <1>2, <1>6, ProgressServer DEF Basics
  <2> QED BY <2>2, <1>3, ElsewhereMoves
<1>7. CASE r.type = "result"
  <2>1. ResultTaken(r.session, r.lease) /\ Result(r.lease, r.outcome)
    BY <1>7 DEF Arrives
  <2>2. ServerOK' /\ RowsMoveOn /\ node' = node
    BY <2>1, <1>2, <1>7, ResultServer DEF Basics
  <2> QED BY <2>2, <1>3, ElsewhereMoves
<1> QED BY <1>2, <1>4, <1>5, <1>6, <1>7

LEMMA DroppedMoves ==
  ASSUME Basics, NEW r \in late, Dropped(r)
  PROVE  Moves
<1>1. UNCHANGED server /\ late' \subseteq late /\ UNCHANGED <<process, journal, effects, faults>>
  BY DEF Dropped
<1>2. ServerOK' /\ RowsMoveOn /\ node' = node
  BY <1>1, ServerUnchanged DEF Basics, server
<1> QED BY <1>1, <1>2, ElsewhereMoves

LEMMA DispatchMoves ==
  ASSUME Basics, NEW kind \in {"delete", "other"}, Dispatch(kind)
  PROVE  Moves
<1>1. ServerOK' /\ RowsMoveOn /\ node' = node
  BY DispatchServer DEF Basics
<1>2. late' = late /\ UNCHANGED <<process, journal, effects, faults>>
  BY DEF Dispatch
<1> QED BY <1>1, <1>2, ElsewhereMoves

LEMMA ExpiresMoves ==
  ASSUME Basics, LeaseExpires
  PROVE  Moves
<1>1. ServerOK' /\ RowsMoveOn /\ node' = node
  BY ExpiresServer DEF Basics
<1>2. late' = late /\ UNCHANGED <<process, journal, effects, faults>>
  BY DEF LeaseExpires
<1> QED BY <1>1, <1>2, ElsewhereMoves

LEMMA StaleMoves ==
  ASSUME Basics, NodeGoesStale
  PROVE  Moves
<1>1. ServerOK' /\ RowsMoveOn /\ node'.session = node.session /\ node'.retired = node.retired
  BY StaleServer DEF Basics
<1>2. late' = late /\ UNCHANGED <<process, journal, effects, faults>>
  BY DEF NodeGoesStale
<1> QED BY <1>1, <1>2, ElsewhereMoves

LEMMA NothingMoves ==
  ASSUME Basics, UNCHANGED vars
  PROVE  Moves
<1>1. UNCHANGED server /\ late' = late /\ UNCHANGED <<process, journal, effects, faults>>
  BY DEF vars, server, process
<1>2. ServerOK' /\ RowsMoveOn /\ node' = node
  BY <1>1, ServerUnchanged DEF Basics, server
<1> QED BY <1>1, <1>2, ElsewhereMoves

\* What every step does, once for all the invariants below.
LEMMA StepMoves ==
  ASSUME Basics, [Next]_vars
  PROVE  Moves
<1>1. CASE StartWork
  <2>1. WorkMoves /\ RecordsOK' /\ RecordsMoveOn
    BY <1>1, StartWorkMoves, StartWorkRecords DEF Basics
  <2> QED BY <2>1, WorkMovesOn
<1>2. CASE RuntimeWorks
  <2>1. WorkMoves /\ RecordsOK' /\ RecordsMoveOn
    BY <1>2, RuntimeWorksMoves, RuntimeWorksRecords DEF Basics
  <2> QED BY <2>1, WorkMovesOn
<1>3. CASE ApplyReturns
  <2>1. WorkMoves /\ RecordsOK' /\ RecordsMoveOn
    BY <1>3, ApplyReturnsMoves, ApplyReturnsRecords DEF Basics
  <2> QED BY <2>1, WorkMovesOn
<1>4. CASE ApplyThrows
  <2>1. WorkMoves /\ RecordsOK' /\ RecordsMoveOn
    BY <1>4, ApplyThrowsMoves, ApplyThrowsRecords DEF Basics
  <2> QED BY <2>1, WorkMovesOn
<1>5. CASE RecordEffect
  <2>1. WorkMoves /\ RecordsOK' /\ RecordsMoveOn
    BY <1>5, RecordEffectMoves, RecordEffectRecords DEF Basics
  <2> QED BY <2>1, WorkMovesOn
<1>6. CASE RecordResult
  <2>1. WorkMoves /\ RecordsOK' /\ RecordsMoveOn
    BY <1>6, RecordResultMoves, RecordResultRecords DEF Basics
  <2> QED BY <2>1, WorkMovesOn
<1>7. CASE RecordFailed
  <2>1. WorkMoves /\ RecordsOK' /\ RecordsMoveOn
    BY <1>7, RecordFailedMoves, RecordFailedRecords DEF Basics
  <2> QED BY <2>1, WorkMovesOn
<1>8. CASE AgentStep
  BY <1>1, <1>2, <1>3, <1>4, <1>5, <1>6, <1>7, <1>8, PollHeartbeatMoves, PollClaimMoves, ObserveMoves,
     RecordReceiptMoves, SendReceiptMoves, FirstReportEndsMoves, RuntimeReportsMoves, FinallyMoves,
     SendResultMoves DEF AgentStep
<1>9. CASE Keepalive
  BY <1>9, KeepaliveFiresMoves, KeepaliveBeatsMoves, SubmitMoves DEF Keepalive
<1>10. CASE LateRequest
  BY <1>10, ArrivesMoves, DroppedMoves DEF LateRequest
<1>11. CASE \E kind \in {"delete", "other"}: Dispatch(kind)
  BY <1>11, DispatchMoves
<1> QED BY <1>8, <1>9, <1>10, <1>11, BecomesDueMoves, CrashMoves, StartMoves, ExpiresMoves, StaleMoves,
           NothingMoves DEF Next

LEMMA InitBasics ==
  ASSUME Init
  PROVE  Basics
<1>1. /\ node = [session |-> None, epoch |-> 0, retired |-> {}, fresh |-> FALSE]
      /\ rows = [o \in Ops |-> NoRow] /\ late = {} /\ keep = "off" /\ chain = <<>>
      /\ journal = [i \in Ids |-> [receipt |-> FALSE, effect |-> FALSE, result |-> None]]
      /\ effects = {} /\ faults = 0
  BY DEF Init
<1>2. /\ 0 \in 0..MaxSessions /\ 0 \in 0..MaxAttempts /\ 0 \in 0..MaxSequence /\ 0 \in 0..MaxFaults
      /\ 1 \in 1..MaxSessions /\ 0 < MaxSessions
  BY AgentAssumption
<1>3. /\ agent \in Process /\ agent.stage = "down" /\ agent.session = 0 /\ agent.lease = None
      /\ agent.fence = FALSE /\ agent.sequence = 0 /\ agent.done = FALSE /\ agent.ends = "throw"
  BY <1>2 DEF Init, Process, Stages
<1>4. NoRow \in Row /\ NoRow.status = "none" /\ NoRow.id = 1 /\ NoRow.epoch = 0
  BY <1>2 DEF NoRow, Row
<1>5. ServerOK
  <2>1. NodeCounted /\ OneLive
    BY <1>1, <1>4 DEF NodeCounted, OneLive, Live
  <2>2. Cardinality(node.retired) = 0
    BY <1>1, FS_EmptySet
  <2>3. RowsCounted
    BY <2>2, <1>1, <1>4 DEF RowsCounted
  <2>4. node \in [session: Sessions \cup {None}, epoch: 0..MaxSessions,
                  retired: SUBSET Sessions, fresh: BOOLEAN]
    BY <1>1, <1>2
  <2> QED BY <2>1, <2>3, <2>4, <1>1, <1>4 DEF ServerOK
<1>6. ProcessOK
  <2>1. chain \in Seq(Report) /\ DOMAIN chain = {}
    BY <1>1
  <2>2. StagesOK /\ ChainOK
    BY <2>1, <1>1, <1>3 DEF StagesOK, ChainOK, Reporting
  <2> QED BY <2>1, <2>2, <1>1, <1>3 DEF ProcessOK
<1>7. SessionsOK
  BY <1>1, <1>2, <1>3 DEF SessionsOK, Session, At
<1>8. RecordsOK
  <2> DEFINE e == [receipt |-> FALSE, effect |-> FALSE, result |-> None]
  <2>1. e \in Entry /\ e.effect = FALSE /\ e.result = None
    BY DEF Entry
  <2> HIDE DEF e
  <2>2. journal \in [Ids -> Entry] /\ \A i \in Ids: journal[i] = e
    BY <2>1, <1>1 DEF e
  <2>3. JournalOK
    BY <2>1, <2>2, NoneAssumption DEF JournalOK, Outcomes
  <2>4. LoggedOK
    BY <1>3 DEF LoggedOK, At
  <2> QED BY <2>2, <2>3, <2>4, <1>1 DEF RecordsOK
<1> QED BY <1>1, <1>2, <1>5, <1>6, <1>7, <1>8 DEF Basics

LEMMA BasicsHold == Spec => []Basics
<1>1. Init => Basics
  BY InitBasics
<1>2. Basics /\ [Next]_vars => Basics'
  BY StepMoves DEF Moves
<1> QED BY <1>1, <1>2, PTL DEF Spec

\* Every variable has its type, in every reachable state and whatever the bounds
\* are: a lease is in hand exactly while a command is worked on, ids and epochs
\* stay within the sessions that were, attempts within maxCommandAttempts, and a
\* late request is one the agent could have sent.
THEOREM TypeCorrect == Spec => []TypeOK
<1>1. Basics => TypeOK
  BY DEF Basics, ServerOK, SessionsOK, ProcessOK, StagesOK, RecordsOK, Report, TypeOK
<1> QED BY <1>1, BasicsHold, PTL

-----------------------------------------------------------------------------
(* Work that the journal holds is not repeated *)

\* Only the runtime's work marks the call of apply as done.
LEMMA WorkStarts ==
  ASSUME Basics, Next
  PROVE  agent'.done = TRUE => agent.done = TRUE \/ RuntimeWorks
<1>1. CASE AgentStep
  <2>2. PollHeartbeat \/ Observe \/ PollClaim => agent'.done = FALSE
    BY PollHeartbeatProcess, ObserveProcess, PollClaimProcess DEF Basics, IdleMoves
  <2>3. RecordReceipt \/ SendReceipt \/ FirstReportEnds \/ SendResult => agent'.done = FALSE
    BY RecordReceiptProcess, SendReceiptProcess, FirstReportEndsProcess, SendResultProcess DEF Basics
  <2>4. StartWork \/ ApplyReturns \/ ApplyThrows \/ RecordEffect \/ RecordResult \/ RecordFailed =>
          agent'.done = agent.done
    BY StartWorkMoves, ApplyReturnsMoves, ApplyThrowsMoves, RecordEffectMoves, RecordResultMoves,
       RecordFailedMoves DEF Basics
  <2>5. RuntimeReports => agent'.done = agent.done
    BY RuntimeReportsProcess DEF Basics, SameCommand
  <2>6. Finally => agent'.done = FALSE \/ agent'.done = agent.done
    BY FinallyProcess DEF Basics, SameCommand
  <2> QED BY <2>2, <2>3, <2>4, <2>5, <2>6, <1>1 DEF AgentStep
<1>2. CASE Keepalive
  BY <1>2, SubmitProcess, KeepaliveBeatsProcess, KeepaliveFiresProcess DEF Keepalive, Basics, SameCommand
<1>3. BecomesDue \/ Crash \/ Start => agent'.done = FALSE
  BY BecomesDueProcess, CrashProcess, StartProcess DEF Basics, IdleMoves
<1>4. LateRequest => agent' = agent
  BY DEF LateRequest, Arrives, Dropped, process
<1>5. (\E kind \in {"delete", "other"}: Dispatch(kind)) \/ LeaseExpires \/ NodeGoesStale => agent' = agent
  BY DEF Dispatch, LeaseExpires, NodeGoesStale, process
<1> QED BY <1>1, <1>2, <1>3, <1>4, <1>5 DEF Next

\* The runtime is asked to do the work of a command only when its entry in the
\* journal holds neither the effect nor a result: `apply` is called after the
\* lookup (index.ts, pollOnce), and nothing else writes the entry in between.
THEOREM WorkIsNotRepeated == Spec => RecordedWorkIsNotRepeated
<1>1. Basics /\ [Next]_vars => [agent'.done /\ ~agent.done => ~Logged.effect /\ Logged.result = None]_vars
  <2> SUFFICES ASSUME Basics, Next, agent'.done, ~agent.done
               PROVE  ~Logged.effect /\ Logged.result = None
    OBVIOUS
  <2>1. Basics'
    BY StepMoves DEF Moves
  <2>2. agent.done \in BOOLEAN /\ agent'.done \in BOOLEAN
    BY <2>1, AgentFields DEF Basics, ProcessOK
  <2>3. RuntimeWorks
    BY <2>2, WorkStarts
  <2> QED BY <2>3 DEF RuntimeWorks, Basics, RecordsOK, LoggedOK, At
<1> QED BY <1>1, BasicsHold, PTL DEF Spec, RecordedWorkIsNotRepeated

-----------------------------------------------------------------------------
(* Successes *)

\* A lease names a command that was out; as long as that one is out the lease is
\* of its epoch and of an attempt that was made.
Known(l) ==
  /\ rows[l.op].status # "none"
  /\ l.id <= rows[l.op].id
  /\ rows[l.op].id = l.id /\ rows[l.op].status \in Live =>
       l.attempt <= rows[l.op].attempts /\ rows[l.op].epoch = l.epoch

\* Leases, in hand or in late requests, are known; a report is given up under the
\* fence only; a late result says what the journal says.
LeasesOK ==
  /\ agent.lease # None => Known(Lse)
  /\ \A r \in late: r.type \in {"progress", "result"} => Known(r.lease)
  /\ \A r \in late: r.type = "progress" /\ agent.lease # None /\ r.lease = Lse => agent.fence
  /\ \A r \in late: r.type = "result" => r.outcome = journal[IdOf(r.lease)].result

LEMMA KnownStays ==
  ASSUME ServerOK, ServerOK', RowsMoveOn, NEW l \in Lease, Known(l)
  PROVE  Known(l)'
<1>1. l.op \in Ops /\ l.id \in 1..MaxSessions /\ l.attempt \in 1..MaxAttempts
  BY DEF Lease
<1>2. /\ rows[l.op].id \in 1..MaxSessions /\ rows'[l.op].id \in 1..MaxSessions
      /\ rows[l.op].attempts \in 0..MaxAttempts /\ rows'[l.op].attempts \in 0..MaxAttempts
  BY <1>1, RowFields DEF ServerOK, Row
<1>3. MovesOn(rows[l.op], rows'[l.op])
  BY <1>1 DEF RowsMoveOn
<1> QED BY <1>1, <1>2, <1>3, AgentAssumption DEF Known, MovesOn

LEMMA IdOfLease ==
  ASSUME NEW l \in Lease
  PROVE  IdOf(l) \in Ids /\ IdOf(l).op = l.op /\ IdOf(l).id = l.id
BY DEF Lease, IdOf, Ids

LEMMA LeasesStay ==
  ASSUME Basics, LeasesOK, Moves
  PROVE  LeasesOK'
<1>1. Basics' /\ RowsMoveOn /\ RecordsMoveOn /\ LateMoves /\ LeaseMoves
  BY DEF Moves
<1>2. ServerOK /\ ServerOK' /\ agent \in Process /\ agent' \in Process /\ late \subseteq Requests
  BY <1>1 DEF Basics, ProcessOK, SessionsOK
<1>3. /\ agent.lease \in Lease \cup {None} /\ agent'.lease \in Lease \cup {None}
      /\ agent.fence \in BOOLEAN /\ agent'.fence \in BOOLEAN
  BY <1>2, AgentFields
<1>4. \A l \in Lease: Known(l) => Known(l)'
  BY <1>1, <1>2, KnownStays
<1>5. Lse' = agent'.lease /\ Lse = agent.lease
  BY DEF Lse
<1>6. \A l \in Lease: l = agent'.lease => Known(l)'
  <2> SUFFICES ASSUME NEW l \in Lease, l = agent'.lease PROVE Known(l)'
    OBVIOUS
  <2>1. l # None
    BY NoneAssumption
  <2>2. CASE agent'.lease = agent.lease
    <3>1. Known(l)
      BY <2>1, <2>2, <1>5 DEF LeasesOK
    <3> QED BY <3>1, <1>4
  <2>3. CASE NewLease
    <3>1. /\ rows'[l.op].id = l.id /\ rows'[l.op].epoch = l.epoch
          /\ rows'[l.op].attempts = l.attempt /\ rows'[l.op].status = "leased"
      BY <2>3 DEF NewLease
    <3>2. l.id \in 1..MaxSessions /\ l.attempt \in 1..MaxAttempts
      BY DEF Lease
    <3>3. l.id <= l.id /\ l.attempt <= l.attempt
      BY <3>2
    <3> QED BY <3>1, <3>3 DEF Known
  <2> QED BY <2>1, <2>2, <2>3, <1>1 DEF LeaseMoves
<1>7. \A r \in late': r.type \in {"progress", "result"} => r.lease \in Lease /\ \A l \in Lease: l = r.lease => Known(l)'
  <2> SUFFICES ASSUME NEW r \in late', r.type \in {"progress", "result"}
               PROVE  r.lease \in Lease /\ \A l \in Lease: l = r.lease => Known(l)'
    OBVIOUS
  <2>1. CASE r \in late
    <3>1. r.lease \in Lease /\ Known(r.lease)
      BY <2>1, <1>2, RequestFields DEF LeasesOK
    <3> QED BY <3>1, <1>4
  <2>2. CASE r \notin late
    <3>1. agent.lease \in Lease /\ r.lease = agent.lease /\ Known(agent.lease)
      BY <2>2, <1>1, <1>3, <1>5 DEF LateMoves, LeasesOK
    <3> QED BY <3>1, <1>4
  <2> QED BY <2>1, <2>2
<1>8. \A r \in late': r.type = "progress" /\ agent'.lease # None /\ r.lease = agent'.lease => agent'.fence
  <2> SUFFICES ASSUME NEW r \in late', r.type = "progress", agent'.lease # None, r.lease = agent'.lease
               PROVE  agent'.fence
    OBVIOUS
  <2>1. CASE r \notin late
    BY <2>1, <1>1 DEF LateMoves
  <2>2. CASE r \in late /\ agent'.lease = agent.lease /\ (agent.fence => agent'.fence)
    BY <2>2, <1>5 DEF LeasesOK
  <2>3. CASE r \in late /\ NewLease
    <3> DEFINE l == agent'.lease
    <3>1. /\ l \in Lease /\ rows[l.op].status \in Live /\ rows[l.op].attempts < l.attempt
          /\ rows[l.op].id = l.id
      BY <2>3 DEF NewLease
    <3>2. Known(l)
      BY <2>3 DEF LeasesOK
    <3>3. rows[l.op].attempts \in 0..MaxAttempts /\ l.attempt \in 1..MaxAttempts
      BY <3>1, <1>2, RowFields DEF Lease
    <3> QED BY <3>1, <3>2, <3>3, AgentAssumption DEF Known
  <2> QED BY <2>1, <2>2, <2>3, <1>1 DEF LeaseMoves
<1>9. \A r \in late': r.type = "result" => r.outcome = journal'[IdOf(r.lease)].result
  <2> SUFFICES ASSUME NEW r \in late', r.type = "result" PROVE r.outcome = journal'[IdOf(r.lease)].result
    OBVIOUS
  <2>1. CASE r \in late
    <3>1. r.lease \in Lease /\ r.outcome \in Outcomes
      BY <2>1, <1>2, RequestFields
    <3>2. IdOf(r.lease) \in Ids /\ r.outcome # None /\ r.outcome = journal[IdOf(r.lease)].result
      BY <2>1, <3>1, IdOfLease, NoneAssumption DEF LeasesOK
    <3> QED BY <3>2, <1>1 DEF RecordsMoveOn
  <2>2. CASE r \notin late
    <3>1. agent.lease # None /\ r.lease = Lse /\ Logged.result \in Outcomes /\ r.outcome = Logged.result
      BY <2>2, <1>1 DEF LateMoves
    <3>2. Id \in Ids /\ Id = IdOf(Lse)
      BY <3>1, IdIsOne DEF Basics
    <3>3. journal[Id].result # None /\ r.outcome = journal[Id].result
      BY <3>1, NoneAssumption DEF Logged
    <3> QED BY <3>1, <3>2, <3>3, <1>1 DEF RecordsMoveOn
  <2> QED BY <2>1, <2>2
<1>10. agent'.lease # None => agent'.lease \in Lease
  BY <1>3
<1> QED BY <1>5, <1>6, <1>7, <1>8, <1>9, <1>10 DEF LeasesOK, Known

\* What the control plane does in a step, whoever asks for it.
LEMMA ServerSteps ==
  ASSUME Basics, [Next]_vars
  PROVE  \/ UNCHANGED server
         \/ \E s \in Sessions: HeartbeatTaken(s) /\ Heartbeat(s) /\ (s = Session \/ late # {})
         \/ \E s \in Sessions:
              /\ ClaimTaken(s) /\ Claim(s)
              /\ PollClaim \/ \E r \in late: r.type = "claim" /\ r.session = s /\ Arrives(r)
         \/ \E s \in Sessions, l \in Lease, q \in 1..MaxSequence:
              /\ ProgressTaken(s, l, q) /\ Progress(l, q)
              /\ \/ Submit /\ l = Lse /\ q = chain[1].sequence
                 \/ \E r \in late: r.type = "progress" /\ r.lease = l
         \/ \E s \in Sessions, l \in Lease, x \in Outcomes:
              /\ ResultTaken(s, l) /\ Result(l, x)
              /\ \/ SendResult /\ agent.lease # None /\ l = Lse /\ x = Logged.result
                 \/ \E r \in late: r.type = "result" /\ r.lease = l /\ r.outcome = x
         \/ \E kind \in {"delete", "other"}: Dispatch(kind)
         \/ LeaseExpires \/ NodeGoesStale
<1>1. ~At("down") => Session \in Sessions
  BY SessionIs DEF Basics
<1>2. PollHeartbeat \/ Observe \/ KeepaliveBeats =>
        UNCHANGED server \/ \E s \in Sessions: HeartbeatTaken(s) /\ Heartbeat(s) /\ s = Session
  <2>1. PollHeartbeat \/ Observe => ~At("down")
    BY DEF PollHeartbeat, Observe, At
  <2>2. KeepaliveBeats => ~At("down")
    BY KeepaliveBeatsProcess, HeldIsUp DEF Basics
  <2> QED BY <2>1, <2>2, <1>1 DEF PollHeartbeat, Observe, KeepaliveBeats, Refused, GivenUp
<1>3. PollClaim => UNCHANGED server \/ \E s \in Sessions: ClaimTaken(s) /\ Claim(s)
  <2>1. PollClaim => ~At("down")
    BY DEF PollClaim, At
  <2> QED BY <2>1, <1>1 DEF PollClaim, Refused, GivenUp
<1>4. ASSUME Submit
      PROVE  UNCHANGED server \/ \E s \in Sessions, l \in Lease, q \in 1..MaxSequence:
                                    /\ ProgressTaken(s, l, q) /\ Progress(l, q)
                                    /\ l = Lse /\ q = chain[1].sequence
  <2>1. /\ agent.lease \in Lease /\ chain[1].sequence \in 1..MaxSequence
        /\ UNCHANGED server \/ (ProgressTaken(Session, Lse, chain[1].sequence) /\ Progress(Lse, chain[1].sequence))
    BY <1>4, SubmitProcess, GivenUpMoves DEF Basics
  <2>2. Session \in Sessions
    BY <2>1, <1>1, HeldIsUp, NoneAssumption DEF Basics
  <2> QED BY <2>1, <2>2 DEF Lse
<1>5. ASSUME SendResult
      PROVE  UNCHANGED server \/ \E s \in Sessions, l \in Lease, x \in Outcomes:
                                    /\ ResultTaken(s, l) /\ Result(l, x)
                                    /\ agent.lease # None /\ l = Lse /\ x = Logged.result
  <2>1. /\ agent.lease # None
        /\ UNCHANGED server \/ (ResultTaken(Session, Lse) /\ Result(Lse, Logged.result))
    BY <1>5, SendResultProcess, GivenUpMoves DEF Basics
  <2>2. Logged.result \in Outcomes /\ agent.lease \in Lease
    BY <1>5, LoggedOutcome
  <2>3. Session \in Sessions
    BY <2>1, <1>1, HeldIsUp DEF Basics
  <2> QED BY <2>1, <2>2, <2>3 DEF Lse
<1>6. RecordReceipt \/ SendReceipt \/ FirstReportEnds \/ RuntimeReports \/ Finally => UNCHANGED server
  BY DEF RecordReceipt, SendReceipt, FirstReportEnds, RuntimeReports, Finally, Refused, GivenUp
<1>7. StartWork \/ RuntimeWorks \/ ApplyReturns \/ ApplyThrows \/ RecordEffect \/ RecordResult \/ RecordFailed
        => UNCHANGED server
  BY DEF StartWork, RuntimeWorks, ApplyReturns, ApplyThrows, RecordEffect, RecordResult, RecordFailed, Local
<1>8. KeepaliveFires \/ BecomesDue \/ Crash \/ Start \/ UNCHANGED vars => UNCHANGED server
  BY DEF KeepaliveFires, BecomesDue, Crash, Start, vars, server
<1>9. ASSUME NEW r \in late, Arrives(r)
      PROVE  \/ \E s \in Sessions: HeartbeatTaken(s) /\ Heartbeat(s)
             \/ r.type = "claim" /\ ClaimTaken(r.session) /\ Claim(r.session) /\ r.session \in Sessions
             \/ \E s \in Sessions, l \in Lease, q \in 1..MaxSequence:
                  /\ ProgressTaken(s, l, q) /\ Progress(l, q)
                  /\ r.type = "progress" /\ r.lease = l
             \/ \E s \in Sessions, l \in Lease, x \in Outcomes:
                  /\ ResultTaken(s, l) /\ Result(l, x)
                  /\ r.type = "result" /\ r.lease = l /\ r.outcome = x
  <2>1. /\ r.session \in Sessions /\ r.type \in {"heartbeat", "claim", "progress", "result"}
        /\ r.type = "progress" => r.lease \in Lease /\ r.sequence \in 1..MaxSequence
        /\ r.type = "result" => r.lease \in Lease /\ r.outcome \in Outcomes
    BY RequestFields DEF Basics, SessionsOK
  <2>2. /\ r.type = "heartbeat" => HeartbeatTaken(r.session) /\ Heartbeat(r.session)
        /\ r.type = "claim" => ClaimTaken(r.session) /\ Claim(r.session)
        /\ r.type = "progress" => ProgressTaken(r.session, r.lease, r.sequence) /\ Progress(r.lease, r.sequence)
        /\ r.type = "result" => ResultTaken(r.session, r.lease) /\ Result(r.lease, r.outcome)
    BY <1>9 DEF Arrives
  <2> QED BY <2>1, <2>2
<1>10. \A r \in late: Dropped(r) => UNCHANGED server
  BY DEF Dropped
<1> QED BY <1>2, <1>3, <1>4, <1>5, <1>6, <1>7, <1>8, <1>9, <1>10
        DEF Next, AgentStep, Keepalive, LateRequest

\* A success that is new is a result that the journal holds.
LEMMA NewSuccess ==
  ASSUME Basics, LeasesOK, [Next]_vars, NEW o \in Ops, rows'[o].status = "succeeded", rows[o].status # "succeeded"
  PROVE  journal[[op |-> o, id |-> rows'[o].id]].result = "succeeded"
<1>1. UNCHANGED server => FALSE
  BY DEF server
<1>2. ~ \E s \in Sessions: HeartbeatTaken(s) /\ Heartbeat(s)
  BY HeartbeatServer DEF Basics
<1>3. ASSUME NEW s \in Sessions, ClaimTaken(s), Claim(s) PROVE FALSE
  <2>1. \/ rows'[o] = rows[o]
        \/ rows'[o] = Ended(rows[o], "failed")
        \/ rows'[o].status = "leased"
    BY <1>3, ClaimServer DEF Basics
  <2>2. Ended(rows[o], "failed").status = "failed"
    BY RowFields, EndedRow DEF Basics
  <2> QED BY <2>1, <2>2
<1>4. ~ \E s \in Sessions, l \in Lease, q \in 1..MaxSequence: ProgressTaken(s, l, q) /\ Progress(l, q)
  BY ProgressServer DEF Basics
<1>5. ASSUME NEW s \in Sessions, NEW l \in Lease, NEW x \in Outcomes, ResultTaken(s, l), Result(l, x),
             \/ agent.lease # None /\ l = Lse /\ x = Logged.result
             \/ \E r \in late: r.type = "result" /\ r.lease = l /\ r.outcome = x
      PROVE  journal[[op |-> o, id |-> rows'[o].id]].result = "succeeded"
  <2>1. /\ \A p \in Ops \ {l.op}: rows'[p] = rows[p]
        /\ rows'[l.op].status = x /\ rows'[l.op].id = l.id
    BY <1>5, ResultServer DEF Basics
  <2>2. l.op = o /\ x = "succeeded" /\ IdOf(l) = [op |-> o, id |-> rows'[o].id]
    BY <2>1 DEF IdOf
  <2>3. journal[IdOf(l)].result = x
    BY <1>5, IdIsOne DEF LeasesOK, Logged, Basics
  <2> QED BY <2>2, <2>3
<1>6. ~ \E kind \in {"delete", "other"}: Dispatch(kind)
  BY DispatchServer DEF Basics
<1>7. ~LeaseExpires /\ ~NodeGoesStale
  BY ExpiresServer, StaleServer DEF Basics
<1> QED BY <1>1, <1>2, <1>3, <1>4, <1>5, <1>6, <1>7, ServerSteps

LEMMA SuccessesStay ==
  ASSUME Basics, LeasesOK, SuccessWasDone, [Next]_vars
  PROVE  SuccessWasDone'
<1>1. Basics' /\ RowsMoveOn /\ RecordsMoveOn
  BY StepMoves DEF Moves
<1> SUFFICES ASSUME NEW o \in Ops, rows'[o].status = "succeeded"
             PROVE  [op |-> o, id |-> rows'[o].id] \in effects'
                    /\ journal'[[op |-> o, id |-> rows'[o].id]].result = "succeeded"
  BY DEF SuccessWasDone
<1> DEFINE i == [op |-> o, id |-> rows'[o].id]
<1>2. i \in Ids
  BY <1>1 DEF Basics, ServerOK, Row, Ids
<1>3. journal[i].result = "succeeded" => i \in effects
  BY <1>2 DEF Basics, RecordsOK, JournalOK
<1>4. journal[i].result = "succeeded"
  <2>1. CASE rows[o].status = "succeeded"
    <3>1. rows'[o] = rows[o]
      BY <2>1, <1>1 DEF RowsMoveOn, MovesOn, Live
    <3> QED BY <2>1, <3>1 DEF SuccessWasDone
  <2>2. CASE rows[o].status # "succeeded"
    BY <2>2, NewSuccess
  <2> QED BY <2>1, <2>2
<1> HIDE DEF i
<1>5. "succeeded" # None
  BY NoneAssumption DEF Outcomes
<1>6. i \in effects' /\ journal'[i].result = "succeeded"
  BY <1>1, <1>2, <1>3, <1>4, <1>5 DEF RecordsMoveOn
<1> QED BY <1>6 DEF i

LEMMA LeasesHold == Spec => [](Basics /\ LeasesOK /\ SuccessWasDone)
<1>1. Init => Basics /\ LeasesOK /\ SuccessWasDone
  <2>1. Init => agent.lease = None /\ late = {} /\ \A o \in Ops: rows[o].status = "none"
    BY DEF Init, NoRow
  <2> QED BY <2>1, InitBasics DEF LeasesOK, SuccessWasDone
<1>2. (Basics /\ LeasesOK /\ SuccessWasDone) /\ [Next]_vars => (Basics /\ LeasesOK /\ SuccessWasDone)'
  BY StepMoves, LeasesStay, SuccessesStay DEF Moves
<1> QED BY <1>1, <1>2, PTL DEF Spec

\* An operation the control plane holds for succeeded was carried out by the
\* runtime, and the agent's journal holds the same outcome, whichever of the
\* result requests (the first, one of a later attempt, a late one) settled it.
THEOREM SuccessesWereDone == Spec => []SuccessWasDone
BY LeasesHold, PTL

-----------------------------------------------------------------------------
(* Attempts *)

\* The process has a command in hand under a lease that the control plane still
\* takes, and is on its way to a result.
Holding ==
  /\ agent.lease # None /\ ~agent.fence /\ ResultTaken(Session, Lse)
  /\ At("finally") => agent.ends = "send"

\* The lease in hand is the last one given for its command.
Current ==
  /\ agent.lease # None /\ ~agent.fence
  /\ rows[Lse.op].id = Lse.id /\ rows[Lse.op].status \in Live /\ rows[Lse.op].attempts = Lse.attempt

\* The reports that wait have higher numbers than the last one that was taken.
SequenceOK ==
  Current =>
    /\ rows[Lse.op].sequence <= agent.sequence
    /\ \A i \in DOMAIN chain: rows[Lse.op].sequence < chain[i].sequence

\* The process that the node is connected to may write results into its journal.
Writable == node.session = Session /\ ~At("down") /\ ~agent.broken

ResultOf(o) == journal[[op |-> o, id |-> rows[o].id]].result
Succeeded(o) == ResultOf(o) = "succeeded"

\* A late claim takes one attempt, and the lease in hand becomes worthless.
LateClaim == \E r \in late: r.type = "claim" /\ r.session = node.session
Underway == IF LateClaim THEN 2 ELSE 0
InHand(o) == IF Holding /\ Lse.op = o THEN 1 ELSE 0

\* A fault costs a command two attempts at most; without one the lease in hand is
\* the first.
AttemptsCounted ==
  \A o \in Ops: rows[o].status \in Live /\ node.retired = {} /\ (Writable \/ Succeeded(o))
    => rows[o].attempts + Underway <= 2 * faults + InHand(o)

\* As long as the faults cannot use the attempts up, a failure is one the journal
\* holds, unless its process cannot write it any more.
FailuresStand ==
  2 * faults < MaxAttempts =>
    \A o \in Ops: rows[o].status = "failed" /\ node.retired = {} =>
      ~Succeeded(o) /\ (Writable => ResultOf(o) = "failed")

Faultless ==
  faults = 0 =>
    /\ late = {} /\ ~agent.broken /\ node.retired = {}
    /\ Session <= 1 /\ (At("down") => Session = 0)
    /\ agent.lease # None => rows[Lse.op].status \in {"leased", "stale"}

\* A command that is taken over gets a new id, or fails.
LEMMA TakenOverEnds ==
  ASSUME NEW r \in Row
  PROVE  TakenOver(r) = r \/ TakenOver(r).status = "failed" \/ TakenOver(r).id = r.id + 1
<1>1. r.status \notin Live \/ r.epoch # node.epoch => TakenOver(r) = r
  BY DEF TakenOver
<1>2. CASE r.status \in Live /\ r.epoch = node.epoch /\ r.kind = "delete"
  <2>1. TakenOver(r) = [r EXCEPT !.id = @ + 1, !.epoch = node.epoch + 1, !.status = "queued",
                                 !.attempts = 0, !.expired = FALSE, !.sequence = 0]
    BY <1>2 DEF TakenOver
  <2> QED BY <2>1 DEF Row
<1>3. CASE r.status \in Live /\ r.epoch = node.epoch /\ r.kind # "delete"
  BY <1>3, EndedRow DEF TakenOver
<1> QED BY <1>1, <1>2, <1>3

\* What may happen to the row of a command in a step.
LEMMA RowSteps ==
  ASSUME Basics, [Next]_vars, NEW o \in Ops
  PROVE  \/ rows'[o] = rows[o]
         \/ /\ rows'[o].status = rows[o].status /\ rows'[o].id = rows[o].id /\ rows'[o].epoch = rows[o].epoch
            /\ rows'[o].attempts = rows[o].attempts
            /\ \/ rows'[o].sequence = rows[o].sequence
               \/ \E s \in Sessions, l \in Lease, q \in 1..MaxSequence:
                    /\ ProgressTaken(s, l, q) /\ Progress(l, q) /\ l.op = o /\ rows'[o].sequence = q
                    /\ \/ Submit /\ l = Lse /\ q = chain[1].sequence
                       \/ \E r \in late: r.type = "progress" /\ r.lease = l
         \/ rows'[o].status \notin Live
         \/ rows'[o].id = rows[o].id + 1 /\ node'.retired # {}
         \/ /\ \E s \in Sessions: /\ ClaimTaken(s) /\ Claim(s)
                                  /\ PollClaim \/ \E r \in late: r.type = "claim" /\ r.session = s /\ Arrives(r)
            /\ rows[o].status \in Live
            /\ rows'[o].status = "leased" /\ rows'[o].attempts = rows[o].attempts + 1
            /\ rows'[o].sequence = 0 /\ rows'[o].id = rows[o].id /\ rows'[o].epoch = rows[o].epoch
         \/ /\ rows[o].status = "none" /\ rows'[o].status = "queued" /\ rows'[o].attempts = 0
            /\ \E kind \in {"delete", "other"}: Dispatch(kind)
<1>1. ServerOK /\ rows[o] \in Row
  BY RowFields DEF Basics
<1>2. UNCHANGED server => rows'[o] = rows[o]
  BY DEF server
<1>3. ASSUME NEW s \in Sessions, HeartbeatTaken(s), Heartbeat(s)
      PROVE  \/ rows'[o] = rows[o]
             \/ rows'[o].status \notin Live
             \/ rows'[o].id = rows[o].id + 1 /\ node'.retired # {}
  <2>1. node.session \in {s, None} => rows'[o] = rows[o]
    BY <1>1, <1>3, HeartbeatServer
  <2>2. node.session \notin {s, None} => rows'[o] = TakenOver(rows[o]) /\ node'.retired # {}
    BY <1>1, <1>3, HeartbeatServer DEF Heartbeat
  <2>3. TakenOver(rows[o]) = rows[o] \/ TakenOver(rows[o]).status = "failed" \/ TakenOver(rows[o]).id = rows[o].id + 1
    BY <1>1, TakenOverEnds
  <2> QED BY <2>1, <2>2, <2>3 DEF Live
<1>4. ASSUME NEW s \in Sessions, ClaimTaken(s), Claim(s)
      PROVE  \/ rows'[o] = rows[o]
             \/ rows'[o].status \notin Live
             \/ /\ rows[o].status \in Live
                /\ rows'[o].status = "leased" /\ rows'[o].attempts = rows[o].attempts + 1
                /\ rows'[o].sequence = 0 /\ rows'[o].id = rows[o].id /\ rows'[o].epoch = rows[o].epoch
  <2>1. Ended(rows[o], "failed").status \notin Live
    BY <1>1, EndedRow DEF Live
  <2> QED BY <2>1, <1>1, <1>4, ClaimServer
<1>5. ASSUME NEW s \in Sessions, NEW l \in Lease, NEW q \in 1..MaxSequence, ProgressTaken(s, l, q), Progress(l, q)
      PROVE  \/ rows'[o] = rows[o]
             \/ /\ rows'[o].status = rows[o].status /\ rows'[o].id = rows[o].id /\ rows'[o].epoch = rows[o].epoch
                /\ rows'[o].attempts = rows[o].attempts
                /\ l.op = o /\ rows'[o].sequence = q
  BY <1>1, <1>5, ProgressServer
<1>6. ASSUME NEW s \in Sessions, NEW l \in Lease, NEW x \in Outcomes, ResultTaken(s, l), Result(l, x)
      PROVE  rows'[o] = rows[o] \/ rows'[o].status \notin Live
  <2>1. x \notin Live
    BY DEF Outcomes, Live
  <2> QED BY <2>1, <1>1, <1>6, ResultServer
<1>7. ASSUME NEW kind \in {"delete", "other"}, Dispatch(kind)
      PROVE  \/ rows'[o] = rows[o]
             \/ rows'[o].status \notin Live
             \/ rows[o].status = "none" /\ rows'[o].status = "queued" /\ rows'[o].attempts = 0
  BY <1>1, <1>7, DispatchServer DEF Live
<1>8. LeaseExpires => /\ rows'[o].status = rows[o].status /\ rows'[o].id = rows[o].id
                      /\ rows'[o].epoch = rows[o].epoch
                      /\ rows'[o].attempts = rows[o].attempts /\ rows'[o].sequence = rows[o].sequence
  BY <1>1, ExpiresServer
<1>9. NodeGoesStale => rows'[o] = rows[o]
  BY <1>1, StaleServer
<1> QED BY <1>2, <1>3, <1>4, <1>5, <1>6, <1>7, <1>8, <1>9, ServerSteps

\* The node keeps its session and its epoch, or a heartbeat is the first of its
\* session.
LEMMA NodeSteps ==
  ASSUME Basics, [Next]_vars
  PROVE  /\ node'.retired = {} => node.retired = {}
         /\ node'.retired = {} /\ node.session # None => node'.session = node.session /\ node'.epoch = node.epoch
<1>1. ServerOK
  BY DEF Basics
<1>2. ASSUME NEW s \in Sessions, HeartbeatTaken(s), Heartbeat(s)
      PROVE  /\ node'.retired = {} => node.retired = {}
             /\ node'.retired = {} /\ node.session # None => node'.session = node.session /\ node'.epoch = node.epoch
  BY <1>1, <1>2, HeartbeatServer
<1>3. ASSUME NEW s \in Sessions, NEW l \in Lease, NEW q \in 1..MaxSequence, ProgressTaken(s, l, q), Progress(l, q)
      PROVE  node'.session = node.session /\ node'.epoch = node.epoch /\ node'.retired = node.retired
  BY <1>1, <1>3, ProgressServer
<1>4. UNCHANGED server => node' = node
  BY DEF server
<1>5. (\E s \in Sessions: ClaimTaken(s) /\ Claim(s)) => node' = node
  BY DEF Claim
<1>6. \A l \in Lease, x \in Outcomes: Result(l, x) => node' = node
  BY DEF Result
<1>7. (\E kind \in {"delete", "other"}: Dispatch(kind)) \/ LeaseExpires => node' = node
  BY DEF Dispatch, LeaseExpires
<1>8. NodeGoesStale => node'.session = node.session /\ node'.epoch = node.epoch /\ node'.retired = node.retired
  BY <1>1, StaleServer
<1> QED BY <1>2, <1>3, <1>4, <1>5, <1>6, <1>7, <1>8, ServerSteps

\* A step is one fault or none; a request is given up by a fault, and a claim
\* before there is a command in hand.
LEMMA FaultSteps ==
  ASSUME Basics, [Next]_vars
  PROVE  \/ faults' = faults + 1
         \/ faults' = faults /\ late' \subseteq late
<1>1. \A R: GivenUp(R) => faults' = faults + 1
  BY DEF GivenUp
<1>2. Answered => faults' = faults /\ late' = late
  BY DEF Answered
<1>3. PollHeartbeat \/ PollClaim \/ Observe \/ SendReceipt \/ SendResult \/ KeepaliveBeats =>
        faults' = faults + 1 \/ (faults' = faults /\ late' = late)
  BY <1>1, <1>2 DEF PollHeartbeat, PollClaim, Observe, SendReceipt, SendResult, KeepaliveBeats
<1>4. Submit => faults' = faults + 1 \/ (faults' = faults /\ late' = late)
  BY <1>1, <1>2, SubmitProcess DEF Basics
<1>5. RecordReceipt => late' = late /\ faults' \in {faults, faults + 1}
  BY RecordReceiptProcess DEF Basics
<1>6. StartWork \/ RuntimeWorks \/ ApplyReturns \/ ApplyThrows \/ RecordEffect \/ RecordResult \/ RecordFailed
        => late' = late /\ faults' \in {faults, faults + 1}
  BY StartWorkMoves, RuntimeWorksMoves, ApplyReturnsMoves, ApplyThrowsMoves, RecordEffectMoves, RecordResultMoves,
     RecordFailedMoves DEF Basics, WorkMoves
<1>7. FirstReportEnds \/ RuntimeReports \/ Finally \/ KeepaliveFires \/ BecomesDue \/ Start \/ UNCHANGED vars
        => late' = late /\ faults' = faults
  BY DEF FirstReportEnds, RuntimeReports, Finally, KeepaliveFires, BecomesDue, Start, vars
<1>8. Crash => faults' = faults + 1
  BY DEF Crash
<1>9. LateRequest => late' \subseteq late /\ faults' = faults
  BY DEF LateRequest, Arrives, Dropped
<1>10. (\E kind \in {"delete", "other"}: Dispatch(kind)) \/ LeaseExpires \/ NodeGoesStale => late' = late /\ faults' = faults
  BY DEF Dispatch, LeaseExpires, NodeGoesStale
<1> QED BY <1>3, <1>4, <1>5, <1>6, <1>7, <1>8, <1>9, <1>10 DEF Next, AgentStep, Keepalive

LEMMA ClaimsGivenUp ==
  ASSUME Basics, [Next]_vars, NEW r \in late', r \notin late, r.type = "claim"
  PROVE  agent.lease = None /\ r.session = Session /\ faults' = faults + 1
<1>1. faults' = faults + 1
  BY FaultSteps
<1>2. Session \in Sessions \/ At("down")
  BY SessionIs DEF Basics
<1>3. PollClaim => agent.lease = None /\ r.session = Session
  <2>1. PollClaim => late' \subseteq late \cup {Sends("claim")}
    BY DEF PollClaim, GivenUp, Answered
  <2>2. Sends("claim").session = Session
    BY DEF Sends
  <2>3. PollClaim => agent.lease = None
    BY DEF PollClaim, Basics, ProcessOK, StagesOK, At
  <2> QED BY <2>1, <2>2, <2>3
<1>4. PollHeartbeat \/ Observe \/ KeepaliveBeats => late' \subseteq late \cup {Sends("heartbeat")}
  BY DEF PollHeartbeat, Observe, KeepaliveBeats, GivenUp, Answered
<1>5. Sends("heartbeat").type # "claim"
  BY DEF Sends
<1>6. Submit => late' \subseteq late \cup {SendsProgress(Lse, chain[1].sequence)}
  BY SubmitProcess, GivenUpMoves DEF Answered, Basics
<1>7. SendsProgress(Lse, chain[1].sequence).type # "claim"
  BY DEF SendsProgress
<1>8. SendResult => late' \subseteq late \cup {SendsResult(Lse, Logged.result)}
  BY SendResultProcess, GivenUpMoves DEF Answered, Basics
<1>9. SendsResult(Lse, Logged.result).type # "claim"
  BY DEF SendsResult
<1>10. SendReceipt \/ RecordReceipt \/ FirstReportEnds \/ RuntimeReports \/ Finally => late' = late
  BY DEF SendReceipt, RecordReceipt, FirstReportEnds, RuntimeReports, Finally, GivenUp, Answered
<1>11. StartWork \/ RuntimeWorks \/ ApplyReturns \/ ApplyThrows \/ RecordEffect \/ RecordResult \/ RecordFailed
        => late' = late
  BY DEF StartWork, RuntimeWorks, ApplyReturns, ApplyThrows, RecordEffect, RecordResult, RecordFailed, Local
<1>12. KeepaliveFires \/ BecomesDue \/ Start \/ Crash \/ UNCHANGED vars => late' = late
  BY DEF KeepaliveFires, BecomesDue, Start, Crash, vars
<1>13. LateRequest => late' \subseteq late
  BY DEF LateRequest, Arrives, Dropped
<1>14. (\E kind \in {"delete", "other"}: Dispatch(kind)) \/ LeaseExpires \/ NodeGoesStale => late' = late
  BY DEF Dispatch, LeaseExpires, NodeGoesStale
<1> QED BY <1>1, <1>3, <1>4, <1>5, <1>6, <1>7, <1>8, <1>9, <1>10, <1>11, <1>12, <1>13, <1>14
        DEF Next, AgentStep, Keepalive

\* Only a start makes another process, and one with a whole journal.
LEMMA SessionSteps ==
  ASSUME Basics, [Next]_vars, ~Start
  PROVE  /\ agent'.session = agent.session
         /\ agent.broken = TRUE => agent'.broken = TRUE
         /\ At("down") => agent'.stage = "down"
<1> DEFINE Same == /\ agent'.session = agent.session
                   /\ agent.broken = TRUE => agent'.broken = TRUE
<1>1. PollHeartbeat \/ Observe \/ BecomesDue => Same /\ ~At("down")
  BY PollHeartbeatProcess, ObserveProcess, BecomesDueProcess DEF Basics, IdleMoves
<1>2. PollClaim => Same /\ ~At("down")
  BY PollClaimProcess DEF Basics, IdleMoves, PollClaim, At
<1>3. RecordReceipt \/ SendReceipt \/ FirstReportEnds \/ Finally \/ SendResult => Same /\ ~At("down")
  BY RecordReceiptProcess, SendReceiptProcess, FirstReportEndsProcess, FinallyProcess, SendResultProcess
     DEF Basics, SameCommand, At
<1>4. Submit \/ KeepaliveBeats \/ RuntimeReports => Same
  BY SubmitProcess, KeepaliveBeatsProcess, RuntimeReportsProcess DEF Basics, SameCommand
<1>5. Submit \/ KeepaliveBeats \/ RuntimeReports => ~At("down")
  BY SubmitProcess, KeepaliveBeatsProcess, RuntimeReportsProcess, HeldIsUp, NoneAssumption DEF Basics
<1>6. WorkMoves => agent'.session = agent.session /\ (agent.broken => agent'.broken) /\ ~At("down")
  BY DEF WorkMoves, At, Reporting
<1>7. agent.broken \in BOOLEAN /\ agent'.broken \in BOOLEAN
  BY StepMoves, AgentFields DEF Basics, ProcessOK, Moves
<1>8. WorkMoves => Same /\ ~At("down")
  BY <1>6, <1>7
<1>9. StartWork \/ RuntimeWorks \/ ApplyReturns \/ ApplyThrows \/ RecordEffect \/ RecordResult \/ RecordFailed => WorkMoves
  BY StartWorkMoves, RuntimeWorksMoves, ApplyReturnsMoves, ApplyThrowsMoves, RecordEffectMoves, RecordResultMoves,
     RecordFailedMoves DEF Basics
<1>10. Crash => Same /\ ~At("down")
  BY CrashProcess DEF Basics
<1>11. KeepaliveFires \/ LateRequest \/ (\E kind \in {"delete", "other"}: Dispatch(kind)) \/ LeaseExpires
         \/ NodeGoesStale \/ UNCHANGED vars => agent' = agent
  BY DEF KeepaliveFires, LateRequest, Arrives, Dropped, Dispatch, LeaseExpires, NodeGoesStale, process, vars
<1>12. agent' = agent => Same /\ (At("down") => agent'.stage = "down")
  BY DEF At
<1> HIDE DEF Same
<1>13. Same /\ (At("down") => agent'.stage = "down")
  BY <1>1, <1>2, <1>3, <1>4, <1>5, <1>8, <1>9, <1>10, <1>11, <1>12 DEF Next, AgentStep, Keepalive
<1> QED BY <1>13 DEF Same

\* The command in hand is kept as it is,
Kept ==
  /\ agent'.lease = agent.lease /\ agent'.session = agent.session /\ (agent'.fence => agent.fence)
  /\ agent'.stage = "finally" /\ agent'.ends = "throw" => agent.stage = "finally" /\ agent.ends = "throw"

\* or given up, for one of these reasons.
Lost ==
  \/ agent.fence \/ faults' = faults + 1
  \/ ~ResultTaken(Session, Lse) \/ ~HeartbeatTaken(Session)
  \/ 1 \in DOMAIN chain /\ ~ProgressTaken(Session, Lse, chain[1].sequence)
  \/ At("finally") /\ agent.ends = "throw"
  \/ agent'.broken /\ Logged.result = None /\ journal' = journal
  \/ rows'[Lse.op].status \notin Live

LEMMA HandSteps ==
  ASSUME Basics, [Next]_vars, agent.lease # None
  PROVE  Kept \/ Lost
<1>1. /\ agent.stage \in Stages /\ agent.fence \in BOOLEAN /\ agent.ends \in {"send", "throw"} /\ agent.broken \in BOOLEAN
      /\ agent.lease \in Lease /\ Id \in Ids /\ ~At("down")
  BY AgentFields, IdIsOne, HeldIsUp DEF Basics, ProcessOK
<1>2. ~PollHeartbeat /\ ~PollClaim /\ ~Observe /\ ~BecomesDue /\ ~Start
  BY DEF PollHeartbeat, PollClaim, Observe, BecomesDue, Start, Basics, ProcessOK, StagesOK, At
<1>3. agent' = agent => Kept
  BY DEF Kept
<1>4. SameCommand /\ agent'.stage = agent.stage => (agent'.fence = agent.fence => Kept)
  BY DEF SameCommand, Kept
<1>5. CASE RecordReceipt
  <2>1. ~Logged.receipt => Logged.result = None
    BY <1>1 DEF Basics, RecordsOK, JournalOK, Logged
  <2> QED BY <2>1, <1>5, RecordReceiptProcess DEF Basics, SameCommand, Kept, Lost
<1>6. CASE SendReceipt
  <2>1. ~LeaseTaken(Session, Lse) => ~ResultTaken(Session, Lse)
    BY DEF ResultTaken
  <2> QED BY <2>1, <1>6, SendReceiptProcess DEF Basics, SameCommand, Kept, Lost, GivenUp
<1>7. CASE FirstReportEnds
  BY <1>7, FirstReportEndsProcess DEF Basics, SameCommand, Kept, Lost
<1>8. ASSUME WorkMoves, agent.stage = "recordFailed" => Logged.result = None,
             agent.stage = "recordFailed" /\ agent.broken => journal' = journal
      PROVE  Kept \/ Lost
  BY <1>8 DEF WorkMoves, Kept, Lost, Reporting
<1>9. CASE RecordFailed
  <2>1. /\ WorkMoves /\ At("recordFailed")
        /\ \/ ~agent.broken
           \/ journal' = journal
    BY <1>9, RecordFailedMoves DEF Basics
  <2>2. Logged.result = None
    BY <2>1 DEF Basics, RecordsOK, LoggedOK, At
  <2> QED BY <2>1, <2>2, <1>8
<1>10. CASE StartWork \/ RuntimeWorks \/ ApplyReturns \/ ApplyThrows \/ RecordEffect \/ RecordResult
  <2>1. WorkMoves /\ agent.stage # "recordFailed"
    BY <1>10, StartWorkMoves, RuntimeWorksMoves, ApplyReturnsMoves, ApplyThrowsMoves, RecordEffectMoves,
       RecordResultMoves DEF Basics, At
  <2> QED BY <2>1, <1>8
<1>11. CASE RuntimeReports
  BY <1>4, <1>11, RuntimeReportsProcess DEF Basics
<1>12. CASE Finally
  BY <1>12, FinallyProcess DEF Basics, SameCommand, Kept, Lost, At
<1>13. CASE SendResult
  <2>1. ASSUME Result(Lse, Logged.result), ResultTaken(Session, Lse) PROVE rows'[Lse.op].status \notin Live
    <3>1. Logged.result \in Outcomes /\ Session \in Sessions
      BY <1>1, <1>13, LoggedOutcome, SessionIs DEF Basics
    <3>2. rows'[Lse.op].status = Logged.result
      BY <2>1, <3>1, <1>1, ResultServer DEF Basics, Lse
    <3> QED BY <3>1, <3>2 DEF Outcomes, Live
  <2> QED BY <2>1, <1>13, SendResultProcess DEF Basics, Lost, GivenUp
<1>14. CASE Crash
  BY <1>14 DEF Crash, Lost
<1>15. CASE KeepaliveBeats
  BY <1>4, <1>15, KeepaliveBeatsProcess DEF Basics, Lost, GivenUp
<1>16. CASE Submit
  BY <1>4, <1>16, SubmitProcess DEF Basics, Lost, GivenUp
<1>17. KeepaliveFires \/ LateRequest \/ (\E kind \in {"delete", "other"}: Dispatch(kind)) \/ LeaseExpires
         \/ NodeGoesStale \/ UNCHANGED vars => agent' = agent
  BY DEF KeepaliveFires, LateRequest, Arrives, Dropped, Dispatch, LeaseExpires, NodeGoesStale, process, vars
<1> QED BY <1>2, <1>3, <1>5, <1>6, <1>7, <1>9, <1>10, <1>11, <1>12, <1>13, <1>14, <1>15, <1>16, <1>17
        DEF Next, AgentStep, Keepalive

\* The reports of a command in hand wait, are sent in order, or a new one with the
\* next number is added.
LEMMA ReportSteps ==
  ASSUME Basics, [Next]_vars, agent.lease # None, agent'.lease = agent.lease
  PROVE  /\ agent.sequence <= agent'.sequence
         /\ \A i \in DOMAIN chain': \/ \E j \in DOMAIN chain: chain'[i] = chain[j]
                                    \/ chain'[i].sequence = agent.sequence + 1
<1>1. agent.sequence \in 0..MaxSequence
  BY AgentFields DEF Basics, ProcessOK
<1>2. agent.sequence <= agent.sequence
  BY <1>1, AgentAssumption
<1>3. ~PollHeartbeat /\ ~PollClaim /\ ~Observe /\ ~BecomesDue /\ ~Start /\ ~Crash /\ ~SendResult
  <2>1. ~PollHeartbeat /\ ~PollClaim /\ ~Observe /\ ~BecomesDue /\ ~Start
    BY DEF PollHeartbeat, PollClaim, Observe, BecomesDue, Start, Basics, ProcessOK, StagesOK, At
  <2> QED BY <2>1, CrashProcess, SendResultProcess DEF Basics
<1>4. ReportsGrow =>
        /\ agent.sequence <= agent'.sequence
        /\ \A i \in DOMAIN chain': \/ \E j \in DOMAIN chain: chain'[i] = chain[j]
                                   \/ chain'[i].sequence = agent.sequence + 1
  BY DEF ReportsGrow
<1>5. UNCHANGED chain /\ agent'.sequence = agent.sequence => ReportsGrow
  BY <1>2 DEF ReportsGrow
<1>6. RecordReceipt \/ SendReceipt \/ FirstReportEnds \/ Finally \/ RuntimeReports \/ KeepaliveBeats => ReportsGrow
  BY <1>5, RecordReceiptProcess, SendReceiptProcess, FirstReportEndsProcess, FinallyProcess, RuntimeReportsProcess,
     KeepaliveBeatsProcess DEF Basics
<1>7. StartWork \/ RuntimeWorks \/ ApplyReturns \/ ApplyThrows \/ RecordEffect \/ RecordResult \/ RecordFailed => ReportsGrow
  BY <1>5, StartWorkMoves, RuntimeWorksMoves, ApplyReturnsMoves, ApplyThrowsMoves, RecordEffectMoves,
     RecordResultMoves, RecordFailedMoves DEF Basics, WorkMoves
<1>8. Submit => /\ agent.sequence <= agent'.sequence
                /\ \A i \in DOMAIN chain': \E j \in DOMAIN chain: chain'[i] = chain[j]
  BY <1>2, SubmitProcess DEF Basics
<1>9. KeepaliveFires \/ LateRequest \/ (\E kind \in {"delete", "other"}: Dispatch(kind)) \/ LeaseExpires
         \/ NodeGoesStale \/ UNCHANGED vars => UNCHANGED <<agent, chain>>
  BY DEF KeepaliveFires, LateRequest, Arrives, Dropped, Dispatch, LeaseExpires, NodeGoesStale, process, vars
<1> QED BY <1>3, <1>4, <1>5, <1>6, <1>7, <1>8, <1>9 DEF Next, AgentStep, Keepalive

LEMMA NewLeaseQuiet ==
  ASSUME Basics, [Next]_vars, NewLease
  PROVE  Quiet' /\ agent'.sequence = 0 /\ agent'.fence = FALSE /\ agent'.stage = "receipt" /\ PollClaim
         /\ Claimed = agent'.lease /\ faults' = faults /\ UNCHANGED <<journal, effects>>
         /\ agent'.broken = agent.broken
<1>1. agent.lease = None /\ agent'.lease # None
  BY NoneAssumption DEF NewLease
<1>2. ~PollHeartbeat /\ ~Observe /\ ~BecomesDue /\ ~Crash /\ ~Start
  BY <1>1, PollHeartbeatProcess, ObserveProcess, BecomesDueProcess, CrashProcess, StartProcess DEF Basics, IdleMoves
<1>3. ~RecordReceipt /\ ~SendReceipt /\ ~FirstReportEnds /\ ~Finally /\ ~SendResult /\ ~RuntimeReports
      /\ ~KeepaliveBeats /\ ~Submit
  BY <1>1, NoneAssumption, RecordReceiptProcess, SendReceiptProcess, FirstReportEndsProcess, FinallyProcess,
     SendResultProcess, RuntimeReportsProcess, KeepaliveBeatsProcess, SubmitProcess DEF Basics
<1>4. ~WorkMoves
  BY <1>1 DEF WorkMoves
<1>5. ~StartWork /\ ~RuntimeWorks /\ ~ApplyReturns /\ ~ApplyThrows /\ ~RecordEffect /\ ~RecordResult /\ ~RecordFailed
  BY <1>4, StartWorkMoves, RuntimeWorksMoves, ApplyReturnsMoves, ApplyThrowsMoves, RecordEffectMoves,
     RecordResultMoves, RecordFailedMoves DEF Basics
<1>6. KeepaliveFires \/ LateRequest \/ (\E kind \in {"delete", "other"}: Dispatch(kind)) \/ LeaseExpires
         \/ NodeGoesStale \/ UNCHANGED vars => agent' = agent
  BY DEF KeepaliveFires, LateRequest, Arrives, Dropped, Dispatch, LeaseExpires, NodeGoesStale, process, vars
<1>7. PollClaim
  BY <1>1, <1>2, <1>3, <1>5, <1>6 DEF Next, AgentStep, Keepalive
<1> QED BY <1>1, <1>7, PollClaimProcess DEF Basics, IdleMoves, Answered, Quiet

LEMMA LeaseIsOne ==
  ASSUME NEW l \in Lease, NEW m \in Lease, l.op = m.op, l.id = m.id, l.epoch = m.epoch, l.attempt = m.attempt
  PROVE  l = m
BY DEF Lease

LEMMA SequencesStay ==
  ASSUME Basics, LeasesOK, SequenceOK, [Next]_vars
  PROVE  SequenceOK'
<1>1. Moves /\ Basics'
  BY StepMoves DEF Moves
<1>2. Lse' = agent'.lease /\ Lse = agent.lease
  BY DEF Lse
<1> DEFINE o == agent'.lease.op
<1> SUFFICES ASSUME agent'.lease # None, ~agent'.fence, rows'[o].id = agent'.lease.id,
                    rows'[o].status \in Live, rows'[o].attempts = agent'.lease.attempt
             PROVE  /\ rows'[o].sequence <= agent'.sequence
                    /\ \A i \in DOMAIN chain': rows'[o].sequence < chain'[i].sequence
  BY <1>2 DEF SequenceOK, Current
<1>3. agent'.lease \in Lease /\ o \in Ops /\ agent'.sequence \in 0..MaxSequence /\ agent.sequence \in 0..MaxSequence
      /\ agent.fence \in BOOLEAN /\ agent'.fence \in BOOLEAN
  BY <1>1, AgentFields DEF Basics, ProcessOK, Lease
<1>4. CASE NewLease
  <2>1. Quiet' /\ agent'.sequence = 0 /\ rows'[o].sequence = 0
    BY <1>4, NewLeaseQuiet DEF NewLease
  <2>2. DOMAIN chain' = {}
    BY <2>1 DEF Quiet
  <2> QED BY <2>1, <2>2
<1>5. CASE agent'.lease = agent.lease /\ (agent.fence => agent'.fence)
  <2>1. agent.lease # None /\ ~agent.fence /\ o = Lse.op /\ Known(Lse) /\ Lse \in Lease
    BY <1>2, <1>3, <1>5 DEF LeasesOK
  <2>2. MovesOn(rows[o], rows'[o]) /\ rows[o].status # "none" /\ Lse.id <= rows[o].id
    BY <1>1, <1>3, <2>1 DEF Moves, RowsMoveOn, Known
  <2>3. /\ rows[o].id \in 1..MaxSessions /\ rows[o].attempts \in 0..MaxAttempts /\ rows[o].sequence \in 0..MaxSequence
        /\ Lse.id \in 1..MaxSessions /\ Lse.attempt \in 1..MaxAttempts
    BY <1>3, <2>1, RowFields DEF Basics, Lease
  <2>4. rows[o].id = Lse.id /\ rows'[o].id = Lse.id /\ rows'[o].attempts = Lse.attempt
    BY <1>2, <1>5, <2>1, <2>2, <2>3, AgentAssumption DEF MovesOn
  <2>5. rows[o].status \in Live /\ rows[o].attempts <= rows'[o].attempts
    BY <2>2, <2>4 DEF MovesOn
  <2>6. rows[o].attempts = Lse.attempt
    BY <2>1, <2>3, <2>4, <2>5, AgentAssumption DEF Known
  <2>7. Current
    BY <2>1, <2>4, <2>5, <2>6 DEF Current
  <2>8. /\ rows[o].sequence <= agent.sequence
        /\ \A i \in DOMAIN chain: rows[o].sequence < chain[i].sequence
    BY <2>1, <2>7 DEF SequenceOK
  <2>9. /\ agent.sequence <= agent'.sequence
        /\ \A i \in DOMAIN chain': \/ \E j \in DOMAIN chain: chain'[i] = chain[j]
                                   \/ chain'[i].sequence = agent.sequence + 1
    BY <2>1, <1>5, ReportSteps
  <2>10. CASE rows'[o].sequence = rows[o].sequence
    <3>1. rows[o].sequence < agent.sequence + 1 /\ rows[o].sequence <= agent'.sequence
      BY <2>3, <2>8, <2>9, <1>3, AgentAssumption
    <3> QED BY <3>1, <2>8, <2>9, <2>10
  <2>11. CASE Submit /\ rows'[o].sequence = chain[1].sequence
    <3>1. /\ 1 \in DOMAIN chain /\ agent'.sequence = agent.sequence
          /\ \A i \in DOMAIN chain': chain[1].sequence < chain'[i].sequence
      BY <2>11, SubmitProcess DEF Basics
    <3>2. chain[1].sequence <= agent.sequence
      BY <3>1 DEF Basics, ProcessOK, ChainOK
    <3> QED BY <3>1, <3>2, <2>11
  <2>12. ASSUME NEW s \in Sessions, NEW l \in Lease, NEW q \in 1..MaxSequence, ProgressTaken(s, l, q), l.op = o,
                NEW r \in late, r.type = "progress", r.lease = l
         PROVE  FALSE
    <3>1. l.id = rows[o].id /\ l.epoch = rows[o].epoch /\ l.attempt = rows[o].attempts
      BY <2>12 DEF ProgressTaken, LeaseTaken
    <3>2. l = Lse
      BY <3>1, <2>1, <2>4, <2>5, <2>6, <2>12, LeaseIsOne DEF Known
    <3> QED BY <3>2, <2>1, <2>12 DEF LeasesOK
  <2>13. rows'[o].attempts # rows[o].attempts + 1
    BY <2>3, <2>4, <2>6, AgentAssumption
  <2>14. rows'[o].id # rows[o].id + 1
    BY <2>3, <2>4, AgentAssumption
  <2> HIDE DEF o
  <2> QED BY <2>5, <2>10, <2>11, <2>12, <2>13, <2>14, <1>3, RowSteps DEF Live
<1> QED BY <1>1, <1>4, <1>5 DEF Moves, LeaseMoves

\* The process that may write its journal could do so before.
LEMMA WritableBefore ==
  ASSUME Basics, [Next]_vars, node.session # None, node'.retired = {}, Writable'
  PROVE  Writable
<1>1. node'.session = node.session /\ node.session \in Sessions /\ node.session <= Session /\ Session \in 0..MaxSessions
  BY NodeSteps, SessionIs DEF Basics, ServerOK, SessionsOK
<1>2. Start => FALSE
  <2>1. Start => Session' = Session + 1
    BY StartProcess DEF Basics, Session
  <2>2. node.session # Session + 1
    BY <1>1, AgentAssumption DEF Sessions
  <2> QED BY <2>1, <2>2, <1>1 DEF Writable
<1>3. agent.broken \in BOOLEAN /\ agent'.broken \in BOOLEAN
  BY StepMoves, AgentFields DEF Basics, ProcessOK, Moves
<1>4. /\ agent'.session = agent.session
      /\ agent.broken = TRUE => agent'.broken = TRUE
      /\ At("down") => agent'.stage = "down"
  BY <1>2, SessionSteps
<1> QED BY <1>1, <1>3, <1>4 DEF Writable, Session, At

LEMMA IsId ==
  ASSUME ServerOK, NEW o \in Ops
  PROVE  [op |-> o, id |-> rows[o].id] \in Ids
BY RowFields DEF Ids

\* A result that is new was written by a process that may write.
LEMMA ResultBefore ==
  ASSUME Basics, [Next]_vars, node.retired = {}, NEW i \in Ids, journal'[i].result # journal[i].result
  PROVE  Writable /\ journal[i].result = None
<1>1. agent.lease # None /\ ~agent.broken /\ journal[i].result = None
  BY StepMoves DEF Moves, RecordsMoveOn
<1>2. node.session = Session /\ ~At("down")
  BY <1>1, HeldIsUp DEF Basics, SessionsOK
<1> QED BY <1>1, <1>2 DEF Writable

\* A command that counts was out, or ended, and counted before the step, unless it
\* was dispatched in it.
LEMMA CountedBefore ==
  ASSUME Basics, [Next]_vars, NEW o \in Ops, rows[o].status # "none", node'.retired = {},
         Writable' \/ Succeeded(o)', rows'[o].id = rows[o].id
  PROVE  Writable \/ Succeeded(o)
<1>1. node.session # None /\ node.retired = {}
  BY NodeSteps DEF Basics, ServerOK, NodeCounted
<1>2. CASE Writable'
  BY <1>1, <1>2, WritableBefore
<1>3. CASE Succeeded(o)'
  <2> DEFINE i == [op |-> o, id |-> rows[o].id]
  <2>1. i \in Ids /\ journal'[i].result = "succeeded"
    BY <1>3, IsId DEF Basics, Succeeded, ResultOf
  <2>2. CASE journal[i].result = "succeeded"
    BY <2>2 DEF Succeeded, ResultOf
  <2>3. CASE journal[i].result # "succeeded"
    <3> HIDE DEF i
    <3> QED BY <2>1, <2>3, <1>1, ResultBefore
  <2> QED BY <2>2, <2>3
<1> QED BY <1>2, <1>3

LEMMA SameRowId ==
  ASSUME Basics, [Next]_vars, NEW o \in Ops, rows[o].status # "none", node'.retired = {}, rows'[o].status \in Live
  PROVE  rows'[o].id = rows[o].id /\ rows[o].status \in Live /\ rows'[o].epoch = rows[o].epoch
<1>1. MovesOn(rows[o], rows'[o])
  BY StepMoves DEF Moves, RowsMoveOn
<1>2. rows'[o].id = rows[o].id
  BY RowSteps
<1> QED BY <1>1, <1>2 DEF MovesOn

\* The lease the control plane takes is taken after the step too, or a claim came.
LEMMA TakenStays ==
  ASSUME Basics, [Next]_vars, NEW s \in Sessions, NEW l \in Lease, ResultTaken(s, l),
         node'.retired = {}, rows'[l.op].status \in Live
  PROVE  ResultTaken(s, l)' \/ rows'[l.op].attempts = rows[l.op].attempts + 1
<1>1. /\ node.session = s /\ node.epoch = l.epoch /\ rows[l.op].id = l.id /\ rows[l.op].epoch = l.epoch
      /\ rows[l.op].status = "leased" /\ rows[l.op].attempts = l.attempt
  BY DEF ResultTaken, LeaseTaken
<1>2. l.op \in Ops /\ s # None
  BY NoneAssumption DEF Lease
<1>3. node'.session = s /\ node'.epoch = l.epoch
  BY <1>1, <1>2, NodeSteps
<1>4. rows'[l.op].id = rows[l.op].id
  BY <1>1, <1>2, SameRowId
<1>5. \/ rows'[l.op].status = "leased" /\ rows'[l.op].attempts = rows[l.op].attempts /\ rows'[l.op].epoch = rows[l.op].epoch
      \/ rows'[l.op].attempts = rows[l.op].attempts + 1
  BY <1>1, <1>2, RowSteps
<1> QED BY <1>1, <1>3, <1>4, <1>5 DEF ResultTaken, LeaseTaken

\* Without a fault and without another claim the process holds its command on.
LEMMA HoldingStays ==
  ASSUME Basics, LeasesOK, SequenceOK, [Next]_vars, Holding, NEW o \in Ops, Lse.op = o,
         node'.retired = {}, rows'[o].status \in Live, Writable' \/ Succeeded(o)',
         faults' # faults + 1, rows'[o].attempts # rows[o].attempts + 1
  PROVE  Holding' /\ Lse'.op = o
<1>1. /\ agent.lease # None /\ ~agent.fence /\ ResultTaken(Session, Lse) /\ (At("finally") => agent.ends = "send")
      /\ Lse = agent.lease /\ Lse \in Lease /\ Session \in Sessions
  BY HeldIsUp, IdIsOne, SessionIs DEF Holding, Basics, Lse
<1>2. /\ node.session = Session /\ rows[o].id = Lse.id /\ rows[o].status = "leased" /\ rows[o].attempts = Lse.attempt
  BY <1>1 DEF ResultTaken, LeaseTaken
<1>3. \A s \in Sessions, l \in Lease: s = Session /\ l = Lse => ResultTaken(s, l)'
  BY <1>1, TakenStays
<1>4. ~Lost
  <2>1. HeartbeatTaken(Session)
    BY <1>2 DEF HeartbeatTaken
  <2>2. 1 \in DOMAIN chain => ProgressTaken(Session, Lse, chain[1].sequence)
    <3>1. Current
      BY <1>1, <1>2 DEF Current, Live
    <3> QED BY <3>1, <1>1, <1>2 DEF SequenceOK, ProgressTaken, ResultTaken
  <2>3. ~(agent'.broken /\ Logged.result = None /\ journal' = journal)
    <3> SUFFICES ASSUME agent'.broken, Logged.result = None, journal' = journal PROVE FALSE
      OBVIOUS
    <3>1. ~Writable'
      BY DEF Writable
    <3>2. rows'[o].id = rows[o].id
      BY <1>2, SameRowId
    <3>3. journal[[op |-> o, id |-> rows[o].id]].result = None
      BY <1>2 DEF Logged, Id
    <3>4. ~Succeeded(o)'
      BY <3>2, <3>3, NoneAssumption DEF Succeeded, ResultOf, Outcomes
    <3> QED BY <3>1, <3>4
  <2>4. agent.ends \in {"send", "throw"}
    BY AgentFields DEF Basics, ProcessOK
  <2> QED BY <2>1, <2>2, <2>3, <2>4, <1>1 DEF Lost
<1>5. Kept
  BY <1>1, <1>4, HandSteps
<1>6. agent'.lease = agent.lease /\ agent'.session = agent.session /\ ~agent'.fence
  BY <1>1, <1>5 DEF Kept
<1>7. agent'.stage = "finally" => agent'.ends = "send"
  <2>1. agent'.ends \in {"send", "throw"}
    BY StepMoves, AgentFields DEF Moves, Basics, ProcessOK
  <2> QED BY <2>1, <1>1, <1>5 DEF Kept, At
<1>8. ResultTaken(Session, Lse)'
  BY <1>1, <1>3, <1>6 DEF ResultTaken, LeaseTaken, Session, Lse
<1> QED BY <1>1, <1>6, <1>7, <1>8 DEF Holding, At, Lse

LEMMA OneClaim ==
  ASSUME NEW r \in Requests, NEW q \in Requests, r.type = "claim", q.type = "claim", r.session = q.session
  PROVE  r = q
BY DEF Requests

\* One more attempt is the lease in hand now, or a late claim's that arrived.
LEMMA AttemptSteps ==
  ASSUME Basics, [Next]_vars, NEW o \in Ops, rows[o].status # "none", node'.retired = {}, rows'[o].status \in Live,
         rows'[o].attempts = rows[o].attempts + 1
  PROVE  \/ agent.lease = None /\ Holding' /\ Lse'.op = o /\ late' = late /\ faults' = faults
         \/ LateClaim /\ ~LateClaim' /\ faults' = faults
<1>1. ServerOK /\ late \subseteq Requests /\ rows[o].attempts \in 0..MaxAttempts /\ rows[o] \in Row
  BY RowFields DEF Basics, SessionsOK
<1>2. rows[o].attempts # rows[o].attempts + 1
  BY <1>1, AgentAssumption
<1>3. rows'[o].id = rows[o].id /\ rows[o].id # rows[o].id + 1
  BY <1>1, SameRowId, AgentAssumption DEF Row
<1>4. PICK s \in Sessions: /\ ClaimTaken(s) /\ Claim(s)
                           /\ PollClaim \/ \E r \in late: r.type = "claim" /\ r.session = s /\ Arrives(r)
  BY <1>2, <1>3, RowSteps
<1>5. Claimed # None /\ Claimed \in Lease /\ Claimed.op = o
  <2>1. Ended(rows[o], "failed").status \notin Live
    BY <1>1, EndedRow DEF Live
  <2>2. rows' # rows /\ rows'[o] # rows[o] /\ rows'[o] # Ended(rows[o], "failed")
    BY <2>1, <1>2
  <2> QED BY <2>2, <1>1, <1>4, ClaimServer, NoneAssumption
<1>6. CASE PollClaim
  <2>1. rows' # rows
    BY <1>2
  <2>2. agent.lease = None /\ agent'.lease = Claimed
    BY <2>1, <1>5, <1>6, PollClaimProcess, GivenUpMoves DEF Basics, server
  <2>3. NewLease
    BY <2>2, <1>5, StepMoves DEF Moves, LeaseMoves
  <2>4. agent'.fence = FALSE /\ agent'.stage = "receipt" /\ faults' = faults
    BY <2>3, NewLeaseQuiet
  <2>5. Holding'
    BY <2>2, <2>3, <2>4, <1>5 DEF Holding, NewLease, ResultTaken, LeaseTaken, Session, Lse, At
  <2> QED BY <2>2, <2>3, <2>4, <2>5, <1>5 DEF NewLease, Lse
<1>7. CASE \E r \in late: r.type = "claim" /\ r.session = s /\ Arrives(r)
  <2>1. PICK r \in late: r.type = "claim" /\ r.session = s /\ Arrives(r)
    BY <1>7
  <2>2. node.session = s /\ node' = node
    BY <1>4 DEF ClaimTaken, Claim
  <2>3. late' = late \ {r} /\ faults' = faults
    BY <2>1 DEF Arrives
  <2>4. ~LateClaim'
    <3> SUFFICES ASSUME NEW q \in late \ {r}, q.type = "claim", q.session = s PROVE FALSE
      BY <2>2, <2>3 DEF LateClaim
    <3> QED BY <2>1, <1>1, OneClaim
  <2> QED BY <2>1, <2>2, <2>3, <2>4 DEF LateClaim
<1> QED BY <1>4, <1>6, <1>7

LEMMA LateClaimBefore ==
  ASSUME Basics, [Next]_vars, node'.retired = {}, node.session # None, LateClaim'
  PROVE  LateClaim \/ (agent.lease = None /\ faults' = faults + 1)
<1>1. PICK r \in late': r.type = "claim" /\ r.session = node.session
  BY NodeSteps DEF LateClaim
<1> QED BY <1>1, ClaimsGivenUp DEF LateClaim

LEMMA AttemptsStay ==
  ASSUME Basics, LeasesOK, SequenceOK, AttemptsCounted, Faultless, [Next]_vars
  PROVE  AttemptsCounted'
<1> SUFFICES ASSUME NEW o \in Ops, rows'[o].status \in Live, node'.retired = {}, Writable' \/ Succeeded(o)'
             PROVE  rows'[o].attempts + Underway' <= 2 * faults' + InHand(o)'
  BY DEF AttemptsCounted
<1>1. Basics' /\ ServerOK
  BY StepMoves DEF Moves, Basics
<1>2. /\ faults \in Nat /\ faults' \in Nat /\ rows[o].attempts \in Nat /\ rows'[o].attempts \in Nat
      /\ Underway \in {0, 2} /\ Underway' \in {0, 2} /\ InHand(o) \in {0, 1} /\ InHand(o)' \in {0, 1}
  <2>1. faults \in Nat /\ faults' \in Nat
    BY <1>1, AgentAssumption DEF Basics
  <2>2. rows[o].attempts \in Nat /\ rows'[o].attempts \in Nat
    BY <1>1, AgentAssumption DEF Basics, ServerOK, Row
  <2> QED BY <2>1, <2>2 DEF Underway, InHand
<1>3. \/ faults' = faults + 1
      \/ faults' = faults /\ late' \subseteq late
  BY FaultSteps
<1>4. CASE rows[o].status = "none"
  <2>1. rows'[o].attempts = 0
    <3>1. rows'[o].status # "none" /\ "none" \notin Live
      BY DEF Live
    <3> QED BY <3>1, <1>4, RowSteps
  <2>2. faults' = 0 => late' = {}
    BY <1>2, <1>3 DEF Faultless
  <2>3. faults' = 0 => Underway' = 0
    BY <2>2 DEF Underway, LateClaim
  <2> QED BY <2>1, <2>3, <1>2
<1>5. CASE rows[o].status # "none"
  <2>1. rows'[o].id = rows[o].id /\ rows[o].status \in Live
    BY <1>5, SameRowId
  <2>2. node.session # None /\ node.retired = {}
    BY <1>1, <1>5, NodeSteps DEF ServerOK, NodeCounted
  <2>3. Writable \/ Succeeded(o)
    BY <2>1, <1>5, CountedBefore
  <2>4. rows[o].attempts + Underway <= 2 * faults + InHand(o)
    BY <2>1, <2>2, <2>3 DEF AttemptsCounted
  <2>5. CASE rows'[o].attempts = rows[o].attempts + 1
    <3>1. \/ agent.lease = None /\ Holding' /\ Lse'.op = o /\ late' = late /\ faults' = faults
          \/ LateClaim /\ ~LateClaim' /\ faults' = faults
      BY <2>5, <1>5, AttemptSteps
    <3>2. CASE agent.lease = None /\ Holding' /\ Lse'.op = o /\ late' = late /\ faults' = faults
      <4>1. InHand(o) = 0 /\ InHand(o)' = 1
        BY <3>2 DEF InHand, Holding
      <4>2. node'.session = node.session
        BY <2>2, NodeSteps
      <4>3. Underway' = Underway
        BY <3>2, <4>2 DEF Underway, LateClaim
      <4> QED BY <4>1, <4>3, <3>2, <2>4, <2>5, <1>2
    <3>3. CASE LateClaim /\ ~LateClaim' /\ faults' = faults
      <4>1. Underway = 2 /\ Underway' = 0
        BY <3>3 DEF Underway
      <4> QED BY <4>1, <3>3, <2>4, <2>5, <1>2
    <3> QED BY <3>1, <3>2, <3>3
  <2>6. CASE rows'[o].attempts # rows[o].attempts + 1
    <3>1. rows'[o].attempts = rows[o].attempts
      <4>1. rows[o].id # rows[o].id + 1
        BY <1>1, RowFields, AgentAssumption
      <4> QED BY <4>1, <2>1, <2>6, <1>5, RowSteps
    <3>2. CASE faults' = faults
      <4>1. Underway' <= Underway
        <5>1. LateClaim' => LateClaim
          BY <3>2, <2>2, <1>2, LateClaimBefore
        <5> QED BY <5>1 DEF Underway
      <4>2. InHand(o) <= InHand(o)'
        <5>1. Holding /\ Lse.op = o => Holding' /\ Lse'.op = o
          BY <3>2, <2>6, <1>2, HoldingStays
        <5> QED BY <5>1 DEF InHand
      <4> QED BY <4>1, <4>2, <3>1, <3>2, <2>4, <1>2
    <3>3. CASE faults' = faults + 1
      <4>1. CASE LateClaim' => LateClaim
        <5>1. Underway' <= Underway
          BY <4>1 DEF Underway
        <5> QED BY <5>1, <3>1, <3>3, <2>4, <1>2
      <4>2. CASE ~(LateClaim' => LateClaim)
        <5>1. agent.lease = None
          BY <4>2, <2>2, LateClaimBefore
        <5>2. InHand(o) = 0
          BY <5>1 DEF InHand, Holding
        <5> QED BY <5>2, <3>1, <3>3, <2>4, <1>2
      <4> QED BY <4>1, <4>2
    <3> QED BY <3>2, <3>3, <1>3
  <2> QED BY <2>5, <2>6
<1> QED BY <1>4, <1>5

LEMMA ResultsStay ==
  ASSUME Basics, [Next]_vars, NEW i \in Ids, journal[i].result # None
  PROVE  journal'[i].result = journal[i].result
BY StepMoves DEF Moves, RecordsMoveOn

\* A failure that is new is a result that the journal holds, or a claim that found
\* the attempts used up.
LEMMA NewFailure ==
  ASSUME Basics, LeasesOK, [Next]_vars, NEW o \in Ops, rows'[o].status = "failed", rows[o].status # "failed",
         node'.retired = {}
  PROVE  /\ rows[o].status \in Live /\ rows'[o].id = rows[o].id
         /\ \/ ResultOf(o) = "failed"
            \/ rows[o].attempts >= MaxAttempts /\ (agent.lease = None \/ LateClaim)
<1>1. ServerOK /\ rows[o] \in Row
  BY RowFields DEF Basics
<1>2. rows'[o] # rows[o]
  OBVIOUS
<1>3. ~UNCHANGED server /\ ~LeaseExpires /\ ~NodeGoesStale
  BY <1>1, <1>2, ExpiresServer, StaleServer DEF server
<1>4. ~ \E s \in Sessions: HeartbeatTaken(s) /\ Heartbeat(s)
  BY <1>1, <1>2, HeartbeatServer
<1>5. ASSUME NEW s \in Sessions, ClaimTaken(s), Claim(s),
             PollClaim \/ \E r \in late: r.type = "claim" /\ r.session = s /\ Arrives(r)
      PROVE  /\ rows[o].status \in Live /\ rows'[o].id = rows[o].id
             /\ rows[o].attempts >= MaxAttempts /\ (agent.lease = None \/ LateClaim)
  <2>1. PollClaim => agent.lease = None
    BY DEF PollClaim, Basics, ProcessOK, StagesOK, At
  <2>2. (\E r \in late: r.type = "claim" /\ r.session = s /\ Arrives(r)) => LateClaim
    BY <1>5 DEF LateClaim, ClaimTaken
  <2>3. Ended(rows[o], "failed").id = rows[o].id
    BY <1>1, EndedRow
  <2> QED BY <2>1, <2>2, <2>3, <1>1, <1>2, <1>5, ClaimServer
<1>6. ~ \E s \in Sessions, l \in Lease, q \in 1..MaxSequence: ProgressTaken(s, l, q) /\ Progress(l, q)
  BY <1>1, <1>2, ProgressServer
<1>7. ASSUME NEW s \in Sessions, NEW l \in Lease, NEW x \in Outcomes, ResultTaken(s, l), Result(l, x),
             \/ agent.lease # None /\ l = Lse /\ x = Logged.result
             \/ \E r \in late: r.type = "result" /\ r.lease = l /\ r.outcome = x
      PROVE  rows[o].status \in Live /\ rows'[o].id = rows[o].id /\ ResultOf(o) = "failed"
  <2>1. /\ \A p \in Ops \ {l.op}: rows'[p] = rows[p]
        /\ rows'[l.op].status = x /\ rows'[l.op].id = rows[l.op].id /\ rows[l.op].id = l.id
    BY <1>1, <1>7, ResultServer
  <2>2. l.op = o /\ x = "failed" /\ IdOf(l) = [op |-> o, id |-> rows[o].id]
    BY <2>1, <1>2 DEF IdOf
  <2>3. journal[IdOf(l)].result = x
    BY <1>7, IdIsOne DEF LeasesOK, Logged, Basics
  <2> QED BY <2>1, <2>2, <2>3, <1>7 DEF ResultTaken, LeaseTaken, Live, ResultOf
<1>8. ~ \E kind \in {"delete", "other"}: Dispatch(kind)
  BY <1>1, <1>2, DispatchServer
<1> QED BY <1>3, <1>4, <1>5, <1>6, <1>7, <1>8, ServerSteps

LEMMA FewFaults ==
  ASSUME NEW n \in Nat, NEW m \in Nat, NEW k \in Nat, m = n \/ m = n + 1, 2 * m < k
  PROVE  2 * n < k
OBVIOUS

LEMMA FailuresStay ==
  ASSUME Basics, LeasesOK, AttemptsCounted, FailuresStand, [Next]_vars
  PROVE  FailuresStand'
<1> SUFFICES ASSUME 2 * faults' < MaxAttempts, NEW o \in Ops, rows'[o].status = "failed", node'.retired = {}
             PROVE  ~Succeeded(o)' /\ (Writable' => ResultOf(o)' = "failed")
  BY DEF FailuresStand
<1> DEFINE i == [op |-> o, id |-> rows[o].id]
<1>1. Basics' /\ ServerOK /\ i \in Ids
  BY StepMoves, IsId DEF Moves, Basics
<1>2. /\ faults \in Nat /\ faults' \in Nat /\ rows[o].attempts \in Nat /\ MaxAttempts \in Nat
  BY <1>1, RowFields, AgentAssumption DEF Basics
<1>3. 2 * faults < MaxAttempts /\ node.retired = {}
  <2>1. faults' = faults \/ faults' = faults + 1
    BY FaultSteps
  <2>2. node.retired = {}
    BY NodeSteps
  <2> QED BY <2>1, <2>2, <1>2, FewFaults
<1>4. ResultOf(o) = journal[i].result /\ "failed" # None /\ "succeeded" # None
  BY NoneAssumption DEF ResultOf, Outcomes
<1>5. rows'[o].id = rows[o].id => ResultOf(o)' = journal'[i].result
  BY DEF ResultOf
<1> HIDE DEF i
<1>6. ResultOf(o) = "failed" /\ rows'[o].id = rows[o].id => ResultOf(o)' = "failed"
  BY <1>1, <1>4, <1>5, ResultsStay
<1>7. ResultOf(o)' = "failed" => ~Succeeded(o)'
  BY DEF Succeeded
<1>8. CASE rows[o].status = "failed"
  <2>1. rows'[o] = rows[o]
    BY <1>8, StepMoves DEF Moves, RowsMoveOn, MovesOn, Live
  <2>2. ~Succeeded(o) /\ (Writable => ResultOf(o) = "failed")
    BY <1>3, <1>8 DEF FailuresStand
  <2>3. Writable' \/ Succeeded(o)' => Writable
    BY <2>1, <2>2, <1>8, CountedBefore
  <2> QED BY <2>1, <2>2, <2>3, <1>6, <1>7
<1>9. CASE rows[o].status # "failed"
  <2>1. /\ rows[o].status \in Live /\ rows'[o].id = rows[o].id
        /\ \/ ResultOf(o) = "failed"
           \/ rows[o].attempts >= MaxAttempts /\ (agent.lease = None \/ LateClaim)
    BY <1>9, NewFailure
  <2>2. CASE ResultOf(o) = "failed"
    BY <2>1, <2>2, <1>6, <1>7
  <2>3. CASE rows[o].attempts >= MaxAttempts /\ (agent.lease = None \/ LateClaim)
    <3> SUFFICES ASSUME Writable' \/ Succeeded(o)' PROVE FALSE
      OBVIOUS
    <3>1. Writable \/ Succeeded(o)
      <4>1. rows[o].status # "none"
        BY <2>1 DEF Live
      <4> QED BY <4>1, <2>1, CountedBefore
    <3>2. rows[o].attempts + Underway <= 2 * faults + InHand(o)
      BY <3>1, <2>1, <1>3 DEF AttemptsCounted
    <3>3. InHand(o) \in {0, 1} /\ Underway \in {0, 2} /\ (agent.lease = None => InHand(o) = 0) /\ (LateClaim => Underway = 2)
      BY DEF InHand, Underway, Holding
    <3> QED BY <3>2, <3>3, <2>3, <1>2, <1>3
  <2> QED BY <2>1, <2>2, <2>3
<1> QED BY <1>8, <1>9

\* A journal breaks by a fault only.
LEMMA BrokenSteps ==
  ASSUME Basics, [Next]_vars, agent'.broken, ~agent.broken
  PROVE  faults' = faults + 1
<1>1. ~ (agent'.broken = agent.broken)
  OBVIOUS
<1>2. ~PollHeartbeat /\ ~Observe /\ ~BecomesDue /\ ~PollClaim
  BY <1>1, PollHeartbeatProcess, ObserveProcess, BecomesDueProcess, PollClaimProcess DEF Basics, IdleMoves
<1>3. ~SendReceipt /\ ~FirstReportEnds /\ ~Finally /\ ~SendResult /\ ~Crash
  BY <1>1, SendReceiptProcess, FirstReportEndsProcess, FinallyProcess, SendResultProcess, CrashProcess DEF Basics
<1>4. ~Submit /\ ~KeepaliveBeats /\ ~RuntimeReports
  BY <1>1, SubmitProcess, KeepaliveBeatsProcess, RuntimeReportsProcess DEF Basics, SameCommand
<1>5. ~Start
  BY StartProcess DEF Basics
<1>6. CASE RecordReceipt
  BY <1>1, <1>6, RecordReceiptProcess DEF Basics, SameCommand
<1>7. CASE StartWork \/ RuntimeWorks \/ ApplyReturns \/ ApplyThrows \/ RecordEffect \/ RecordResult \/ RecordFailed
  <2>1. WorkMoves
    BY <1>7, StartWorkMoves, RuntimeWorksMoves, ApplyReturnsMoves, ApplyThrowsMoves, RecordEffectMoves,
       RecordResultMoves, RecordFailedMoves DEF Basics
  <2> QED BY <2>1 DEF WorkMoves
<1>8. ~ (agent' = agent)
  BY <1>1
<1>9. ~ (KeepaliveFires \/ LateRequest \/ (\E kind \in {"delete", "other"}: Dispatch(kind)) \/ LeaseExpires
         \/ NodeGoesStale \/ UNCHANGED vars)
  BY <1>8 DEF KeepaliveFires, LateRequest, Arrives, Dropped, Dispatch, LeaseExpires, NodeGoesStale, process, vars
<1> QED BY <1>2, <1>3, <1>4, <1>5, <1>6, <1>7, <1>9 DEF Next, AgentStep, Keepalive

\* Before the first fault the only process is the first one, and what it has in
\* hand is leased or was withdrawn.
LEMMA FaultlessStays ==
  ASSUME Basics, LeasesOK, Faultless, [Next]_vars
  PROVE  Faultless'
<1> SUFFICES ASSUME faults' = 0
             PROVE  /\ late' = {} /\ ~agent'.broken /\ node'.retired = {}
                    /\ Session' <= 1 /\ (agent'.stage = "down" => Session' = 0)
                    /\ agent'.lease # None => rows'[agent'.lease.op].status \in {"leased", "stale"}
  BY DEF Faultless, At, Lse
<1>1. Basics' /\ ServerOK /\ Moves
  BY StepMoves DEF Moves, Basics
<1>2. faults = 0 /\ faults' # faults + 1
  BY FaultSteps, AgentAssumption DEF Basics
<1>3. late = {} /\ ~agent.broken /\ node.retired = {} /\ Session <= 1 /\ (At("down") => Session = 0)
      /\ (agent.lease # None => rows[Lse.op].status \in {"leased", "stale"}) /\ late' = {}
  BY <1>2, FaultSteps DEF Faultless
<1>4. Session \in 0..MaxSessions /\ (~At("down") => Session \in Sessions)
  BY SessionIs DEF Basics
<1>5. \A s \in Sessions: s <= 1 => s = 1
  BY AgentAssumption DEF Sessions
<1>6. Session' <= 1 /\ (agent'.stage = "down" => Session' = 0)
  <2>1. CASE Start
    BY <2>1, <1>3, <1>4, StartProcess DEF Basics, Session
  <2>2. CASE ~Start
    <3>1. Session' = Session
      BY <2>2, SessionSteps DEF Session
    <3>2. Crash => faults' = faults + 1
      BY DEF Crash
    <3>3. agent'.stage = "down" => At("down")
      <4>1. PollHeartbeat \/ Observe \/ BecomesDue \/ PollClaim => agent'.stage # "down"
        BY PollHeartbeatProcess, ObserveProcess, BecomesDueProcess, PollClaimProcess DEF Basics, IdleMoves
      <4>2. RecordReceipt \/ SendReceipt \/ FirstReportEnds \/ Finally \/ SendResult => agent'.stage # "down"
        BY RecordReceiptProcess, SendReceiptProcess, FirstReportEndsProcess, FinallyProcess, SendResultProcess DEF Basics
      <4>3. Submit \/ KeepaliveBeats \/ RuntimeReports => agent'.stage = agent.stage
        BY SubmitProcess, KeepaliveBeatsProcess, RuntimeReportsProcess DEF Basics
      <4>4. WorkMoves => agent'.stage # "down"
        BY DEF WorkMoves, Reporting
      <4>5. StartWork \/ RuntimeWorks \/ ApplyReturns \/ ApplyThrows \/ RecordEffect \/ RecordResult \/ RecordFailed
              => WorkMoves
        BY StartWorkMoves, RuntimeWorksMoves, ApplyReturnsMoves, ApplyThrowsMoves, RecordEffectMoves,
           RecordResultMoves, RecordFailedMoves DEF Basics
      <4>6. KeepaliveFires \/ LateRequest \/ (\E kind \in {"delete", "other"}: Dispatch(kind)) \/ LeaseExpires
              \/ NodeGoesStale \/ UNCHANGED vars => agent' = agent
        BY DEF KeepaliveFires, LateRequest, Arrives, Dropped, Dispatch, LeaseExpires, NodeGoesStale, process, vars
      <4> QED BY <4>1, <4>2, <4>3, <4>4, <4>5, <4>6, <3>2, <2>2, <1>2 DEF Next, AgentStep, Keepalive, At
    <3> QED BY <3>1, <3>3, <1>3
  <2> QED BY <2>1, <2>2
<1>7. node'.retired = {}
  <2>1. ASSUME NEW s \in Sessions, HeartbeatTaken(s), Heartbeat(s), s = Session
        PROVE  node'.retired = node.retired
    <3>1. Session = 1
      BY <2>1, <1>3, <1>5
    <3>2. node.session # None => node.session \in Sessions /\ node.session <= 1
      <4>1. node.session # None => node.session \in Sessions /\ node.session <= Session
        BY DEF Basics, SessionsOK, ServerOK
      <4> QED BY <4>1, <3>1
    <3>3. node.session \in {s, None}
      BY <3>1, <3>2, <2>1, <1>5
    <3> QED BY <3>3, <2>1 DEF Heartbeat
  <2>2. ASSUME NEW s \in Sessions, NEW l \in Lease, NEW q \in 1..MaxSequence, ProgressTaken(s, l, q), Progress(l, q)
        PROVE  node'.retired = node.retired
    BY <2>2, <1>1, ProgressServer
  <2>3. UNCHANGED server => node' = node
    BY DEF server
  <2>4. (\E s \in Sessions: ClaimTaken(s) /\ Claim(s)) => node' = node
    BY DEF Claim
  <2>5. \A l \in Lease, x \in Outcomes: Result(l, x) => node' = node
    BY DEF Result
  <2>6. (\E kind \in {"delete", "other"}: Dispatch(kind)) \/ LeaseExpires => node' = node
    BY DEF Dispatch, LeaseExpires
  <2>7. NodeGoesStale => node'.retired = node.retired
    BY <1>1, StaleServer
  <2>8. node'.retired = node.retired
    BY <2>1, <2>2, <2>3, <2>4, <2>5, <2>6, <2>7, <1>3, ServerSteps
  <2> QED BY <2>8, <1>3
<1>8. ~agent'.broken
  BY <1>2, <1>3, BrokenSteps
<1>9. agent'.lease # None => rows'[agent'.lease.op].status \in {"leased", "stale"}
  <2> SUFFICES ASSUME agent'.lease # None PROVE rows'[agent'.lease.op].status \in {"leased", "stale"}
    OBVIOUS
  <2>1. CASE NewLease
    BY <2>1 DEF NewLease
  <2>2. CASE agent'.lease = agent.lease
    <3> DEFINE o == agent.lease.op
    <3>1. agent.lease # None /\ agent.lease \in Lease /\ o \in Ops /\ rows[o].status \in {"leased", "stale"}
      BY <2>2, <1>3, IdIsOne DEF Basics, Lse, Lease
    <3>2. rows[o].status = "stale" => rows'[o] = rows[o]
      BY <3>1, <1>1 DEF Moves, RowsMoveOn, MovesOn, Live
    <3>3. rows'[o].status \in {rows[o].status, "stale"}
      <4> SUFFICES ASSUME rows[o].status = "leased", rows'[o] # rows[o] PROVE rows'[o].status \in {"leased", "stale"}
        BY <3>1, <3>2
      <4>1. ~UNCHANGED server /\ ~NodeGoesStale
        BY <1>1, StaleServer DEF server
      <4>2. ~PollClaim
        BY <3>1 DEF PollClaim, Basics, ProcessOK, StagesOK, At
      <4>3. ASSUME NEW s \in Sessions, HeartbeatTaken(s), Heartbeat(s), s = Session PROVE FALSE
        <5>1. node'.retired = {} => rows' = rows
          BY <4>3, <1>1, HeartbeatServer
        <5> QED BY <5>1, <1>7
      <4>4. ASSUME NEW s \in Sessions, NEW l \in Lease, NEW q \in 1..MaxSequence, ProgressTaken(s, l, q), Progress(l, q)
            PROVE  rows'[o].status = rows[o].status
        BY <4>4, <3>1, <1>1, ProgressServer
      <4>5. ASSUME NEW s \in Sessions, NEW l \in Lease, NEW x \in Outcomes, ResultTaken(s, l), Result(l, x),
                   SendResult
            PROVE  FALSE
        BY <4>5, <2>2, <3>1, SendResultProcess DEF Basics
      <4>6. ASSUME NEW kind \in {"delete", "other"}, Dispatch(kind) PROVE rows'[o].status = "stale"
        BY <4>6, <3>1, <1>1, DispatchServer DEF Live
      <4>7. LeaseExpires => rows'[o].status = rows[o].status
        BY <3>1, <1>1, ExpiresServer
      <4> QED BY <4>1, <4>2, <4>3, <4>4, <4>5, <4>6, <4>7, <1>3, <2>2, ServerSteps
    <3> QED BY <3>1, <3>3, <2>2
  <2> QED BY <2>1, <2>2, <1>1 DEF Moves, LeaseMoves
<1> QED BY <1>3, <1>6, <1>7, <1>8, <1>9

LEMMA FencedStays ==
  ASSUME Basics, LeasesOK, SequenceOK, AttemptsCounted, Faultless, FencedOnlyWhenSuperseded, [Next]_vars
  PROVE  FencedOnlyWhenSuperseded'
<1> SUFFICES ASSUME faults' = 0, agent'.fence PROVE rows'[agent'.lease.op].status = "stale"
  BY DEF FencedOnlyWhenSuperseded, Lse
<1>1. Basics' /\ Moves /\ ServerOK /\ Faultless'
  BY StepMoves, FaultlessStays DEF Moves, Basics
<1>2. faults = 0 /\ faults' # faults + 1
  BY FaultSteps, AgentAssumption DEF Basics
<1>3. /\ late = {} /\ ~agent.broken /\ node.retired = {} /\ ~agent'.broken /\ node'.retired = {}
  BY <1>1, <1>2 DEF Faultless
<1>4. agent'.lease # None
  BY <1>1 DEF Basics, ProcessOK, StagesOK
<1>5. agent'.lease = agent.lease
  <2>1. ~NewLease
    BY NewLeaseQuiet
  <2> QED BY <2>1, <1>1, <1>4 DEF Moves, LeaseMoves
<1> DEFINE o == agent.lease.op
<1>6. agent.lease \in Lease /\ o \in Ops /\ o = Lse.op
  BY <1>4, <1>5, IdIsOne DEF Basics, Lease, Lse
<1>7. rows[o].status \in {"leased", "stale"} /\ rows'[o].status \in {"leased", "stale"}
  BY <1>1, <1>2, <1>4, <1>5 DEF Faultless, Lse
<1> HIDE DEF o
<1> SUFFICES ASSUME rows'[o].status # "stale" PROVE FALSE
  BY <1>5 DEF o
<1>8. rows[o].status = "leased" /\ rows'[o].status = "leased"
  BY <1>1, <1>6, <1>7 DEF Moves, RowsMoveOn, MovesOn, Live
<1>9. Writable /\ Writable'
  <2>1. node.session = Session /\ ~At("down")
    BY <1>3, <1>4, <1>5, HeldIsUp DEF Basics, SessionsOK
  <2>2. node'.session = Session' /\ agent'.stage # "down"
    BY <1>1, <1>3, <1>4 DEF Basics, SessionsOK, ProcessOK, StagesOK
  <2> QED BY <2>1, <2>2, <1>3 DEF Writable, At
<1>10. rows[o].attempts + Underway <= 2 * faults + InHand(o)
  BY <1>3, <1>6, <1>8, <1>9 DEF AttemptsCounted, Live
<1>11. rows[o].attempts \in Nat /\ rows[o].attempts # 0
  BY <1>1, <1>6, <1>8, RowFields, AgentAssumption DEF ServerOK, RowsCounted
<1>12. Holding
  <2>1. Underway \in {0, 2} /\ InHand(o) \in {0, 1}
    BY DEF Underway, InHand
  <2>2. InHand(o) # 0
    BY <2>1, <1>2, <1>10, <1>11
  <2> QED BY <2>2 DEF InHand
<1>13. rows'[o].attempts # rows[o].attempts + 1
  <2>1. agent.lease # None /\ ~LateClaim
    BY <1>3, <1>4, <1>5 DEF LateClaim
  <2> QED BY <2>1, <1>3, <1>6, <1>8, AttemptSteps DEF Live
<1>14. Holding'
  BY <1>2, <1>3, <1>6, <1>8, <1>9, <1>12, <1>13, HoldingStays DEF Live
<1> QED BY <1>14 DEF Holding

\* The inductive invariant.
IInv ==
  /\ Basics /\ LeasesOK /\ SequenceOK
  /\ AttemptsCounted /\ FailuresStand /\ Faultless /\ FencedOnlyWhenSuperseded

LEMMA InitIInv ==
  ASSUME Init
  PROVE  IInv
<1>1. /\ agent.lease = None /\ late = {} /\ faults = 0 /\ agent.fence = FALSE /\ agent.broken = FALSE
      /\ agent.session = 0 /\ node.retired = {} /\ \A o \in Ops: rows[o].status = "none"
  BY DEF Init, NoRow
<1> QED BY <1>1, InitBasics DEF IInv, LeasesOK, SequenceOK, Current, AttemptsCounted, FailuresStand, Faultless,
           FencedOnlyWhenSuperseded, Live, Session

LEMMA IInvStays ==
  ASSUME IInv, [Next]_vars
  PROVE  IInv'
<1>1. Basics' /\ LeasesOK'
  BY StepMoves, LeasesStay DEF IInv, Moves
<1>2. SequenceOK'
  BY SequencesStay DEF IInv
<1>3. AttemptsCounted'
  BY AttemptsStay DEF IInv
<1>4. FailuresStand'
  BY FailuresStay DEF IInv
<1>5. Faultless'
  BY FaultlessStays DEF IInv
<1>6. FencedOnlyWhenSuperseded'
  BY FencedStays DEF IInv
<1> QED BY <1>1, <1>2, <1>3, <1>4, <1>5, <1>6 DEF IInv

LEMMA IInvHolds == Spec => []IInv
<1>1. Init => IInv
  BY InitIInv
<1>2. IInv /\ [Next]_vars => IInv'
  BY IInvStays
<1> QED BY <1>1, <1>2, PTL DEF Spec

\* Before the first fault an agent is fenced only when the control plane withdrew
\* its command: the keepalive's reports and the runtime's own, numbered from one
\* counter and sent one after the other, never make the sequence fence of the
\* control plane reject one another.
THEOREM FencesSupersede == Spec => []FencedOnlyWhenSuperseded
<1>1. IInv => FencedOnlyWhenSuperseded
  BY DEF IInv
<1> QED BY <1>1, IInvHolds, PTL

\* A success in the journal does not end as a failure as long as the attempts
\* outlast the faults, at two for each: a fault costs the attempt it meets, and a
\* claim that arrives late costs another.
THEOREM SuccessesStand == Spec => [](2 * faults < MaxAttempts => RecordedSuccessStands)
<1>1. IInv => (2 * faults < MaxAttempts => RecordedSuccessStands)
  BY DEF IInv, FailuresStand, Succeeded, ResultOf, RecordedSuccessStands
<1> QED BY <1>1, IInvHolds, PTL

\* With more than two attempts for every fault there can be, the recorded success
\* stands in every behaviour.
THEOREM SuccessStands ==
  ASSUME 2 * MaxFaults < MaxAttempts
  PROVE  Spec => []RecordedSuccessStands
<1>1. IInv => 2 * faults < MaxAttempts
  <2> SUFFICES ASSUME IInv PROVE 2 * faults < MaxAttempts
    OBVIOUS
  <2>1. faults \in 0..MaxFaults
    BY DEF IInv, Basics
  <2> QED BY <2>1, AgentAssumption
<1>2. IInv => RecordedSuccessStands
  BY <1>1 DEF IInv, FailuresStand, Succeeded, ResultOf, RecordedSuccessStands
<1> QED BY <1>2, IInvHolds, PTL
=============================================================================
