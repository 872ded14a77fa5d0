---------------------------- MODULE CommandLedger ----------------------------
(***************************************************************************)
(* What a journal promises the agent that writes it: records are added one  *)
(* by one under its rules and never changed; only a power loss takes one    *)
(* away, and never one that was synced; an answer says how safe the record  *)
(* is, depending on whether the call wrote it or found it.                  *)
(***************************************************************************)
EXTENDS JournalRecords

VARIABLES
  stored,        \* the records a restart would find
  durable,       \* the records not even a power loss can take away
  acknowledged,  \* the records whose writer was told of success
  exposed        \* the records a repeated call was told of that are not durable yet

ledgerVars == <<stored, durable, acknowledged, exposed>>

\* Every key has one payload and no record stands without its premises.
Consistent(E) ==
  /\ \A r, x \in E : SameKey(r, x) => r = x
  /\ \A r \in E : r.type # "receipt" => Recorded(E, "receipt", r.id)
  /\ \A r \in E : r.type = "result" =>
       Recorded(E, "effect", r.id) \/ r.data \in Failures

LedgerInit == stored = {} /\ durable = {} /\ acknowledged = {} /\ exposed = {}

\* A new record; nothing joins a command that has its result but the result.
Write ==
  /\ \E r \in Records \ stored : Applicable(stored, r) /\ stored' = stored \cup {r}
  /\ UNCHANGED <<durable, acknowledged, exposed>>

\* All that is stored becomes durable, and one writer may be told.
Commit ==
  /\ durable' = stored
  /\ exposed' = {}
  /\ \/ acknowledged' = acknowledged
     \/ \E r \in stored : acknowledged' = acknowledged \cup {r}
  /\ UNCHANGED stored

\* A call that repeats a stored record is told so although it is not durable.
Confirm ==
  /\ \E r \in stored \ durable : exposed' = exposed \cup {r}
  /\ UNCHANGED <<stored, durable, acknowledged>>

\* A power loss takes records that were not durable, exposed ones too; what is
\* left is durable.
Lose ==
  /\ stored' \in SUBSET stored
  /\ durable \subseteq stored'
  /\ Consistent(stored')
  /\ durable' = stored'
  /\ exposed' = {}
  /\ UNCHANGED acknowledged

LedgerNext == Write \/ Commit \/ Confirm \/ Lose

LedgerSpec == LedgerInit /\ [][LedgerNext]_ledgerVars
=============================================================================
