--------------------------- MODULE JournalRecords ---------------------------
(***************************************************************************)
(* The records an agent keeps about the commands it was handed, and the     *)
(* rules packages/agent-journal checks before it takes one.                 *)
(*                                                                          *)
(* A journal entry of the code (receipt, effects, result of one command) is *)
(* the set of records of that command: each key holds one payload, so the   *)
(* map of entries is a set of records.                                      *)
(***************************************************************************)

CONSTANTS
  Receipts,   \* receipt ids (one per command)
  EffectIds,  \* effect ids
  Payloads,   \* payloads, up to canonical JSON equality
  Failures,   \* the payloads with outcome "failed"
  NoEffect    \* the effect id of the other records

ASSUME RecordAssumption ==
  /\ Failures \subseteq Payloads
  /\ NoEffect \notin EffectIds

Receipt == [type: {"receipt"}, id: Receipts, effect: {NoEffect}, data: Payloads]
Effect  == [type: {"effect"}, id: Receipts, effect: EffectIds, data: Payloads]
Result  == [type: {"result"}, id: Receipts, effect: {NoEffect}, data: Payloads]

Records == Receipt \cup Effect \cup Result

\* Two records of one key, which may hold one payload only.
SameKey(r, x) == r.type = x.type /\ r.id = x.id /\ r.effect = x.effect

Recorded(E, type, id) == \E x \in E : x.type = type /\ x.id = id

\* FileAgentJournal.apply takes r after the records of E.
Applicable(E, r) ==
  /\ \A x \in E : SameKey(x, r) => x = r
  /\ r.type = "effect" =>
       Recorded(E, "receipt", r.id) /\ ~Recorded(E, "result", r.id)
  /\ r.type = "result" =>
       /\ Recorded(E, "receipt", r.id)
       /\ Recorded(E, "effect", r.id) \/ r.data \in Failures
=============================================================================
