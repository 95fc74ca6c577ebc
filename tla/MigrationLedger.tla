--------------------------- MODULE MigrationLedger ---------------------------
(***************************************************************************)
(* What the audit trail of migrate/state.py promises, whoever writes it:   *)
(* the ledger of a key grows by one legal record at a time, every record   *)
(* continues the state its predecessor left the key in, and nothing that   *)
(* was recorded is ever altered or dropped.                                *)
(***************************************************************************)
EXTENDS Sequences, Naturals, MigrationStates

CONSTANTS
  Keys,            \* the keys whose migration is tracked
  Record,          \* the records a ledger may hold
  Entry,           \* Record, and whatever else an inherited ledger may hold
  InitialLedgers   \* \subseteq Seq(Entry): what a ledger may hold when the managers start

VARIABLE ledger    \* [Keys -> Seq(Entry)]

(* A record may follow a ledger that is empty, whose last entry is not
   readable as a record, or whose last record ends where this one starts. *)
Continues(log, rec) ==
  \/ log = <<>>
  \/ log[Len(log)] \notin Record
  \/ log[Len(log)].to = rec.from

Init == ledger \in [Keys -> InitialLedgers]

Extend(k, rec) ==
  /\ LegalRecord(rec)
  /\ Continues(ledger[k], rec)
  /\ ledger' = [ledger EXCEPT ![k] = Append(@, rec)]

Next == \E k \in Keys, rec \in Record : Extend(k, rec)

Spec == Init /\ [][Next]_ledger
==============================================================================
