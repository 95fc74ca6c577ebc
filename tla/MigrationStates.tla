--------------------------- MODULE MigrationStates ---------------------------
(***************************************************************************)
(* The states a key moves through (types/keys.py, MigrationState) and the  *)
(* transition tables of migrate/state.py.  No variables: the modules that  *)
(* track a key, and the key types, share these definitions.                *)
(***************************************************************************)

States == {"CLASSICAL_ONLY", "HYBRID_TRANSITION", "PQC_PREFERRED", "PQC_ONLY"}

(* _FORWARD_TRANSITIONS: toward more PQC; PQC_ONLY is terminal. *)
Forward ==
  [CLASSICAL_ONLY    |-> {"HYBRID_TRANSITION"},
   HYBRID_TRANSITION |-> {"PQC_PREFERRED"},
   PQC_PREFERRED     |-> {"PQC_ONLY"},
   PQC_ONLY          |-> {}]

(* _BACKWARD_TRANSITIONS: toward less PQC, never out of PQC_ONLY. *)
Backward ==
  [CLASSICAL_ONLY    |-> {},
   HYBRID_TRANSITION |-> {"CLASSICAL_ONLY"},
   PQC_PREFERRED     |-> {"HYBRID_TRANSITION"},
   PQC_ONLY          |-> {}]

(* MigrationRecord.is_forward. *)
IsForward(rec) == rec.to \in Forward[rec.from]

(* The validation at the head of transition(): the target is reachable from
   the state the caller expects, and a backward move carries both the flag
   and a reason. *)
Accepted(req) ==
  \/ req.to \in Forward[req.from]
  \/ /\ req.to \in Backward[req.from]
     /\ req.allowBackward
     /\ req.reason

(* What an accepted request leaves in the audit trail. *)
LegalRecord(rec) ==
  \/ IsForward(rec)
  \/ rec.to \in Backward[rec.from] /\ rec.reason
==============================================================================
