-------------------------- MODULE MCMigrationManager --------------------------
(***************************************************************************)
(* Instances of MigrationManager for TLC.                                  *)
(***************************************************************************)
EXTENDS MigrationManager

CONSTANTS t1, t2, t3, p1, p2

(* Two threads share the manager of p1, the third runs in p2. *)
MCProcessOf == [t \in Threads |-> IF t = t3 THEN p2 ELSE p1]

Req(f, g, back, why) == [from |-> f, to |-> g, allowBackward |-> back, reason |-> why]

(* The whole forward path, a roll-back, and one call the validation refuses. *)
MCRequests ==
  {Req("CLASSICAL_ONLY", "HYBRID_TRANSITION", FALSE, FALSE),
   Req("HYBRID_TRANSITION", "PQC_PREFERRED", FALSE, TRUE),
   Req("PQC_PREFERRED", "PQC_ONLY", FALSE, FALSE),
   Req("HYBRID_TRANSITION", "CLASSICAL_ONLY", TRUE, TRUE),
   Req("HYBRID_TRANSITION", "CLASSICAL_ONLY", TRUE, FALSE)}

Inherited(f, g) == [id |-> <<t1, 0>>, from |-> f, to |-> g, reason |-> FALSE]

(* An empty store; one written by an earlier manager; one that holds only a
   _current entry; histories whose last entry or whole value is unreadable. *)
Empty == [history |-> <<>>, current |-> Absent, readable |-> TRUE]
Old == [history |-> <<Inherited("HYBRID_TRANSITION", "PQC_PREFERRED")>>,
        current |-> Inherited("HYBRID_TRANSITION", "PQC_PREFERRED"), readable |-> TRUE]
Legacy == [history |-> <<>>,
           current |-> Inherited("CLASSICAL_ONLY", "HYBRID_TRANSITION"), readable |-> TRUE]
Damaged == [history |-> <<Malformed>>, current |-> Malformed, readable |-> TRUE]
Lost == [history |-> <<>>,
         current |-> Inherited("CLASSICAL_ONLY", "HYBRID_TRANSITION"), readable |-> FALSE]

MCStores == {Empty, Old, Legacy, Damaged, Lost}
==============================================================================
