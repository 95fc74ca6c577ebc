------------------------- MODULE MCFileMigrationStore -------------------------
(***************************************************************************)
(* Instances of FileMigrationStore for TLC.                                *)
(***************************************************************************)
EXTENDS FileMigrationStore

CONSTANTS p1, p2, p3

AllKinds == {"cas", "set", "delete"}
CasOnly == {"cas"}
(* The lock of a process that died earlier; it may also be free. *)
Leftover == {[owner |-> <<p1, 0>>, fresh |-> FALSE]}
FreeOrLeftover == Leftover \cup {NoLock}
==============================================================================
