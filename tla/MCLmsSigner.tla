------------------------------ MODULE MCLmsSigner ------------------------------
(***************************************************************************)
(* Instances of LmsSigner for TLC: two threads share the first signer, a   *)
(* third uses a second signer of the same key.                             *)
(***************************************************************************)
EXTENDS LmsSigner

CONSTANTS s1, s2, t1, t2, t3

MCStores == {"database", "lenient", "memory"}
Database == {"database"}
MCSignerOf == [t \in Threads |-> IF t = t3 THEN s2 ELSE s1]
==============================================================================
