---------------------------- MODULE AlgorithmNames ----------------------------
(***************************************************************************)
(* Algorithm names and the registries that give them a meaning             *)
(* (kem/algorithms.py, signatures/algorithms.py), and the classification   *)
(* the key inventory makes of them (audit/inventory.py).  A name is the    *)
(* sequence of its parts between "+", and whether it ends in "-v2".        *)
(***************************************************************************)
EXTENDS Naturals, Sequences

NistLevels == 1..5

(* KEM_ALGORITHMS, by nist_level. *)
KemsOfLevel ==
  [l \in NistLevels |->
     CASE l = 1 -> {"ML-KEM-512", "BIKE-L1", "HQC-128"}
       [] l = 3 -> {"ML-KEM-768", "BIKE-L3", "HQC-192"}
       [] l = 5 -> {"ML-KEM-1024", "BIKE-L5", "HQC-256"}
       [] OTHER -> {}]

(* SIGNATURE_ALGORITHMS with the parameter sets _register_slh_dsa adds. *)
SignaturesOfLevel ==
  [l \in NistLevels |->
     CASE l = 1 -> {"SLH-DSA-SHAKE-128s", "SLH-DSA-SHAKE-128f", "SLH-DSA-SHA2-128s", "SLH-DSA-SHA2-128f"}
       [] l = 2 -> {"ML-DSA-44"}
       [] l = 3 -> {"ML-DSA-65", "SLH-DSA-SHAKE-192s", "SLH-DSA-SHAKE-192f",
                    "SLH-DSA-SHA2-192s", "SLH-DSA-SHA2-192f"}
       [] l = 5 -> {"ML-DSA-87", "SLH-DSA-SHAKE-256s", "SLH-DSA-SHAKE-256f",
                    "SLH-DSA-SHA2-256s", "SLH-DSA-SHA2-256f"}
       [] OTHER -> {}]

Kems == UNION {KemsOfLevel[l] : l \in NistLevels}
Signatures == UNION {SignaturesOfLevel[l] : l \in NistLevels}
Standard(pqc) == pqc \notin {"BIKE-L1", "BIKE-L3", "BIKE-L5", "HQC-128", "HQC-192", "HQC-256"}
LevelOf(pqc) == CHOOSE l \in NistLevels : pqc \in KemsOfLevel[l] \cup SignaturesOfLevel[l]

ClassicalKems == {"X25519", "P-256", "P-384"}
ClassicalSignatures == {"Ed25519", "P-256", "P-384"}
------------------------------------------------------------------------------
Name(parts, v2) == [parts |-> parts, v2 |-> v2]
LastPart(name) == name.parts[Len(name.parts)]

(* A "-v2" belongs to signatures: with it a KEM or classical name is no name. *)
NamesKem(name) == LastPart(name) \in Kems /\ ~name.v2
NamesSignature(name) == LastPart(name) \in Signatures

IsPqc(name) == Len(name.parts) = 1 /\ (NamesKem(name) \/ NamesSignature(name))

IsHybrid(name) ==
  /\ Len(name.parts) = 2
  /\ \/ name.parts[1] \in ClassicalKems /\ NamesKem(name)
     \/ name.parts[1] \in ClassicalSignatures /\ NamesSignature(name)

IsClassical(name) ==
  Len(name.parts) = 1 /\ ~name.v2 /\ LastPart(name) \in ClassicalKems \cup ClassicalSignatures

(* classify_algorithm: the kind, with the level and the standing of the
   post-quantum component where there is one. *)
Kind(name) ==
  CASE IsPqc(name)       -> "pqc"
    [] IsHybrid(name)    -> "hybrid"
    [] IsClassical(name) -> "classical"
    [] OTHER             -> "unknown"

HasPqc(name) == Kind(name) \in {"pqc", "hybrid"}
NistLevel(name) == LevelOf(LastPart(name))
IsNistStandard(name) == Standard(LastPart(name))
==============================================================================
