---------------------------- MODULE BackendAdapters ----------------------------
(***************************************************************************)
(* The adapters of backends/: what each of them answers when a KEM or Sign *)
(* object calls it, given what is installed, and to which other adapter it *)
(* hands a secret key of the other form.  A key is an algorithm and a form *)
(* (a seed, or the expanded key), but an adapter sees only how long it is. *)
(***************************************************************************)
EXTENDS Naturals, Sequences, FiniteSets, EarlyReturns

(* ML-KEM and ML-DSA, and one name of those that only liboqs has. *)
MLKEM == {"ML-KEM-512", "ML-KEM-768", "ML-KEM-1024"}
MLDSA == {"ML-DSA-44", "ML-DSA-65", "ML-DSA-87"}
LiboqsKEMs == MLKEM \cup {"HQC-128"}
LiboqsSigs == MLDSA \cup {"SLH-DSA-SHAKE-128s"}
PycaKEMs == {"ML-KEM-768", "ML-KEM-1024"}
PycaSigs == MLDSA
RustKEMs == MLKEM
RustSigs == MLDSA
Algorithms == LiboqsKEMs \cup LiboqsSigs

KEMOps == {"keygen", "keygen_from_seed", "encapsulate", "decapsulate"}
SigOps == {"keygen", "keygen_from_seed", "sign", "verify", "sign_native", "verify_native"}
Native == {"sign_native", "verify_native"}
Verifying == {"verify", "verify_native"}
SecretOps == {"sign", "sign_native", "decapsulate"}

Forms == {"seed", "expanded"}
Key == {k \in [alg: Algorithms, form: Forms] : k.form = "seed" => k.alg \in MLKEM \cup MLDSA}

(* long: the context is over 255 bytes. *)
Request == {r \in [op: KEMOps \cup SigOps, key: Key, long: BOOLEAN] :
              /\ r.key.alg \in LiboqsKEMs => r.op \in KEMOps
              /\ r.key.alg \in LiboqsSigs => r.op \in SigOps
              /\ r.long => r.op \in {"sign", "verify"} \cup Native}

Answers == {"ok", "rejected", "unsupported", "unavailable", "invalid", "failed", "no_native"}

(* The bytes of a secret key as liboqs exports it; SLH-DSA and HQC have this
   form only. *)
ExpandedBytes(alg) ==
  CASE alg = "ML-KEM-512"         -> 1632
    [] alg = "ML-KEM-768"         -> 2400
    [] alg = "ML-KEM-1024"        -> 3168
    [] alg = "ML-DSA-44"          -> 2560
    [] alg = "ML-DSA-65"          -> 4032
    [] alg = "ML-DSA-87"          -> 4896
    [] alg = "SLH-DSA-SHAKE-128s" -> 64
    [] alg = "HQC-128"            -> 2321

SeedBytes(alg) == IF alg \in MLDSA THEN 32 ELSE 64

SecretBytes(k) == IF k.form = "seed" THEN SeedBytes(k.alg) ELSE ExpandedBytes(k.alg)

------------------------------------------------------------------------------
(* LiboqsKEMBackend and LiboqsSignatureBackend.  oqs: the package imports;
   enabled: the mechanisms its build has. *)
(* Fault variants: every mechanism is asked for; the import alone is enough. *)
LiboqsComplete(family, oqs, enabled) == oqs /\ {"ML-KEM-768", "ML-DSA-65"} \subseteq enabled
LiboqsImports(family, oqs, enabled) == oqs

(* is_available() looks for one mechanism of the family and no other. *)
Probe(family) == IF family = "kem" THEN "ML-KEM-768" ELSE "ML-DSA-65"

LiboqsAvailable(family, oqs, enabled) == oqs /\ Probe(family) \in enabled

(* Seed keys go to pyca, which knows what to do with them. *)
LiboqsHandsOver(r) ==
  \/ r.op = "decapsulate" /\ r.key.alg \in MLKEM /\ SecretBytes(r.key) = 64
  \/ r.op \in {"sign", "sign_native"} /\ r.key.alg \in MLDSA /\ SecretBytes(r.key) = 32

LiboqsKEMAnswers(r, oqs, enabled) ==
  FirstOf(<<<<~oqs, {"unavailable"}>>,
            <<r.key.alg \notin LiboqsKEMs, {"unsupported"}>>,
            <<r.key.alg \notin enabled, {"unsupported"}>>,
            <<r.op = "keygen_from_seed", {"ok", "unsupported", "failed"}>>>>,
          {"ok"})

(* A mechanism the build lacks makes signing raise and verification answer
   False. *)
LiboqsSigAnswers(r, oqs, enabled) ==
  FirstOf(<<<<r.op = "keygen_from_seed", {"unsupported"}>>,
            <<~oqs, {"unavailable"}>>,
            <<r.key.alg \notin LiboqsSigs, {"unsupported"}>>,
            <<r.long, IF r.op \in Verifying THEN {"rejected"} ELSE {"invalid"}>>,
            <<r.key.alg \notin enabled, IF r.op \in Verifying THEN {"rejected"} ELSE {"failed"}>>>>,
          {"ok"})
------------------------------------------------------------------------------
(* PycaKEMBackend and PycaSignatureBackend, on cryptography >= 48, with a
   table of their own of the lengths of expanded keys. *)
PycaKnows(r) == r.key.alg \in PycaKEMs \cup PycaSigs

PycaExpanded(alg) ==
  CASE alg = "ML-DSA-44"   -> 2560
    [] alg = "ML-DSA-65"   -> 4032
    [] alg = "ML-DSA-87"   -> 4896
    [] alg = "ML-KEM-768"  -> 2400
    [] alg = "ML-KEM-1024" -> 3168

(* Fault variant: seed and expanded swapped. *)
PycaHandsOverSeeds(r) == PycaKnows(r) /\ r.op \in SecretOps /\ ~r.long /\ r.key.form = "seed"

(* Expanded keys go to liboqs; a long context is refused before that. *)
PycaHandsOver(r) ==
  /\ PycaKnows(r)
  /\ r.op \in SecretOps
  /\ ~r.long
  /\ SecretBytes(r.key) = PycaExpanded(r.key.alg)

(* The class lookup refuses names before it imports anything; decapsulate
   makes it before the hand-over, sign after. *)
PycaAnswers(r, cryptography) ==
  FirstOf(<<<<r.long, IF r.op \in Verifying THEN {"rejected"} ELSE {"invalid"}>>,
            <<~PycaKnows(r), {"unsupported"}>>,
            <<~cryptography, {"unavailable"}>>,
            <<r.op = "decapsulate" /\ SecretBytes(r.key) # 64, {"invalid"}>>,
            <<r.op \in {"sign", "sign_native"} /\ SecretBytes(r.key) # 32, {"invalid"}>>>>,
          {"ok"})

(* AbstractSignatureBackend.is_available / AbstractKEMBackend.is_available. *)
PycaAvailable(cryptography) == cryptography
------------------------------------------------------------------------------
(* RustCryptoKEMBackend and RustCryptoSignatureBackend.  Seeded generation and
   native contexts are the base class's, which refuses without importing. *)
RustNeedsExtension(r) == r.op \notin {"keygen_from_seed"} \cup Native

RustInherited(r) == IF r.op \in Native THEN {"no_native"} ELSE {"unsupported"}

(* What the extension does outside the table it is said to support, with a
   seed or with a long context is its own affair; verify() turns whatever it
   raises into False. *)
RustAnswers(r) ==
  LET known == /\ r.key.alg \in RustKEMs \cup RustSigs
               /\ r.op \in SecretOps => r.key.form = "expanded"
               /\ ~r.long
  IN  IF known THEN {"ok"} ELSE {"ok", IF r.op = "verify" THEN "rejected" ELSE "failed"}

(* _import_qs_py() raising inside an operation. *)
RustUnavailable(r) == IF r.op = "verify" THEN "rejected" ELSE "unavailable"
------------------------------------------------------------------------------
(* The form of the secret key that key generation returns. *)
MadeForm(backend) == IF backend = "pyca" THEN "seed" ELSE "expanded"
==============================================================================
