--------------------------------- MODULE Cnsa2 ---------------------------------
(***************************************************************************)
(* The CNSA 2.0 profile (compliance/cnsa2.py): how it rates a selection of *)
(* algorithms, the report made of the ratings, and enforce().  A selection *)
(* left out is NotGiven.                                                   *)
(***************************************************************************)
EXTENDS AlgorithmNames

Kem2 == "ML-KEM-1024"
Signature2 == "ML-DSA-87"
Hashes2 == {"SHA-384", "SHA-512"}
KnownClassical == {"X25519", "X448", "P-256", "P-384", "Ed25519", "Ed448"}
NotGiven == Name(<<"not", "given", "at", "all">>, FALSE)

(* _check_pqc_selection: the "-v2" is not looked at. *)
Malformed(name) == Len(name.parts) > 2 \/ \E i \in DOMAIN name.parts : name.parts[i] = ""
CheckSelection(name, required) ==
  CASE Malformed(name) \/ LastPart(name) # required                  -> "non-compliant"
    [] ~Malformed(name) /\ name.parts = <<required>>                 -> "compliant"
    [] ~Malformed(name) /\ name.parts \in {<<c, required>> : c \in KnownClassical} -> "partial"
    [] OTHER                                                         -> "non-compliant"

CheckKem(name) == CheckSelection(name, Kem2)
CheckSignature(name) == CheckSelection(name, Signature2)

(* Fault variant: the post-quantum half decides. *)
CheckKeyDerivationByHalf(name) == IF LastPart(name) = Kem2 THEN "compliant" ELSE "non-compliant"

CheckKeyDerivation(name) == IF name = Name(<<Kem2>>, FALSE) THEN "compliant" ELSE "non-compliant"

CheckHash(hash) == IF hash \in Hashes2 THEN "compliant" ELSE "non-compliant"

(* report(): the findings.  Code signing is never compliant: LMS is partial
   where its dependency is installed. *)
Report(kem, signature, hashes, codeSigning, keyDerivation, lms) ==
  {CheckKem(n) : n \in {kem} \ {NotGiven}}
    \cup {CheckSignature(n) : n \in {signature} \ {NotGiven}}
    \cup {CheckHash(h) : h \in hashes}
    \cup {CheckKeyDerivation(n) : n \in IF keyDerivation THEN {kem} \ {NotGiven} ELSE {}}
    \cup (IF codeSigning THEN {IF lms THEN "partial" ELSE "not-covered"} ELSE {})

(* ComplianceReport.compliant, and the exit code of qs-audit cnsa2. *)
Compliant(report) == report = {"compliant"}

(* enforce() returns instead of raising. *)
Enforced(kem, signature, strict) ==
  LET findings == Report(kem, signature, {}, FALSE, FALSE, FALSE)
  IN  /\ "non-compliant" \notin findings
      /\ strict => findings \subseteq {"compliant"}
==============================================================================
