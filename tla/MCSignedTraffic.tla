---------------------------- MODULE MCSignedTraffic ----------------------------
(***************************************************************************)
(* An instance of SignedTraffic for TLC: a plain and a hybrid suite in both *)
(* formats, two artefacts, and bytes that could be taken for others: a     *)
(* message with the length of the empty context in front, one with the     *)
(* randomness of a first signature in front, and a context of 113 pieces   *)
(* that goes on as the input of a v2 classical half does.                  *)
(***************************************************************************)
EXTENDS SignedTraffic

MCSuites == {[classical |-> c, pqc |-> "ML-DSA-65", v2 |-> v] : c \in {"none", "Ed25519"}, v \in BOOLEAN}
Zeros(n) == [i \in 1..n |-> [byte |-> 0]]
HybridV2 == [classical |-> "Ed25519", pqc |-> "ML-DSA-65", v2 |-> TRUE]
AsClassical == Tail(Label) \o Byte(0) \o Encoded(HybridV2) \o Byte(109) \o Zeros(109)
MCLong == Zeros(256)    \* one byte too many for a context
MCContexts == {<<>>, Zeros(109), AsClassical, MCLong}
MCMessages == {front \o Str(<<"m">>) : front \in {<<>>, Byte(0), <<[random |-> 0]>>}}
MCAlphabet == UNION {{b[i] : i \in DOMAIN b} : b \in MCContexts \cup MCMessages}
Claims(exp, nbf) == [exp |-> exp, nbf |-> nbf, iss |-> "any", aud |-> {}]
MCCallers == {Claims(Absent, Absent), Claims(Number(1), Number(2)), Claims(Unending, Absent)}
MCLifetimes == {1, 0, -1}
==============================================================================
