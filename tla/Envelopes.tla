------------------------------- MODULE Envelopes -------------------------------
(***************************************************************************)
(* Sealed messages (protocols/envelope.py) over the KEMs of kem/: what seal *)
(* makes, when open accepts, and rewrap.                                    *)
(***************************************************************************)
EXTENDS KemTerms

Suites == Hybrids \cup {<<"ML-KEM-1024">>}    \* the other KEMs are no envelope suites

VersionFor(algorithm) == IF Len(algorithm) > 1 THEN 1 ELSE 2

(* What AES-GCM authenticates along with the ciphertext. *)
BuildAad(version, algorithm, aad) == <<version, algorithm, aad>>

(* The two versions use the KEM of the suite and their own derivation. *)
EnvelopeKey(version, ss) ==
  IF version = 1 THEN DeriveKey(ss, "qs-envelope-enc-v1", "SHA-256")
                 ELSE DeriveKey(ss, "qs-envelope-enc-v2-cnsa2", "SHA-384")

(* The randomness of a message is one value per plaintext and recipient: it is
   never compared, only that it is the same on both sides. *)
Coin(plain, key) == [plain |-> plain, to |-> key.id]

Seal(plain, key, aad) ==
  LET version == VersionFor(key.algorithm)
      made == IF version = 1 THEN HybridEncapsulate(key, Coin(plain, key))
                             ELSE KemEncapsulate(key, Coin(plain, key))
  IN  [version   |-> version,
       algorithm |-> key.algorithm,
       aad       |-> aad,
       kem_ct    |-> made.ct,
       ciphertext |-> [under |-> EnvelopeKey(version, made.ss), plain |-> plain,
                       bound |-> BuildAad(version, key.algorithm, aad)]]

(* open: the checks that come before the decapsulation, the secret that the
   key gives, and the tag of AES-GCM over it and the rebuilt associated data. *)
Openable(sealed, key, expected) ==
  /\ sealed.aad = expected
  /\ sealed.algorithm \in Suites
  /\ sealed.version = VersionFor(sealed.algorithm)
  /\ key.algorithm = sealed.algorithm

SharedWith(sealed, key) ==
  IF sealed.version = 1 THEN HybridDecapsulate(key, sealed.kem_ct) ELSE KemDecapsulate(key, sealed.kem_ct)

Opens(sealed, key, expected) ==
  /\ Openable(sealed, key, expected)
  /\ sealed.ciphertext.under = EnvelopeKey(sealed.version, SharedWith(sealed, key))
  /\ sealed.ciphertext.bound = BuildAad(sealed.version, sealed.algorithm, sealed.aad)

PlainOf(sealed) == sealed.ciphertext.plain

(* Fault variant of Rewrap: the associated data is left behind. *)
RewrapWithoutAad(sealed, new) == Seal(PlainOf(sealed), new, "none")

(* For a message that opens: the same plaintext and associated data, sealed to
   the new key. *)
Rewrap(sealed, new) == Seal(PlainOf(sealed), new, sealed.aad)
==============================================================================
