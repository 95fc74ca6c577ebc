------------------------------- MODULE KemTerms -------------------------------
(***************************************************************************)
(* kem/: KEM and HybridKEM as terms.  A key pair is an identity and an     *)
(* algorithm; a shared secret is what it was computed from, so two secrets *)
(* are equal exactly when every input of the code's combiner is.           *)
(***************************************************************************)
EXTENDS Naturals, Sequences

(* A name is the sequence of its parts between "+", which is also what
   parse_hybrid_name makes of it.  HYBRID_COMBINATIONS: *)
Hybrids ==
  {<<"X25519", pqc>> : pqc \in {"ML-KEM-512", "ML-KEM-768", "ML-KEM-1024"}}
    \cup {<<"P-256", pqc>> : pqc \in {"ML-KEM-512", "ML-KEM-768"}}
    \cup {<<"P-384", "ML-KEM-1024">>}

(* What a key holds for one part of its algorithm. *)
Half(key, name) == <<key.id, key.algorithm, name>>

(* Primitives.  coin is the randomness of one encapsulation.  A Diffie-Hellman
   ciphertext is an ephemeral public key and fits every recipient of the curve;
   ML-KEM gives an unrelated secret when the ciphertext is for another key. *)
Exchange(ct, half) == [curve |-> half, ephemeral |-> ct]
MlKemCiphertext(half, coin) == [to |-> half, coin |-> coin]
MlKemSecret(ct, half) == IF ct.to = half THEN [shared |-> ct] ELSE [rejected |-> <<ct, half>>]

(* KEM.encapsulate and KEM.decapsulate: the key's algorithm must be the
   object's, the ciphertext's is not looked at. *)
KemEncapsulate(key, coin) ==
  LET half == Half(key, key.algorithm[1])  ct == MlKemCiphertext(half, coin)
  IN  [ct |-> ct, ss |-> MlKemSecret(ct, half)]
KemDecapsulate(key, ct) == MlKemSecret(ct, Half(key, key.algorithm[1]))

(* combine_shared_secrets: HKDF over both secrets, salted with both
   ciphertexts, for this algorithm. *)
CombineSharedSecrets(classical_ss, pqc_ss, algorithm, classical_ct, pqc_ct) ==
  [ikm |-> <<classical_ss, pqc_ss>>, salt |-> <<classical_ct, pqc_ct>>, info |-> algorithm]

(* HybridKEM.encapsulate *)
HybridEncapsulate(key, coin) ==
  LET names == key.algorithm
      pqc_ct == MlKemCiphertext(Half(key, names[2]), coin)
  IN  [ct |-> <<coin, pqc_ct>>,
       ss |-> CombineSharedSecrets(Exchange(coin, Half(key, names[1])),
                                   MlKemSecret(pqc_ct, Half(key, names[2])),
                                   key.algorithm, coin, pqc_ct)]

(* HybridKEM.decapsulate, of a ciphertext split into its two parts. *)
HybridDecapsulate(key, ct) ==
  LET names == key.algorithm
  IN  CombineSharedSecrets(Exchange(ct[1], Half(key, names[1])),
                           MlKemSecret(ct[2], Half(key, names[2])),
                           key.algorithm, ct[1], ct[2])

(* SharedSecret.derive_key *)
DeriveKey(ss, info, hash) == [secret |-> ss, info |-> info, hash |-> hash]
==============================================================================
