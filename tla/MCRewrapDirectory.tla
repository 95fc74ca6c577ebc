-------------------------- MODULE MCRewrapDirectory --------------------------
(***************************************************************************)
(* Instances of RewrapDirectory for TLC.                                    *)
(***************************************************************************)
EXTENDS RewrapDirectory

MCOldSuite == <<"X25519", "ML-KEM-768">>
==============================================================================
