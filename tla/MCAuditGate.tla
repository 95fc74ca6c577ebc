------------------------------ MODULE MCAuditGate ------------------------------
(***************************************************************************)
(* The gate for TLC: a finding of each severity in two files, one name of   *)
(* each kind, the presets and the policies one field away from them.        *)
(***************************************************************************)
EXTENDS AuditGate, TLC

MCFindings ==
  {[rule |-> "QS031", file |-> "app"], [rule |-> "QS040", file |-> "test"],
   [rule |-> "QS020", file |-> "app"]}

MCNames ==
  {Name(<<"P-256">>, FALSE), Name(<<"HQC-128">>, FALSE),
   Name(<<"Ed25519", "ML-DSA-44">>, TRUE), Name(<<"X25519", "ML-DSA-65">>, FALSE)}

OneFieldFrom(p) ==
  {[p EXCEPT !.minLevel = l] : l \in {1, 2}}
    \cup {[p EXCEPT !.allowClassical = b] : b \in BOOLEAN}
    \cup {[p EXCEPT !.failOn = s] : s \in {{HIGH}, {MEDIUM, CRITICAL}}}
    \cup {[p EXCEPT !.exempt = {"test"}]}
    \cup {[p EXCEPT !.requireState = s] : s \in {"HYBRID_TRANSITION", "PQC_ONLY"}}
    \cup {[p EXCEPT !.maxClassical = n] : n \in 0..1}
    \cup {[p EXCEPT !.requireInventory = TRUE]}

PresetPolicies == {Presets[i] : i \in 1..4}
MCPolicies ==
  PresetPolicies \cup OneFieldFrom(PermissivePolicy) \cup OneFieldFrom(StandardPolicy)

KeySymmetry == Permutations(Keys)
==============================================================================
