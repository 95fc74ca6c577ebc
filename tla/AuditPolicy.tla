------------------------------ MODULE AuditPolicy ------------------------------
(***************************************************************************)
(* AuditPolicy (audit/policy.py): what a policy rejects in the findings of  *)
(* the scanner and in a key inventory.  Pure definitions: a finding is the  *)
(* rule of the scanner and the file, an inventory maps a key to its         *)
(* algorithm and migration state, a policy is a record of its fields.       *)
(***************************************************************************)
EXTENDS AlgorithmNames, MigrationStates, FiniteSets

CONSTANTS
  NoLimit,       \* max_classical_only_keys = None
  NoState,       \* an entry without a migration state
  NoInventory    \* the audit is given no inventory

INFO == 0
MEDIUM == 1
HIGH == 2
CRITICAL == 3
Severities == INFO..CRITICAL

(* The scanner's rules, _RULES. *)
CriticalRules == {"QS015", "QS031"}
MediumRules == {"QS020", "QS021", "QS030"}
HighRules == {"QS001", "QS002", "QS003", "QS010", "QS011", "QS016", "QS040", "QS050", "QS051"}
ScanRules == CriticalRules \cup HighRules \cup MediumRules
SeverityOf(finding) ==
  CASE finding.rule \in CriticalRules -> CRITICAL
    [] finding.rule \in HighRules     -> HIGH
    [] finding.rule \in MediumRules   -> MEDIUM

(* MIGRATION_STATE_ORDER. *)
StateRank ==
  [CLASSICAL_ONLY |-> 0, HYBRID_TRANSITION |-> 1, PQC_PREFERRED |-> 2, PQC_ONLY |-> 3]

(* AuditPolicy(), strict(), transition() and permissive(). *)
StandardPolicy ==
  [minLevel |-> 3, allowClassical |-> FALSE, hybridRequired |-> TRUE, allowNonNist |-> FALSE,
   failOn |-> {HIGH, CRITICAL}, exempt |-> {}, requireState |-> "HYBRID_TRANSITION",
   maxClassical |-> NoLimit, requireInventory |-> FALSE]
StrictPolicy == [StandardPolicy EXCEPT !.failOn = {MEDIUM, HIGH, CRITICAL}]
TransitionPolicy ==
  [minLevel |-> 1, allowClassical |-> TRUE, hybridRequired |-> TRUE, allowNonNist |-> FALSE,
   failOn |-> {CRITICAL}, exempt |-> {}, requireState |-> "CLASSICAL_ONLY",
   maxClassical |-> NoLimit, requireInventory |-> FALSE]
PermissivePolicy ==
  [minLevel |-> 1, allowClassical |-> TRUE, hybridRequired |-> FALSE, allowNonNist |-> TRUE,
   failOn |-> {CRITICAL}, exempt |-> {}, requireState |-> "CLASSICAL_ONLY",
   maxClassical |-> NoLimit, requireInventory |-> FALSE]
------------------------------------------------------------------------------
(* The findings that are violations: one at a fail_on severity in a file
   that is not exempt; with allow_classical_only, a critical one. *)
SourceViolations(policy, findings) ==
  {f \in findings :
     /\ f.file \notin policy.exempt
     /\ SeverityOf(f) \in policy.failOn
     /\ policy.allowClassical => SeverityOf(f) >= CRITICAL}

(* A key without a post-quantum component, or one that does not use it yet. *)
ClassicalOnly(entry) ==
  \/ Kind(entry.algorithm) = "classical"
  \/ Kind(entry.algorithm) # "unknown" /\ entry.state = "CLASSICAL_ONLY"

KeyRules ==
  {"unknown_algorithm", "classical_only_key", "min_security_level", "hybrid_required",
   "allow_non_nist_standard", "require_migration_state"}

(* Mutant: the state has to be the required one instead of at least that. *)
NotTheState(state, policy) ==
  StateRank[policy.requireState] > 0 /\ state # policy.requireState

(* An entry has not come as far as the policy requires; without a state it
   counts as not having started. *)
BelowState(state, policy) ==
  IF state = NoState THEN StateRank[policy.requireState] > 0
  ELSE StateRank[state] < StateRank[policy.requireState]

(* Which control an entry breaks: a name that is in no registry breaks one
   of its own and none other is looked at. *)
Breaks(rule, policy, entry) ==
  LET name == entry.algorithm IN
  IF Kind(name) = "unknown" THEN rule = "unknown_algorithm"
  ELSE CASE rule = "unknown_algorithm"       -> FALSE
         [] rule = "classical_only_key"      ->
              ClassicalOnly(entry) /\ policy.maxClassical = NoLimit /\ ~policy.allowClassical
         [] rule = "min_security_level"      -> HasPqc(name) /\ NistLevel(name) < policy.minLevel
         [] rule = "hybrid_required"         -> policy.hybridRequired /\ Kind(name) = "pqc"
         [] rule = "allow_non_nist_standard" ->
              ~policy.allowNonNist /\ HasPqc(name) /\ ~IsNistStandard(name)
         [] rule = "require_migration_state" -> BelowState(entry.state, policy)

ClassicalKeys(inventory) == {k \in DOMAIN inventory : ClassicalOnly(inventory[k])}
OverLimit(policy, inventory) ==
  policy.maxClassical # NoLimit /\ Cardinality(ClassicalKeys(inventory)) > policy.maxClassical

(* _evaluate_inventory: the controls the keys break. *)
KeyViolations(policy, inventory) ==
  {r \in KeyRules : \E k \in DOMAIN inventory : Breaks(r, policy, inventory[k])}
    \cup {r \in {"max_classical_only_keys"} : OverLimit(policy, inventory)}

(* Mutant: the limit is not among the controls. *)
UnevaluatedPerKey(policy) ==
  {r \in {"min_security_level"} : policy.minLevel > 1}
    \cup {r \in {"hybrid_required"} : policy.hybridRequired}
    \cup {r \in {"allow_non_nist_standard"} : ~policy.allowNonNist}
    \cup {r \in {"require_migration_state"} : policy.requireState # "CLASSICAL_ONLY"}

(* unevaluated_controls, when there is no inventory to evaluate. *)
Unevaluated(policy) ==
  {r \in {"min_security_level"} : policy.minLevel > 1}
    \cup {r \in {"hybrid_required"} : policy.hybridRequired}
    \cup {r \in {"allow_non_nist_standard"} : ~policy.allowNonNist}
    \cup {r \in {"require_migration_state"} : policy.requireState # "CLASSICAL_ONLY"}
    \cup {r \in {"max_classical_only_keys"} : policy.maxClassical # NoLimit}

(* evaluate returns no violation: the audit has passed. *)
Passed(policy, findings, inventory) ==
  /\ SourceViolations(policy, findings) = {}
  /\ IF inventory = NoInventory
       THEN ~(policy.requireInventory /\ Unevaluated(policy) # {})
       ELSE KeyViolations(policy, inventory) = {}
==============================================================================
