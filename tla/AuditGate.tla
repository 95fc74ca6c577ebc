------------------------------- MODULE AuditGate -------------------------------
(***************************************************************************)
(* The gate an organisation runs again and again over its code and keys    *)
(* (audit/auditor.py, audit/compliance.py, audit/cli.py, migrate/cli.py).  *)
(* The state is what a run looks at: the policy, the scanner's findings    *)
(* and the key inventory, if it is given one.  The exit codes are          *)
(* functions of it; the properties compare them from one run to the next.  *)
(***************************************************************************)
EXTENDS AuditPolicy

CONSTANTS
  Findings,      \* bound: what the scanner can find
  Keys,          \* bound: the keys of the organisation
  Names,         \* bound: the algorithm names its inventory uses
  Policies       \* bound: the policies it may adopt

Presets == <<PermissivePolicy, TransitionPolicy, StandardPolicy, StrictPolicy>>

Entries == [algorithm : Names, state : States \cup {NoState}]
Inventories == UNION {[ks -> Entries] : ks \in SUBSET Keys}

(* What __post_init__ lets through. *)
WellFormed(p) ==
  /\ p.minLevel \in NistLevels
  /\ p.allowClassical \in BOOLEAN /\ p.hybridRequired \in BOOLEAN
  /\ p.allowNonNist \in BOOLEAN /\ p.requireInventory \in BOOLEAN
  /\ p.failOn \subseteq Severities
  /\ p.requireState \in States
  /\ p.maxClassical \in Nat \cup {NoLimit}

ASSUME AuditAssumption ==
  /\ \A f \in Findings : f.rule \in ScanRules
  /\ \A p \in Policies : WellFormed(p)
  /\ \A i \in DOMAIN Presets : Presets[i] \in Policies
  /\ IsFiniteSet(Keys)
  /\ NoLimit \notin Nat
  /\ NoState \notin States
  /\ NoInventory \notin Inventories

VARIABLES
  policy,
  findings,
  inventory
vars == <<policy, findings, inventory>>

TypeOK ==
  /\ policy \in Policies
  /\ findings \subseteq Findings
  /\ inventory \in Inventories \cup {NoInventory}
------------------------------------------------------------------------------
(* Auditor.ci_gate. *)
CiGate == IF Passed(policy, findings, inventory) THEN 0 ELSE 1

(* The option --fail-on of both scan commands: a severity or never. *)
Never == CRITICAL + 1
Shown(found, minSeverity) == {f \in found : SeverityOf(f) >= minSeverity}

(* qs-migrate scan: what --min-severity hides does not fail the run. *)
MigrateScan(found, minSeverity, failOn) ==
  IF \E f \in Shown(found, minSeverity) : SeverityOf(f) >= failOn THEN 1 ELSE 0

(* qs-audit scan: a finding that is shown fails it, and so does the policy,
   which was evaluated before anything was hidden. *)
AuditScan(found, minSeverity, failOn, gate) ==
  IF failOn # Never /\ (MigrateScan(found, minSeverity, failOn) = 1 \/ gate = 1) THEN 1 ELSE 0

(* Mutant: one of the weaker rules is behind no control. *)
ControlsWithoutOne ==
  {{"QS001", "QS002", "QS003", "QS011", "QS016", "QS050", "QS051"},
   {"QS001", "QS010", "QS015", "QS050", "QS051"},
   {},
   {"QS030", "QS031", "QS020"},
   {"QS001", "QS010", "QS011"},
   {"QS040"}}

(* NISTComplianceChecker: the rules behind each control. *)
Controls ==
  {{"QS001", "QS002", "QS003", "QS011", "QS016", "QS050", "QS051"},    \* FIPS203-2.1
   {"QS001", "QS010", "QS015", "QS050", "QS051"},                      \* FIPS204-2.1
   {},                                                                 \* FIPS205-2.1, CISA-PQC-1
   {"QS030", "QS031", "QS020", "QS021"},                               \* SP800131A-1
   {"QS001", "QS010", "QS011"},                                        \* CISA-PQC-2
   {"QS040"}}                                                          \* CISA-PQC-3

LevelOfControl(rules, found) ==
  LET triggered == {f \in found : f.rule \in rules} IN
  CASE rules = {}                                               -> "NOT_APPLICABLE"
    [] rules # {} /\ triggered = {}                             -> "COMPLIANT"
    [] \E f \in triggered : SeverityOf(f) >= HIGH               -> "NON_COMPLIANT"
    [] triggered # {} /\ \A f \in triggered : SeverityOf(f) < HIGH -> "PARTIAL"

(* The worst level of a control is that of the report ... *)
OverallLevel(found) ==
  LET levels == {LevelOfControl(c, found) : c \in Controls} IN
  IF "NON_COMPLIANT" \in levels THEN "NON_COMPLIANT"
  ELSE IF "PARTIAL" \in levels THEN "PARTIAL"
  ELSE "COMPLIANT"

(* ... and decides how qs-audit compliance ends. *)
Compliance(found) == IF OverallLevel(found) = "NON_COMPLIANT" THEN 1 ELSE 0
------------------------------------------------------------------------------
Init ==
  /\ policy \in {Presets[i] : i \in DOMAIN Presets}
  /\ findings = {}
  /\ inventory = NoInventory

(* A developer writes or removes what the scanner finds. *)
Write(f) ==
  /\ f \notin findings
  /\ findings' = findings \cup {f}
  /\ UNCHANGED <<policy, inventory>>

Remove(f) ==
  /\ f \in findings
  /\ findings' = findings \ {f}
  /\ UNCHANGED <<policy, inventory>>

(* The gate is run with --inventory, on a file that lists no keys yet, or
   without it again. *)
GiveInventory ==
  /\ inventory = NoInventory
  /\ inventory' = [k \in {} |-> NoState]
  /\ UNCHANGED <<policy, findings>>

DropInventory ==
  /\ inventory # NoInventory
  /\ inventory' = NoInventory
  /\ UNCHANGED <<policy, findings>>

(* A key enters the inventory or leaves it. *)
Record(k, entry) ==
  /\ inventory # NoInventory
  /\ k \notin DOMAIN inventory
  /\ inventory' = [x \in DOMAIN inventory \cup {k} |-> IF x = k THEN entry ELSE inventory[x]]
  /\ UNCHANGED <<policy, findings>>

Retire(k) ==
  /\ inventory # NoInventory
  /\ k \in DOMAIN inventory
  /\ inventory' = [x \in DOMAIN inventory \ {k} |-> inventory[x]]
  /\ UNCHANGED <<policy, findings>>

(* The migration manager moves a tracked key. *)
Move(k, state) ==
  /\ inventory # NoInventory
  /\ k \in DOMAIN inventory
  /\ inventory[k].state # NoState
  /\ state \in Forward[inventory[k].state] \cup Backward[inventory[k].state]
  /\ inventory' = [inventory EXCEPT ![k].state = state]
  /\ UNCHANGED <<policy, findings>>

Adopt(p) ==
  /\ policy' = p
  /\ UNCHANGED <<findings, inventory>>

Next ==
  \/ \E f \in Findings : Write(f) \/ Remove(f)
  \/ GiveInventory
  \/ DropInventory
  \/ \E k \in Keys, e \in Entries : Record(k, e)
  \/ \E k \in Keys : Retire(k)
  \/ \E k \in Keys, s \in States : Move(k, s)
  \/ \E p \in Policies : Adopt(p)

Spec == Init /\ [][Next]_vars
------------------------------------------------------------------------------
(* How many classical-only keys a policy takes: without a limit, none or any. *)
Takes(p, n) ==
  IF p.maxClassical # NoLimit THEN n <= p.maxClassical ELSE p.allowClassical \/ n = 0

(* q asks for at least what p asks, field by field. *)
Stricter(p, q) ==
  /\ p.minLevel <= q.minLevel
  /\ q.allowClassical => p.allowClassical
  /\ p.hybridRequired => q.hybridRequired
  /\ q.allowNonNist => p.allowNonNist
  /\ p.failOn \subseteq q.failOn
  /\ q.exempt \subseteq p.exempt
  /\ StateRank[p.requireState] <= StateRank[q.requireState]
  /\ \A n \in 0..Cardinality(Keys) : Takes(q, n) => Takes(p, n)
  /\ p.maxClassical # NoLimit => q.maxClassical # NoLimit
  /\ p.requireInventory => q.requireInventory

(* The order in which the guide lists the presets. *)
LaterPreset(p, q) ==
  \E i, j \in DOMAIN Presets : i <= j /\ p = Presets[i] /\ q = Presets[j]

(* f is e, less migrated: a key without a state is not taken for classical. *)
NoFurther(e, f) ==
  /\ e.algorithm = f.algorithm
  /\ IF e.state = NoState THEN f.state \in {NoState, "CLASSICAL_ONLY"}
     ELSE IF f.state = NoState THEN e.state # "CLASSICAL_ONLY"
     ELSE StateRank[f.state] <= StateRank[e.state]

(* The inventory has the keys it had, none of them further on. *)
NoBetter(inv, inw) ==
  IF inv = NoInventory \/ inw = NoInventory THEN inv = inw
  ELSE /\ DOMAIN inv \subseteq DOMAIN inw
       /\ \A k \in DOMAIN inv : NoFurther(inv[k], inw[k])

Worse ==
  /\ Stricter(policy, policy') \/ LaterPreset(policy, policy')
  /\ findings \subseteq findings'
  /\ NoBetter(inventory, inventory')

(* A stricter policy, more findings, more keys or keys moved back never turn
   a failing gate into a passing one, in any of the commands and for any of
   their options: ci_gate, both scans and the compliance report. *)
GateIsMonotone ==
  [][Worse =>
       LET before == CiGate
           after == CiGate'
       IN /\ before <= after
          /\ Compliance(findings) <= Compliance(findings')
          /\ \A m \in Severities, o \in Severities \cup {Never} :
               /\ MigrateScan(findings, m, o) <= MigrateScan(findings', m, o)
               /\ AuditScan(findings, m, o, before) <= AuditScan(findings', m, o, after)]_vars

(* "so a pass is never mistaken for a pass on those controls": whatever
   control rejects a key, a run without the inventory would have listed it
   as not evaluated.  allow_classical_only and names outside the registries,
   which that list leaves out, are the exceptions. *)
RejectingControlsAreListed ==
  inventory # NoInventory =>
    KeyViolations(policy, inventory)
      \subseteq Unevaluated(policy) \cup {"classical_only_key", "unknown_algorithm"}

(* Whatever the scanner finds next, the compliance report fails exactly when
   qs-migrate scan does with its default options, and when the default policy
   finds a violation in the code; and it calls the code compliant only if the
   scanner found nothing, so every rule is behind some control. *)
CommandsAgree ==
  \A r \in ScanRules :
    LET found == findings \cup {[rule |-> r, file |-> "any"]} IN
    /\ Compliance(found) = MigrateScan(found, INFO, HIGH)
    /\ Compliance(found) = 1 <=> SourceViolations(StandardPolicy, found) # {}
    /\ OverallLevel(found) # "COMPLIANT"
==============================================================================
