--------------------------- MODULE AuditGateProofs ---------------------------
(***************************************************************************)
(* A stricter policy and a worse state never open the gate: for all         *)
(* findings, keys, names and well-formed policies.                          *)
(***************************************************************************)
EXTENDS AuditGate, FiniteSetTheorems, TLAPS

LEMMA EmptyInventory == [k \in {} |-> NoState] \in Inventories
<1>1. [k \in {} |-> NoState] \in [{} -> Entries]
  OBVIOUS
<1>2. {} \in SUBSET Keys
  OBVIOUS
<1> QED
  BY <1>1, <1>2 DEF Inventories

LEMMA InventoryType ==
  ASSUME NEW inv \in Inventories
  PROVE  DOMAIN inv \subseteq Keys /\ inv \in [DOMAIN inv -> Entries]
<1>1. PICK ks \in SUBSET Keys : inv \in [ks -> Entries]
  BY DEF Inventories
<1> QED
  BY <1>1

LEMMA MakesInventory ==
  ASSUME NEW ks \in SUBSET Keys, NEW inv \in [ks -> Entries]
  PROVE  inv \in Inventories
  BY DEF Inventories

LEMMA TypeStep == TypeOK /\ [Next]_vars => TypeOK'
<1> SUFFICES ASSUME TypeOK, [Next]_vars PROVE TypeOK'
  OBVIOUS
<1> USE DEF TypeOK
<1>1. ASSUME NEW f \in Findings, Write(f) \/ Remove(f) PROVE TypeOK'
  BY <1>1 DEF Write, Remove
<1>2. CASE GiveInventory
  BY <1>2, EmptyInventory DEF GiveInventory
<1>3. CASE DropInventory
  BY <1>3 DEF DropInventory
<1>4. ASSUME NEW k \in Keys, NEW e \in Entries, Record(k, e) PROVE TypeOK'
  <2>1. inventory \in Inventories
    BY <1>4 DEF Record
  <2>2. inventory' \in [DOMAIN inventory \cup {k} -> Entries]
    BY <1>4, <2>1, InventoryType DEF Record
  <2> QED
    BY <1>4, <2>1, <2>2, InventoryType, MakesInventory DEF Record
<1>5. ASSUME NEW k \in Keys, Retire(k) PROVE TypeOK'
  <2>1. inventory \in Inventories
    BY <1>5 DEF Retire
  <2>2. inventory' \in [DOMAIN inventory \ {k} -> Entries]
    BY <1>5, <2>1, InventoryType DEF Retire
  <2> QED
    BY <1>5, <2>1, <2>2, InventoryType, MakesInventory DEF Retire
<1>6. ASSUME NEW k \in Keys, NEW s \in States, Move(k, s) PROVE TypeOK'
  <2>1. inventory \in Inventories
    BY <1>6 DEF Move
  <2>2. inventory[k] \in Entries
    BY <1>6, <2>1, InventoryType DEF Move
  <2>3. [inventory[k] EXCEPT !.state = s] \in Entries
    BY <2>2 DEF Entries
  <2>4. inventory' \in [DOMAIN inventory -> Entries]
    BY <1>6, <2>1, <2>3, InventoryType DEF Move
  <2> QED
    BY <1>6, <2>1, <2>4, InventoryType, MakesInventory DEF Move
<1>7. ASSUME NEW p \in Policies, Adopt(p) PROVE TypeOK'
  BY <1>7 DEF Adopt
<1>8. CASE UNCHANGED vars
  BY <1>8 DEF vars
<1> QED
  BY <1>1, <1>2, <1>3, <1>4, <1>5, <1>6, <1>7, <1>8 DEF Next

(* The gate looks at a policy it may adopt, findings of the scanner and an
   inventory of known keys, or none. *)
THEOREM Typing == Spec => []TypeOK
<1>1. Init => TypeOK
  BY AuditAssumption DEF Init, TypeOK
<1> QED
  BY <1>1, TypeStep, PTL DEF Spec
------------------------------------------------------------------------------
(* The guide lists the presets from the loosest to the strictest. *)
LEMMA PresetsOrdered ==
  ASSUME NEW p, NEW q, LaterPreset(p, q)
  PROVE  Stricter(p, q)
<1>1. PICK i \in 1..4, j \in 1..4 : i <= j /\ p = Presets[i] /\ q = Presets[j]
  BY DEF LaterPreset, Presets
<1>2. ASSUME NEW k \in 1..4
      PROVE
        /\ Presets[k].minLevel = IF k <= 2 THEN 1 ELSE 3
        /\ Presets[k].allowClassical <=> k <= 2
        /\ Presets[k].hybridRequired <=> k > 1
        /\ Presets[k].allowNonNist <=> k = 1
        /\ Presets[k].failOn = IF k <= 2 THEN {CRITICAL} ELSE IF k = 3 THEN {HIGH, CRITICAL}
                               ELSE {MEDIUM, HIGH, CRITICAL}
        /\ Presets[k].exempt = {}
        /\ Presets[k].requireState = IF k <= 2 THEN "CLASSICAL_ONLY" ELSE "HYBRID_TRANSITION"
        /\ Presets[k].maxClassical = NoLimit
        /\ ~Presets[k].requireInventory
  <2>1. CASE k = 1
    BY <2>1 DEF Presets, PermissivePolicy
  <2>2. CASE k = 2
    BY <2>2 DEF Presets, TransitionPolicy
  <2>3. CASE k = 3
    BY <2>3 DEF Presets, StandardPolicy
  <2>4. CASE k = 4
    BY <2>4 DEF Presets, StrictPolicy, StandardPolicy
  <2> QED
    BY <2>1, <2>2, <2>3, <2>4
<1>3. p.failOn \subseteq q.failOn
  BY <1>1, <1>2
<1>4. StateRank[p.requireState] <= StateRank[q.requireState]
  BY <1>1, <1>2 DEF StateRank
<1> QED
  BY <1>1, <1>2, <1>3, <1>4 DEF Stricter, Takes

LEMMA SourceMonotone ==
  ASSUME NEW p, NEW q, NEW F, NEW G, Stricter(p, q), F \subseteq G
  PROVE  SourceViolations(p, F) \subseteq SourceViolations(q, G)
  BY DEF Stricter, SourceViolations

LEMMA LevelType ==
  ASSUME NEW name, HasPqc(name)
  PROVE  NistLevel(name) \in NistLevels
<1>1. LastPart(name) \in Kems \cup Signatures
  BY DEF HasPqc, Kind, IsPqc, IsHybrid, IsClassical, NamesKem, NamesSignature
<1>2. \E l \in NistLevels : LastPart(name) \in KemsOfLevel[l] \cup SignaturesOfLevel[l]
  BY <1>1 DEF Kems, Signatures
<1> QED
  BY <1>2 DEF NistLevel, LevelOf

LEMMA ClassicalMonotone ==
  ASSUME NEW e \in Entries, NEW f \in Entries, NoFurther(e, f), ClassicalOnly(e)
  PROVE  ClassicalOnly(f)
  BY AuditAssumption DEF NoFurther, ClassicalOnly, Entries, States, StateRank

(* An entry that is no further on breaks, under a stricter policy, every
   control it broke; classical-only keys are counted together below. *)
LEMMA BreaksMonotone ==
  ASSUME NEW p \in Policies, NEW q \in Policies, Stricter(p, q),
         NEW e \in Entries, NEW f \in Entries, NoFurther(e, f),
         NEW r \in KeyRules \ {"classical_only_key"}, Breaks(r, p, e)
  PROVE  Breaks(r, q, f)
<1> USE DEF Breaks, NoFurther, Stricter
<1>1. WellFormed(p) /\ WellFormed(q)
  BY AuditAssumption
<1>2. CASE r = "unknown_algorithm"
  BY <1>2
<1>3. CASE r = "min_security_level"
  BY <1>1, <1>3, LevelType DEF WellFormed, NistLevels, HasPqc
<1>4. CASE r \in {"hybrid_required", "allow_non_nist_standard"}
  BY <1>1, <1>4 DEF WellFormed, HasPqc
<1>5. CASE r = "require_migration_state"
  <2>1. Kind(e.algorithm) # "unknown" /\ BelowState(e.state, p)
    BY <1>5
  <2>2. BelowState(f.state, q)
    BY <2>1, <1>1, AuditAssumption DEF BelowState, WellFormed, States, StateRank, Entries
  <2> QED
    BY <1>5, <2>1, <2>2
<1> QED
  BY <1>2, <1>3, <1>4, <1>5 DEF KeyRules

LEMMA FewerClassical ==
  ASSUME NEW I \in Inventories, NEW J \in Inventories, NoBetter(I, J)
  PROVE  /\ ClassicalKeys(I) \subseteq ClassicalKeys(J)
         /\ IsFiniteSet(ClassicalKeys(I)) /\ IsFiniteSet(ClassicalKeys(J))
         /\ Cardinality(ClassicalKeys(I)) <= Cardinality(ClassicalKeys(J))
         /\ Cardinality(ClassicalKeys(I)) \in 0..Cardinality(Keys)
         /\ Cardinality(ClassicalKeys(J)) \in Nat
<1>1. ClassicalKeys(I) \subseteq ClassicalKeys(J)
  BY ClassicalMonotone, InventoryType, AuditAssumption DEF ClassicalKeys, NoBetter
<1>2. ClassicalKeys(I) \subseteq Keys /\ ClassicalKeys(J) \subseteq Keys
  BY InventoryType DEF ClassicalKeys
<1> QED
  BY <1>1, <1>2, FS_Subset, FS_CardinalityType, AuditAssumption

(* Classical-only keys the looser policy does not take, the stricter does
   not take either, whichever of its two controls is the one that counts. *)
LEMMA ClassicalKeysRejected ==
  ASSUME NEW p \in Policies, NEW q \in Policies, Stricter(p, q),
         NEW I \in Inventories, NEW J \in Inventories, NoBetter(I, J),
         ~Takes(p, Cardinality(ClassicalKeys(I)))
  PROVE  KeyViolations(q, J) # {}
<1> DEFINE n == Cardinality(ClassicalKeys(I))
           m == Cardinality(ClassicalKeys(J))
<1>1. n \in 0..Cardinality(Keys) /\ m \in Nat /\ n <= m
  BY FewerClassical
<1>2. ~Takes(q, n)
  BY <1>1 DEF Stricter
<1>3. CASE q.maxClassical # NoLimit
  <2>1. q.maxClassical \in Nat
    BY <1>3, AuditAssumption DEF WellFormed
  <2>2. OverLimit(q, J)
    BY <1>1, <1>2, <1>3, <2>1 DEF Takes, OverLimit
  <2> QED
    BY <2>2 DEF KeyViolations
<1>4. CASE q.maxClassical = NoLimit
  <2>1. ~q.allowClassical /\ n # 0
    BY <1>2, <1>4 DEF Takes
  <2>2. ClassicalKeys(I) # {}
    BY <2>1, FS_EmptySet
  <2>3. PICK k \in DOMAIN J : ClassicalOnly(J[k])
    BY <2>2, FewerClassical DEF ClassicalKeys
  <2>4. Breaks("classical_only_key", q, J[k])
    BY <2>1, <2>3, <1>4 DEF Breaks, ClassicalOnly
  <2> QED
    BY <2>3, <2>4 DEF KeyViolations, KeyRules
<1> QED
  BY <1>3, <1>4

LEMMA KeyMonotone ==
  ASSUME NEW p \in Policies, NEW q \in Policies, Stricter(p, q),
         NEW I \in Inventories, NEW J \in Inventories, NoBetter(I, J),
         KeyViolations(p, I) # {}
  PROVE  KeyViolations(q, J) # {}
<1> DEFINE n == Cardinality(ClassicalKeys(I))
<1>1. n \in Nat /\ IsFiniteSet(ClassicalKeys(I))
  BY FewerClassical
<1>2. CASE OverLimit(p, I)
  <2>1. p.maxClassical \in Nat
    BY <1>2, AuditAssumption DEF WellFormed, OverLimit
  <2>2. ~Takes(p, n)
    BY <1>1, <1>2, <2>1 DEF Takes, OverLimit
  <2> QED
    BY <2>2, ClassicalKeysRejected
<1>3. CASE ~OverLimit(p, I)
  <2>1. PICK r \in KeyRules, k \in DOMAIN I : Breaks(r, p, I[k])
    BY <1>3 DEF KeyViolations
  <2>2. CASE r = "classical_only_key"
    <3>1. ClassicalOnly(I[k]) /\ p.maxClassical = NoLimit /\ ~p.allowClassical
      BY <2>1, <2>2 DEF Breaks
    <3>2. ClassicalKeys(I) # {}
      BY <3>1 DEF ClassicalKeys
    <3>3. ~Takes(p, n)
      BY <1>1, <3>1, <3>2, FS_EmptySet DEF Takes
    <3> QED
      BY <3>3, ClassicalKeysRejected
  <2>3. CASE r # "classical_only_key"
    <3>1. k \in DOMAIN J /\ NoFurther(I[k], J[k])
      BY AuditAssumption DEF NoBetter
    <3>2. I[k] \in Entries /\ J[k] \in Entries
      BY <3>1, InventoryType
    <3>3. Breaks(r, q, J[k])
      BY <2>1, <2>3, <3>1, <3>2, BreaksMonotone
    <3> QED
      BY <3>1, <3>3 DEF KeyViolations
  <2> QED
    BY <2>2, <2>3
<1> QED
  BY <1>2, <1>3

LEMMA UnevaluatedMonotone ==
  ASSUME NEW p \in Policies, NEW q \in Policies, Stricter(p, q)
  PROVE  Unevaluated(p) \subseteq Unevaluated(q)
<1>1. WellFormed(p) /\ WellFormed(q)
  BY AuditAssumption
<1>2. p.requireState # "CLASSICAL_ONLY" => q.requireState # "CLASSICAL_ONLY"
  BY <1>1 DEF WellFormed, Stricter, States, StateRank
<1>3. p.minLevel > 1 => q.minLevel > 1
  BY <1>1 DEF WellFormed, Stricter, NistLevels
<1> QED
  BY <1>1, <1>2, <1>3 DEF Unevaluated, Stricter, WellFormed

LEMMA PassedMonotone ==
  ASSUME NEW p \in Policies, NEW q \in Policies, Stricter(p, q),
         NEW F, NEW G, F \subseteq G,
         NEW I \in Inventories \cup {NoInventory}, NEW J \in Inventories \cup {NoInventory},
         NoBetter(I, J), Passed(q, G, J)
  PROVE  Passed(p, F, I)
<1>1. SourceViolations(p, F) = {}
  BY SourceMonotone DEF Passed
<1>2. CASE I = NoInventory
  <2>1. J = NoInventory
    BY <1>2 DEF NoBetter
  <2>2. ~(q.requireInventory /\ Unevaluated(q) # {})
    BY <2>1 DEF Passed
  <2>3. ~(p.requireInventory /\ Unevaluated(p) # {})
    BY <2>2, UnevaluatedMonotone DEF Stricter
  <2> QED
    BY <1>1, <1>2, <2>3 DEF Passed
<1>3. CASE I # NoInventory
  <2>1. J # NoInventory
    BY <1>3 DEF NoBetter
  <2>2. KeyViolations(q, J) = {}
    BY <2>1 DEF Passed
  <2>3. KeyViolations(p, I) = {}
    BY <1>3, <2>1, <2>2, KeyMonotone
  <2> QED
    BY <1>1, <1>3, <2>3 DEF Passed
<1> QED
  BY <1>2, <1>3
------------------------------------------------------------------------------
LEMMA ScansMonotone ==
  ASSUME NEW F, NEW G, F \subseteq G, NEW m, NEW o
  PROVE  /\ MigrateScan(F, m, o) \in 0..1 /\ MigrateScan(G, m, o) \in 0..1
         /\ MigrateScan(F, m, o) <= MigrateScan(G, m, o)
<1>1. Shown(F, m) \subseteq Shown(G, m)
  BY DEF Shown
<1> QED
  BY <1>1 DEF MigrateScan

LEMMA ComplianceMonotone ==
  ASSUME NEW F, NEW G, F \subseteq G
  PROVE  Compliance(F) <= Compliance(G)
<1>1. ASSUME NEW c \in Controls, LevelOfControl(c, F) = "NON_COMPLIANT"
      PROVE  LevelOfControl(c, G) = "NON_COMPLIANT"
  BY <1>1 DEF LevelOfControl
<1> QED
  BY <1>1 DEF Compliance, OverallLevel

(* No step that makes the state worse or the policy stricter opens a gate
   that was shut, for the exit codes of all the commands. *)
THEOREM NeverOpens == Spec => GateIsMonotone
<1>1. ASSUME TypeOK, TypeOK', Worse
      PROVE  /\ CiGate <= CiGate'
             /\ Compliance(findings) <= Compliance(findings')
             /\ \A m \in Severities, o \in Severities \cup {Never} :
                  /\ MigrateScan(findings, m, o) <= MigrateScan(findings', m, o)
                  /\ AuditScan(findings, m, o, CiGate) <= AuditScan(findings', m, o, CiGate')
  <2>1. Stricter(policy, policy')
    BY <1>1, PresetsOrdered DEF Worse
  <2>2. Passed(policy', findings', inventory') => Passed(policy, findings, inventory)
    BY <1>1, <2>1, PassedMonotone DEF Worse, TypeOK
  <2>3. CiGate \in 0..1 /\ CiGate' \in 0..1 /\ CiGate <= CiGate'
    BY <2>2 DEF CiGate
  <2>4. Compliance(findings) <= Compliance(findings')
    BY <1>1, ComplianceMonotone DEF Worse
  <2>5. ASSUME NEW m \in Severities, NEW o \in Severities \cup {Never}
        PROVE  /\ MigrateScan(findings, m, o) <= MigrateScan(findings', m, o)
               /\ AuditScan(findings, m, o, CiGate) <= AuditScan(findings', m, o, CiGate')
    <3>1. /\ MigrateScan(findings, m, o) \in 0..1 /\ MigrateScan(findings', m, o) \in 0..1
          /\ MigrateScan(findings, m, o) <= MigrateScan(findings', m, o)
      BY <1>1, ScansMonotone DEF Worse
    <3> QED
      BY <2>3, <3>1 DEF AuditScan
  <2> QED
    BY <2>3, <2>4, <2>5
<1>2. TypeOK /\ TypeOK' => (Worse =>
        LET before == CiGate
            after == CiGate'
        IN /\ before <= after
           /\ Compliance(findings) <= Compliance(findings')
           /\ \A m \in Severities, o \in Severities \cup {Never} :
                /\ MigrateScan(findings, m, o) <= MigrateScan(findings', m, o)
                /\ AuditScan(findings, m, o, before) <= AuditScan(findings', m, o, after))
  BY <1>1
<1> QED
  BY <1>2, Typing, PTL DEF GateIsMonotone

(* Every control that can reject a key would have been listed as not
   evaluated, but for allow_classical_only and unknown names. *)
THEOREM NoSilentControl == Spec => []RejectingControlsAreListed
<1>1. TypeOK => RejectingControlsAreListed
  <2> SUFFICES ASSUME TypeOK, inventory # NoInventory,
                      NEW r \in KeyViolations(policy, inventory),
                      r \notin {"classical_only_key", "unknown_algorithm"}
               PROVE  r \in Unevaluated(policy)
    BY DEF RejectingControlsAreListed
  <2>1. WellFormed(policy) /\ inventory \in Inventories
    BY AuditAssumption DEF TypeOK
  <2>2. CASE r = "max_classical_only_keys"
    BY <2>2 DEF KeyViolations, KeyRules, OverLimit, Unevaluated
  <2>3. CASE r # "max_classical_only_keys"
    <3>1. PICK k \in DOMAIN inventory : r \in KeyRules /\ Breaks(r, policy, inventory[k])
      BY <2>3 DEF KeyViolations
    <3>2. inventory[k] \in Entries
      BY <2>1, InventoryType
    <3>3. CASE r = "min_security_level"
      BY <3>1, <3>3, <2>1, LevelType DEF Breaks, Unevaluated, WellFormed, NistLevels
    <3>4. CASE r \in {"hybrid_required", "allow_non_nist_standard"}
      BY <3>1, <3>4 DEF Breaks, Unevaluated
    <3>5. CASE r = "require_migration_state"
      <4>1. BelowState(inventory[k].state, policy)
        BY <3>1, <3>5 DEF Breaks
      <4>2. policy.requireState # "CLASSICAL_ONLY"
        BY <4>1, <3>2 DEF BelowState, Entries, States, StateRank
      <4> QED
        BY <3>5, <4>2 DEF Unevaluated
    <3> QED
      BY <3>1, <3>3, <3>4, <3>5 DEF KeyRules
  <2> QED
    BY <2>2, <2>3
<1> QED
  BY <1>1, Typing, PTL
------------------------------------------------------------------------------
(* A rule of the scanner has one severity, and the compliance controls cover
   every rule. *)
LEMMA SeverityOfRule ==
  ASSUME NEW f, f.rule \in ScanRules
  PROVE  /\ SeverityOf(f) \in Severities
         /\ SeverityOf(f) >= HIGH <=> f.rule \in HighRules \cup CriticalRules
<1>1. CASE f.rule \in CriticalRules
  <2>1. f.rule \notin HighRules \cup MediumRules
    BY <1>1 DEF CriticalRules, HighRules, MediumRules
  <2> QED
    BY <1>1, <2>1 DEF SeverityOf, Severities, INFO, MEDIUM, HIGH, CRITICAL
<1>2. CASE f.rule \in HighRules
  <2>1. f.rule \notin CriticalRules \cup MediumRules
    BY <1>2 DEF CriticalRules, HighRules, MediumRules
  <2> QED
    BY <1>2, <2>1 DEF SeverityOf, Severities, INFO, MEDIUM, HIGH, CRITICAL
<1>3. CASE f.rule \in MediumRules
  <2>1. f.rule \notin CriticalRules \cup HighRules
    BY <1>3 DEF CriticalRules, HighRules, MediumRules
  <2> QED
    BY <1>3, <2>1 DEF SeverityOf, Severities, INFO, MEDIUM, HIGH, CRITICAL
<1> QED
  BY <1>1, <1>2, <1>3 DEF ScanRules

LEMMA ControlsCover ==
  ASSUME NEW rule \in ScanRules
  PROVE  \E c \in Controls : rule \in c
  BY DEF ScanRules, HighRules, CriticalRules, MediumRules, Controls

LEMMA NonCompliant ==
  ASSUME NEW c, NEW F, \A f \in F : f.rule \in ScanRules
  PROVE  LevelOfControl(c, F) = "NON_COMPLIANT" <=> \E f \in F : f.rule \in c /\ SeverityOf(f) >= HIGH
<1> DEFINE triggered == {f \in F : f.rule \in c}
<1>1. CASE \E f \in triggered : SeverityOf(f) >= HIGH
  <2>1. ~\A f \in triggered : SeverityOf(f) < HIGH
    BY <1>1, SeverityOfRule DEF Severities, INFO, HIGH, CRITICAL
  <2> QED
    BY <1>1, <2>1 DEF LevelOfControl
<1>2. CASE c = {} \/ triggered = {}
  BY <1>2 DEF LevelOfControl
<1>3. CASE triggered # {} /\ \A f \in triggered : ~(SeverityOf(f) >= HIGH)
  <2>1. \A f \in triggered : SeverityOf(f) < HIGH
    BY <1>3, SeverityOfRule DEF Severities, INFO, HIGH, CRITICAL
  <2> QED
    BY <1>3, <2>1 DEF LevelOfControl
<1> QED
  BY <1>1, <1>2, <1>3

(* A finding of a control's rules keeps it from being compliant. *)
LEMMA NotCompliant ==
  ASSUME NEW c, NEW F, \A f \in F : f.rule \in ScanRules, \E f \in F : f.rule \in c
  PROVE  LevelOfControl(c, F) \in {"NON_COMPLIANT", "PARTIAL"}
<1> DEFINE triggered == {f \in F : f.rule \in c}
<1>1. c # {} /\ triggered # {}
  OBVIOUS
<1>2. CASE \E f \in triggered : SeverityOf(f) >= HIGH
  BY <1>2, NonCompliant
<1>3. CASE \A f \in triggered : ~(SeverityOf(f) >= HIGH)
  <2>1. \A f \in triggered : SeverityOf(f) < HIGH
    BY <1>3, SeverityOfRule DEF Severities, INFO, HIGH, CRITICAL
  <2> QED
    BY <1>1, <1>3, <2>1 DEF LevelOfControl
<1> QED
  BY <1>2, <1>3

LEMMA DefaultViolation ==
  ASSUME NEW F, \A f \in F : f.rule \in ScanRules
  PROVE  SourceViolations(StandardPolicy, F) # {} <=> \E f \in F : SeverityOf(f) >= HIGH
<1>1. StandardPolicy.failOn = {HIGH, CRITICAL} /\ StandardPolicy.exempt = {} /\ ~StandardPolicy.allowClassical
  BY DEF StandardPolicy
<1>2. ASSUME NEW f \in F
      PROVE  SeverityOf(f) \in {HIGH, CRITICAL} <=> SeverityOf(f) >= HIGH
  BY SeverityOfRule DEF Severities, INFO, HIGH, CRITICAL
<1> QED
  BY <1>1, <1>2 DEF SourceViolations

(* Whatever the scanner has found and finds next, the compliance report, the
   default scan and the default policy agree on the code, and the report is
   compliant about no finding. *)
THEOREM CommandsAlike == Spec => []CommandsAgree
<1>1. TypeOK => CommandsAgree
  <2> SUFFICES ASSUME TypeOK, NEW r \in ScanRules,
                      NEW found, found = findings \cup {[rule |-> r, file |-> "any"]}
               PROVE  /\ Compliance(found) = MigrateScan(found, INFO, HIGH)
                      /\ Compliance(found) = 1 <=> SourceViolations(StandardPolicy, found) # {}
                      /\ OverallLevel(found) # "COMPLIANT"
    BY DEF CommandsAgree
  <2>1. \A f \in found : f.rule \in ScanRules
    BY AuditAssumption DEF TypeOK
  <2>2. Compliance(found) = 1 <=> \E f \in found : SeverityOf(f) >= HIGH
    <3>1. Compliance(found) = 1
            <=> \E c \in Controls, f \in found : f.rule \in c /\ SeverityOf(f) >= HIGH
      BY <2>1, NonCompliant DEF Compliance, OverallLevel
    <3>2. ASSUME NEW f \in found
          PROVE  \E c \in Controls : f.rule \in c
      BY <2>1, <3>2, ControlsCover
    <3> QED
      BY <3>1, <3>2
  <2>3. Compliance(found) \in {0, 1}
    BY DEF Compliance
  <2>4. MigrateScan(found, INFO, HIGH) = 1 <=> \E f \in found : SeverityOf(f) >= HIGH
    <3>1. \A f \in found : SeverityOf(f) >= INFO
      BY <2>1, SeverityOfRule DEF Severities, INFO, CRITICAL
    <3> QED
      BY <3>1 DEF MigrateScan, Shown
  <2>5. MigrateScan(found, INFO, HIGH) \in {0, 1}
    BY DEF MigrateScan
  <2>6. OverallLevel(found) # "COMPLIANT"
    <3>1. PICK c \in Controls : r \in c
      BY ControlsCover
    <3>2. [rule |-> r, file |-> "any"] \in found /\ [rule |-> r, file |-> "any"].rule \in c
      BY <3>1
    <3>3. LevelOfControl(c, found) \in {"NON_COMPLIANT", "PARTIAL"}
      BY <2>1, <3>2, NotCompliant
    <3> QED
      BY <3>1, <3>3 DEF OverallLevel
  <2> QED
    BY <2>2, <2>3, <2>4, <2>5, <2>1, DefaultViolation, <2>6
<1> QED
  BY <1>1, Typing, PTL
==============================================================================
