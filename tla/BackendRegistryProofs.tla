------------------------- MODULE BackendRegistryProofs -------------------------
(***************************************************************************)
(* What BackendRegistry promises, for any number of threads, of calls and  *)
(* of liboqs builds, whatever is installed while they run.                 *)
(***************************************************************************)
EXTENDS BackendRegistry, TLAPS

LEMMA Resolved ==
  ASSUME NEW n
  PROVE  /\ n # "auto" => Resolve(n) = n
         /\ Resolve(n) = "auto" => n = "auto"
  BY DEF Resolve

LEMMA NobodyHit ==
  ASSUME NEW checks, NEW otherwise, \A i \in DOMAIN checks : ~checks[i][1]
  PROVE  FirstOf(checks, otherwise) = otherwise
  BY DEF FirstOf

(* A result comes from a check that applies, or none does. *)
LEMMA FirstHit ==
  ASSUME NEW checks, NEW otherwise, DOMAIN checks \subseteq 1..5
  PROVE  \/ FirstOf(checks, otherwise) = otherwise
         \/ \E i \in DOMAIN checks : checks[i][1] /\ FirstOf(checks, otherwise) = checks[i][2]
<1> DEFINE hits == {i \in DOMAIN checks : checks[i][1]}
<1>1. CASE hits = {}
  BY <1>1 DEF FirstOf
<1>2. CASE hits # {}
  <2>1. \E i \in hits : \A j \in hits : i <= j
    <3> HIDE DEF hits
    <3>1. hits \subseteq 1..5
      BY DEF hits
    <3>2. CASE 1 \in hits
      BY <3>1, <3>2
    <3>3. CASE 1 \notin hits /\ 2 \in hits
      BY <3>1, <3>3
    <3>4. CASE hits \subseteq 3..5 /\ 3 \in hits
      BY <3>1, <3>4
    <3>5. CASE hits \subseteq 4..5 /\ 4 \in hits
      BY <3>1, <3>5
    <3>6. CASE hits \subseteq {5}
      <4>1. 5 \in hits /\ \A j \in hits : j = 5
        BY <1>2, <3>6
      <4> QED
        BY <4>1
    <3> QED
      BY <3>1, <3>2, <3>3, <3>4, <3>5, <3>6
  <2>2. PICK first \in hits : first = CHOOSE i \in hits : \A j \in hits : i <= j
    BY <2>1
  <2> QED
    BY <1>2, <2>2 DEF FirstOf
<1> QED
  BY <1>1, <1>2
------------------------------------------------------------------------------
(* What liboqs does not hand over, it does, when it has the mechanism. *)
LEMMA LiboqsDoes ==
  ASSUME NEW r \in Request, r.op \in SecretOps, ~r.long, ~LiboqsHandsOver(r),
         NEW E, r.key.alg \in E
  PROVE  (IF Family(r) = "kem" THEN LiboqsKEMAnswers(r, TRUE, E)
          ELSE LiboqsSigAnswers(r, TRUE, E)) = {"ok"}
<1>1. r.key.alg \in LiboqsKEMs \cup LiboqsSigs
  BY DEF Request, Key, Algorithms
<1>2. r.op # "keygen_from_seed"
  BY DEF SecretOps
<1>3. CASE Family(r) = "kem"
  <2>1. r.key.alg \in LiboqsKEMs
    BY <1>3 DEF Family
  <2>2. LiboqsKEMAnswers(r, TRUE, E) = {"ok"}
    <3> DEFINE checks == <<<<~TRUE, {"unavailable"}>>,
                          <<r.key.alg \notin LiboqsKEMs, {"unsupported"}>>,
                          <<r.key.alg \notin E, {"unsupported"}>>,
                          <<r.op = "keygen_from_seed", {"ok", "unsupported", "failed"}>>>>
    <3>1. \A i \in DOMAIN checks : ~checks[i][1]
      <4>1. ~checks[1][1]
        BY <1>2, <2>1
      <4>2. ~checks[2][1]
        BY <1>2, <2>1
      <4>3. ~checks[3][1]
        BY <1>2, <2>1
      <4>4. ~checks[4][1]
        BY <1>2, <2>1
      <4>6. DOMAIN checks = 1..4
        OBVIOUS
      <4> HIDE DEF checks
      <4> QED
        BY <4>1, <4>2, <4>3, <4>4, <4>6
    <3>2. FirstOf(checks, {"ok"}) = {"ok"}
      BY <3>1, NobodyHit
    <3> QED
      BY <3>2 DEF LiboqsKEMAnswers
  <2> QED
    BY <1>3, <2>2
<1>4. CASE Family(r) # "kem"
  <2>1. r.key.alg \in LiboqsSigs
    BY <1>1, <1>4 DEF Family
  <2>2. LiboqsSigAnswers(r, TRUE, E) = {"ok"}
    <3> DEFINE checks == <<<<r.op = "keygen_from_seed", {"unsupported"}>>,
                          <<~TRUE, {"unavailable"}>>,
                          <<r.key.alg \notin LiboqsSigs, {"unsupported"}>>,
                          <<r.long, IF r.op \in Verifying THEN {"rejected"} ELSE {"invalid"}>>,
                          <<r.key.alg \notin E, IF r.op \in Verifying THEN {"rejected"} ELSE {"failed"}>>>>
    <3>1. \A i \in DOMAIN checks : ~checks[i][1]
      <4>1. ~checks[1][1]
        BY <1>2, <2>1
      <4>2. ~checks[2][1]
        BY <1>2, <2>1
      <4>3. ~checks[3][1]
        BY <1>2, <2>1
      <4>4. ~checks[4][1]
        BY <1>2, <2>1
      <4>5. ~checks[5][1]
        BY <1>2, <2>1
      <4>6. DOMAIN checks = 1..5
        OBVIOUS
      <4> HIDE DEF checks
      <4> QED
        BY <4>1, <4>2, <4>3, <4>4, <4>5, <4>6
    <3>2. FirstOf(checks, {"ok"}) = {"ok"}
      BY <3>1, NobodyHit
    <3> QED
      BY <3>2 DEF LiboqsSigAnswers
  <2> QED
    BY <1>4, <2>2
<1> QED
  BY <1>3, <1>4

(* The lengths tell pyca's keys apart. *)
LEMMA LengthsDiffer ==
  ASSUME NEW alg \in PycaKEMs \cup PycaSigs
  PROVE  /\ PycaExpanded(alg) = ExpandedBytes(alg)
         /\ ExpandedBytes(alg) \notin {32, 64}
<1>1. CASE alg = "ML-DSA-44"
  BY <1>1 DEF PycaExpanded, ExpandedBytes
<1>2. CASE alg = "ML-DSA-65"
  BY <1>2 DEF PycaExpanded, ExpandedBytes
<1>3. CASE alg = "ML-DSA-87"
  BY <1>3 DEF PycaExpanded, ExpandedBytes
<1>4. CASE alg = "ML-KEM-768"
  BY <1>4 DEF PycaExpanded, ExpandedBytes
<1>5. CASE alg = "ML-KEM-1024"
  BY <1>5 DEF PycaExpanded, ExpandedBytes
<1> QED
  BY <1>1, <1>2, <1>3, <1>4, <1>5 DEF PycaKEMs, PycaSigs, MLDSA

(* So each of the two adapters hands over the other's form and no other. *)
LEMMA FormsSeen ==
  ASSUME NEW r \in Request, r.op \in SecretOps, ~r.long, PycaKnows(r)
  PROVE  /\ PycaHandsOver(r) <=> r.key.form = "expanded"
         /\ LiboqsHandsOver(r) <=> r.key.form = "seed"
         /\ r.key.alg \in MLDSA <=> r.op # "decapsulate"
<1> DEFINE alg == r.key.alg
<1>1. /\ alg \in PycaKEMs \cup PycaSigs /\ r.key.form \in {"seed", "expanded"}
      /\ alg \in MLKEM \cup MLDSA
  BY DEF PycaKnows, Request, Key, Forms, PycaKEMs, PycaSigs, MLKEM
<1>2. alg \in MLDSA <=> r.op # "decapsulate"
  <2>1. CASE alg \in MLDSA
    <3>1. r.op \in SigOps
      BY <2>1 DEF Request, LiboqsSigs
    <3> QED
      BY <2>1, <3>1 DEF SigOps
  <2>2. CASE alg \in MLKEM
    <3>1. r.op \in KEMOps /\ alg \notin MLDSA
      BY <2>2 DEF Request, LiboqsKEMs, MLKEM, MLDSA
    <3> QED
      BY <2>2, <3>1 DEF KEMOps, SecretOps
  <2> QED
    BY <1>1, <2>1, <2>2
<1>3. r.key.form = "seed" => SecretBytes(r.key) = (IF alg \in MLDSA THEN 32 ELSE 64)
  BY DEF SecretBytes, SeedBytes
<1>4. r.key.form = "expanded" =>
        SecretBytes(r.key) = PycaExpanded(alg) /\ SecretBytes(r.key) \notin {32, 64}
  BY <1>1, LengthsDiffer DEF SecretBytes
<1>5. PycaHandsOver(r) <=> r.key.form = "expanded"
  <2>1. PycaExpanded(alg) \notin {32, 64}
    BY <1>1, LengthsDiffer
  <2> QED
    BY <1>1, <1>3, <1>4, <2>1 DEF PycaHandsOver
<1>6. LiboqsHandsOver(r) <=> r.key.form = "seed"
  <2>1. r.op # "decapsulate" => r.op \in {"sign", "sign_native"}
    BY DEF SecretOps
  <2> QED
    BY <1>1, <1>2, <1>3, <1>4, <2>1 DEF LiboqsHandsOver
<1> QED
  BY <1>2, <1>5, <1>6

(* What pyca does not hand over is a seed, which it knows. *)
LEMMA PycaDoes ==
  ASSUME NEW r \in Request, r.op \in SecretOps, ~r.long, PycaKnows(r), ~PycaHandsOver(r)
  PROVE  PycaAnswers(r, TRUE) = {"ok"}
<1>1. r.key.form = "seed" /\ (r.key.alg \in MLDSA <=> r.op # "decapsulate")
  <2>1. r.key.form \in {"seed", "expanded"}
    BY DEF Request, Key, Forms
  <2> QED
    BY <2>1, FormsSeen
<1>2. SecretBytes(r.key) = (IF r.key.alg \in MLDSA THEN 32 ELSE 64)
  BY <1>1 DEF SecretBytes, SeedBytes
<1> DEFINE checks == <<<<r.long, IF r.op \in Verifying THEN {"rejected"} ELSE {"invalid"}>>,
                      <<~PycaKnows(r), {"unsupported"}>>,
                      <<~TRUE, {"unavailable"}>>,
                      <<r.op = "decapsulate" /\ SecretBytes(r.key) # 64, {"invalid"}>>,
                      <<r.op \in {"sign", "sign_native"} /\ SecretBytes(r.key) # 32, {"invalid"}>>>>
<1>3. \A i \in DOMAIN checks : ~checks[i][1]
  <2>1. ~checks[1][1] /\ ~checks[2][1] /\ ~checks[3][1]
    OBVIOUS
  <2>2. ~(r.op = "decapsulate" /\ SecretBytes(r.key) # 64)
    BY <1>1, <1>2
  <2>3. ~(r.op \in {"sign", "sign_native"} /\ SecretBytes(r.key) # 32)
    BY <1>1, <1>2
  <2>4. ~checks[4][1] /\ ~checks[5][1]
    BY <2>2, <2>3
  <2>5. DOMAIN checks = 1..5
    OBVIOUS
  <2> HIDE DEF checks
  <2> QED
    BY <2>1, <2>4, <2>5
<1>4. FirstOf(checks, {"ok"}) = {"ok"}
  BY <1>3, NobodyHit
<1> QED
  BY <1>4 DEF PycaAnswers

(* Why an adapter calls a signature bad whose context fits. *)
LEMMA LiboqsRejects ==
  ASSUME NEW r, ~r.long, NEW oqs, NEW E
  PROVE  /\ "rejected" \notin LiboqsKEMAnswers(r, oqs, E)
         /\ "rejected" \in LiboqsSigAnswers(r, oqs, E) => r.key.alg \notin E
<1>1. "rejected" \notin LiboqsKEMAnswers(r, oqs, E)
  BY FirstHit DEF LiboqsKEMAnswers
<1>2. ASSUME "rejected" \in LiboqsSigAnswers(r, oqs, E) PROVE r.key.alg \notin E
  <2> DEFINE checks == <<<<r.op = "keygen_from_seed", {"unsupported"}>>,
                      <<~oqs, {"unavailable"}>>,
                      <<r.key.alg \notin LiboqsSigs, {"unsupported"}>>,
                      <<r.long, IF r.op \in Verifying THEN {"rejected"} ELSE {"invalid"}>>,
                      <<r.key.alg \notin E, IF r.op \in Verifying THEN {"rejected"} ELSE {"failed"}>>>>
  <2>1. FirstOf(checks, {"ok"}) = LiboqsSigAnswers(r, oqs, E)
    BY DEF LiboqsSigAnswers
  <2>2. PICK i \in 1..5 : checks[i][1] /\ "rejected" \in checks[i][2]
    BY <1>2, <2>1, FirstHit
  <2>3. "rejected" \notin checks[1][2] /\ "rejected" \notin checks[2][2] /\ "rejected" \notin checks[3][2]
    OBVIOUS
  <2>4. ~checks[4][1]
    OBVIOUS
  <2>5. i = 5
    <3> HIDE DEF checks
    <3> QED
      BY <2>2, <2>3, <2>4
  <2>6. checks[5][1] => r.key.alg \notin E
    OBVIOUS
  <2> QED
    BY <2>2, <2>5, <2>6
<1> QED
  BY <1>1, <1>2

LEMMA PycaRejects ==
  ASSUME NEW r, ~r.long, NEW cryptography
  PROVE  "rejected" \notin PycaAnswers(r, cryptography)
  BY FirstHit DEF PycaAnswers

LEMMA RustRejects ==
  ASSUME NEW r, ~r.long
  PROVE  /\ "rejected" \notin RustInherited(r)
         /\ "rejected" \in RustAnswers(r) => r.key.alg \notin RustSigs
  BY DEF RustInherited, RustAnswers, SecretOps

LEMMA AnswersAre ==
  ASSUME NEW r, NEW oqs, NEW E
  PROVE  /\ LiboqsKEMAnswers(r, oqs, E) \subseteq Answers
         /\ LiboqsSigAnswers(r, oqs, E) \subseteq Answers
         /\ PycaAnswers(r, oqs) \subseteq Answers
         /\ RustAnswers(r) \subseteq Answers
         /\ RustInherited(r) \subseteq Answers
         /\ RustUnavailable(r) \in Answers
<1> USE DEF Answers
<1>1. LiboqsKEMAnswers(r, oqs, E) \subseteq Answers
  BY FirstHit DEF LiboqsKEMAnswers
<1>2. LiboqsSigAnswers(r, oqs, E) \subseteq Answers
  BY FirstHit DEF LiboqsSigAnswers
<1>3. PycaAnswers(r, oqs) \subseteq Answers
  BY FirstHit DEF PycaAnswers
<1>4. /\ RustAnswers(r) \subseteq Answers
      /\ RustInherited(r) \subseteq Answers
      /\ RustUnavailable(r) \in Answers
  BY DEF RustAnswers, RustInherited, RustUnavailable
<1> QED
  BY <1>1, <1>2, <1>3, <1>4
------------------------------------------------------------------------------
(* How a thread goes on when the extension is there, and when it is not. *)
LEMMA MissingType ==
  ASSUME TypeOK, NEW t \in Threads, Missing(t)
  PROVE  /\ pc' \in [Threads -> Places]
         /\ at' = at
         /\ answer' \in [Threads -> Answers \cup {"unknown", "none"}]
<1>1. RustUnavailable(request[t]) \in Answers /\ "unavailable" \in Answers
  BY AnswersAre DEF Answers
<1>2. "liboqs" \in Places /\ "idle" \in Places
  BY DEF Places
<1> QED
  BY <1>1, <1>2 DEF TypeOK, Missing, Goto, Answer

LEMMA FoundType ==
  ASSUME TypeOK, NEW t \in Threads, Found(t)
  PROVE  /\ pc' \in [Threads -> Places]
         /\ at' \in [Threads -> Packages \cup {"none"}]
         /\ answer' \in [Threads -> Answers \cup {"unknown", "none"}]
<1>1. RustAnswers(request[t]) \subseteq Answers
  BY AnswersAre
<1>2. "call" \in Places /\ "idle" \in Places /\ "rustcrypto" \in Packages
  BY DEF Places, Packages
<1> QED
  BY <1>1, <1>2 DEF TypeOK, Found, Goto, Answer

LEMMA TypeStep == TypeOK /\ [Next]_vars => TypeOK'
<1> SUFFICES ASSUME TypeOK, [Next]_vars PROVE TypeOK'
  OBVIOUS
<1> USE DEF environment
<1>0. Users \subseteq Threads /\ Probers \subseteq Threads
  BY DEF Threads
<1>1. ASSUME NEW u \in Users, Select(u) PROVE TypeOK'
  <2>1. PICK r \in Requests, n \in Names :
          /\ request' = [request EXCEPT ![u] = r]
          /\ name' = [name EXCEPT ![u] = Resolve(n)]
          /\ \/ Resolve(n) \notin KnownNames /\ Answer(u, "unknown")
             \/ Resolve(n) = "noble" /\ Answer(u, "unavailable")
             \/ /\ Resolve(n) \in {"auto"} \cup Packages
                /\ Goto(u, IF Resolve(n) \in {"auto", "rustcrypto"} THEN "look" ELSE Resolve(n))
                /\ answer' = [answer EXCEPT ![u] = "none"]
    BY <1>1 DEF Select
  <2>2. Resolve(n) \in Names \cup Overrides
    BY DEF Resolve, TypeOK
  <2>3. pc' \in [Threads -> Places]
    <3>1. "idle" \in Places /\ "look" \in Places
      BY DEF Places, Looking
    <3>2. Resolve(n) \in {"auto"} \cup Packages /\ Resolve(n) \notin {"auto", "rustcrypto"}
            => Resolve(n) \in Places
      BY DEF Places, Packages
    <3> QED
      BY <1>0, <2>1, <3>1, <3>2 DEF TypeOK, Answer, Goto
  <2>4. answer' \in [Threads -> Answers \cup {"unknown", "none"}]
    BY <1>0, <2>1 DEF TypeOK, Answer, Answers
  <2>5. why' \in [Threads -> Purposes] /\ at' \in [Threads -> Packages \cup {"none"}]
    BY <1>0, <1>1 DEF Select, TypeOK, Purposes
  <2>6. calls' \in [Threads -> Nat]
    BY <1>0, <1>1 DEF Select, TypeOK
  <2>7. request' \in [Threads -> Requests \cup {NoRequest}]
    BY <1>0, <2>1 DEF TypeOK
  <2>8. name' \in [Threads -> Names \cup Overrides \cup KnownNames]
    BY <1>0, <2>1, <2>2 DEF TypeOK
  <2>9. there' \in [Threads -> SUBSET Packages] /\ skipped' \in [Threads -> BOOLEAN]
    BY <1>0, <1>1 DEF Select, TypeOK
  <2> QED
    BY <1>1, <2>3, <2>4, <2>5, <2>6, <2>7, <2>8, <2>9 DEF Select, TypeOK
<1>2. ASSUME NEW t \in Probers, List(t) PROVE TypeOK'
  BY <1>0, <1>2 DEF List, TypeOK, Goto, Places, Looking, Purposes
<1>3. ASSUME NEW t \in Probers, Clear(t) PROVE TypeOK'
  <2>1. cleared' \in BOOLEAN /\ failure' \in BOOLEAN
    BY <1>3 DEF Clear
  <2>2. calls' \in [Threads -> Nat]
    BY <1>0, <1>3 DEF Clear, TypeOK
  <2> QED
    BY <1>3, <2>1, <2>2 DEF Clear, TypeOK, local
<1>4. ASSUME NEW t \in Threads, Look(t) PROVE TypeOK'
  BY <1>4, MissingType DEF Look, TypeOK, Goto, Places, Looking
<1>5. ASSUME NEW t \in Threads, Import(t) PROVE TypeOK'
  BY <1>5, FoundType DEF Import, TypeOK, Goto, Places, Looking
<1>6. ASSUME NEW t \in Threads, Remember(t) PROVE TypeOK'
  BY <1>6, MissingType DEF Remember, TypeOK
<1>7. ASSUME NEW t \in Threads, TryLiboqs(t) \/ TryPyca(t) PROVE TypeOK'
  BY <1>7 DEF TryLiboqs, TryPyca, TypeOK, Goto, Answer, Places, Packages, Answers
<1>8. ASSUME NEW t \in Threads, UseLiboqs(t) \/ UsePyca(t) PROVE TypeOK'
  <2>1. /\ pc' \in [Threads -> Places]
        /\ name' \in [Threads -> Names \cup Overrides \cup KnownNames]
        /\ answer' \in [Threads -> Answers \cup {"unknown", "none"}]
    <3>1. ASSUME NEW other \in {"liboqs", "pyca"}, HandOver(t, other)
          PROVE  /\ pc' \in [Threads -> Places]
                 /\ name' \in [Threads -> Names \cup Overrides \cup KnownNames]
                 /\ answer' = answer
      BY <3>1, Resolved DEF HandOver, TypeOK, Goto, Places, KnownNames, Packages
    <3>2. ASSUME NEW a \in Answers, Answer(t, a), name' = name
          PROVE  /\ pc' \in [Threads -> Places]
                 /\ name' \in [Threads -> Names \cup Overrides \cup KnownNames]
                 /\ answer' \in [Threads -> Answers \cup {"unknown", "none"}]
      BY <3>2 DEF Answer, TypeOK, Places
    <3> QED
      BY <1>8, <3>1, <3>2, AnswersAre DEF UseLiboqs, UsePyca, TypeOK
  <2> QED
    BY <1>8, <2>1 DEF UseLiboqs, UsePyca, TypeOK
<1>9. ASSUME NEW t \in Threads, UseRust(t) PROVE TypeOK'
  <2>1. CASE Goto(t, "look") /\ why' = [why EXCEPT ![t] = "use"] /\ answer' = answer
    <3>1. pc' \in [Threads -> Places]
      BY <2>1 DEF TypeOK, Goto, Places, Looking
    <3>2. why' \in [Threads -> Purposes]
      BY <2>1 DEF TypeOK, Purposes
    <3> QED
      BY <1>9, <2>1, <3>1, <3>2 DEF UseRust, TypeOK
  <2>2. ASSUME NEW a \in RustInherited(request[t]), Answer(t, a), why' = why PROVE TypeOK'
    <3>1. a \in Answers
      BY AnswersAre
    <3>2. pc' \in [Threads -> Places]
      BY <2>2 DEF TypeOK, Answer, Places
    <3>3. answer' \in [Threads -> Answers \cup {"unknown", "none"}]
      BY <2>2, <3>1 DEF TypeOK, Answer
    <3> QED
      BY <1>9, <2>2, <3>2, <3>3 DEF UseRust, TypeOK
  <2> QED
    BY <1>9, <2>1, <2>2 DEF UseRust
<1>10. ASSUME NEW p \in Packages, Install(p) PROVE TypeOK'
  BY <1>10 DEF Install, TypeOK, local
<1>11. CASE UNCHANGED vars
  BY <1>11 DEF vars, TypeOK
<1>12. CASE Done
  BY <1>11, <1>12 DEF Done
<1> QED
  BY <1>1, <1>2, <1>3, <1>4, <1>5, <1>6, <1>7, <1>8, <1>9, <1>10, <1>11, <1>12 DEF Next, Working
------------------------------------------------------------------------------
(* A step is a package that is installed or one thread's. *)
Moves(t) ==
  \/ t \in Users /\ Select(t)
  \/ t \in Probers /\ (List(t) \/ Clear(t))
  \/ Working(t)

Same(x) ==
  /\ pc'[x] = pc[x] /\ why'[x] = why[x] /\ request'[x] = request[x] /\ name'[x] = name[x]
  /\ at'[x] = at[x] /\ there'[x] = there[x] /\ skipped'[x] = skipped[x] /\ answer'[x] = answer[x]

LEMMA OthersKeep ==
  ASSUME TypeOK, NEW t \in Threads, Moves(t)
  PROVE  /\ \A x \in Threads : x # t => Same(x)
         /\ override' = override /\ enabled' = enabled /\ installed' = installed /\ late' = late
<1> USE DEF TypeOK, Same, Goto, Answer, environment
<1>1. CASE Select(t)
  BY <1>1 DEF Select
<1>2. CASE List(t) \/ Clear(t)
  BY <1>2 DEF List, Clear, local
<1>3. CASE Look(t) \/ Remember(t)
  BY <1>3 DEF Look, Remember, Missing
<1>4. CASE Import(t)
  BY <1>4 DEF Import, Found
<1>5. CASE TryLiboqs(t) \/ TryPyca(t)
  BY <1>5 DEF TryLiboqs, TryPyca
<1>6. CASE UseLiboqs(t) \/ UsePyca(t)
  BY <1>6 DEF UseLiboqs, UsePyca, HandOver
<1>7. CASE UseRust(t)
  BY <1>7 DEF UseRust
<1> QED
  BY <1>1, <1>2, <1>3, <1>4, <1>5, <1>6, <1>7 DEF Moves, Working
------------------------------------------------------------------------------
(* Which threads look for the extension for what, and what a user holds while
   its call lasts. *)
RoleOf(t) ==
  /\ pc[t] \in Looking => (why[t] = "list" <=> t \in Probers)
  /\ t \in Probers => pc[t] \in {"idle"} \cup Looking
  /\ there[t] \subseteq installed

HeldBy(u) ==
  /\ pc[u] # "idle" => answer[u] = "none"
  /\ pc[u] # "idle" \/ at[u] # "none" => request[u] \in Requests
  /\ pc[u] \in Looking => at[u] = (IF why[u] = "select" THEN "none" ELSE "rustcrypto")
  /\ pc[u] = "liboqs" /\ at[u] # "none" => PycaHandsOver(request[u])

Roles == \A t \in Threads : RoleOf(t)
Held == \A u \in Users : HeldBy(u)

LEMMA UserOrProber ==
  /\ Users \subseteq Threads /\ Probers \subseteq Threads
  /\ \A t \in Threads : t \in Users <=> t \notin Probers
  BY RegistryAssumption DEF Threads

(* What becomes of the thread that looked for the extension. *)
LEMMA MissingGoes ==
  ASSUME TypeOK, NEW t \in Threads, Missing(t)
  PROVE  /\ at' = at
         /\ \/ why[t] = "select" /\ name[t] = "auto" /\ pc'[t] = "liboqs" /\ answer'[t] = answer[t]
            \/ why[t] = "select" /\ name[t] # "auto" /\ pc'[t] = "idle" /\ answer'[t] = "unavailable"
            \/ why[t] = "list" /\ pc'[t] = "idle" /\ answer'[t] = answer[t]
            \/ why[t] = "use" /\ pc'[t] = "idle" /\ answer'[t] = RustUnavailable(request[t])
  BY DEF TypeOK, Missing, Goto, Answer

LEMMA FoundGoes ==
  ASSUME TypeOK, NEW t \in Threads, Found(t)
  PROVE  \/ why[t] = "select" /\ pc'[t] = "call" /\ at'[t] = "rustcrypto" /\ answer'[t] = answer[t]
         \/ why[t] = "list" /\ pc'[t] = "idle" /\ at'[t] = at[t] /\ answer'[t] = answer[t]
         \/ why[t] = "use" /\ pc'[t] = "idle" /\ at'[t] = at[t] /\ answer'[t] \in RustAnswers(request[t])
  BY DEF TypeOK, Found, Goto, Answer

(* How a call begins, and how it is handed on or answered. *)
LEMMA SelectGoes ==
  ASSUME TypeOK, NEW u \in Threads, Select(u)
  PROVE  /\ pc[u] = "idle" /\ why'[u] = "select" /\ at'[u] = "none" /\ there'[u] = installed
         /\ skipped'[u] = FALSE /\ request'[u] \in Requests
         /\ \/ pc'[u] = "idle" /\ answer'[u] \in {"unknown", "unavailable"}
            \/ pc'[u] = "look" /\ answer'[u] = "none"
            \/ pc'[u] \in {"liboqs", "pyca"} /\ name'[u] # "auto" /\ answer'[u] = "none"
<1> USE DEF TypeOK
<1>1. /\ pc[u] = "idle" /\ why'[u] = "select" /\ at'[u] = "none" /\ there'[u] = installed
      /\ skipped'[u] = FALSE
  BY DEF Select
<1>2. PICK r \in Requests, n \in Names :
        /\ request' = [request EXCEPT ![u] = r]
        /\ name' = [name EXCEPT ![u] = Resolve(n)]
        /\ \/ Resolve(n) \notin KnownNames /\ Answer(u, "unknown")
           \/ Resolve(n) = "noble" /\ Answer(u, "unavailable")
           \/ /\ Resolve(n) \in {"auto"} \cup Packages
              /\ Goto(u, IF Resolve(n) \in {"auto", "rustcrypto"} THEN "look" ELSE Resolve(n))
              /\ answer' = [answer EXCEPT ![u] = "none"]
  BY DEF Select
<1>3. request'[u] \in Requests /\ name'[u] = Resolve(n)
  BY <1>2
<1>4. CASE Answer(u, "unknown") \/ Answer(u, "unavailable")
  BY <1>1, <1>3, <1>4 DEF Answer
<1>5. CASE /\ Resolve(n) \in {"auto"} \cup Packages
           /\ Goto(u, IF Resolve(n) \in {"auto", "rustcrypto"} THEN "look" ELSE Resolve(n))
           /\ answer' = [answer EXCEPT ![u] = "none"]
  BY <1>1, <1>3, <1>5 DEF Goto, Packages
<1> QED
  BY <1>2, <1>4, <1>5

LEMMA UseGoes ==
  ASSUME TypeOK, NEW u \in Threads, UseLiboqs(u) \/ UsePyca(u)
  PROVE  /\ pc[u] = "call" /\ at'[u] = at[u] /\ request'[u] = request[u] /\ there'[u] = there[u]
         /\ why'[u] = why[u] /\ skipped'[u] = skipped[u]
         /\ \/ /\ at[u] = "liboqs" /\ LiboqsHandsOver(request[u])
               /\ pc'[u] = "pyca" /\ name'[u] = "pyca" /\ answer'[u] = answer[u]
            \/ /\ at[u] = "pyca" /\ PycaHandsOver(request[u])
               /\ pc'[u] = "liboqs" /\ name'[u] = "liboqs" /\ answer'[u] = answer[u]
            \/ /\ at[u] = "liboqs" /\ ~LiboqsHandsOver(request[u])
               /\ pc'[u] = "idle" /\ name'[u] = name[u]
               /\ answer'[u] \in (IF Family(request[u]) = "kem"
                                  THEN LiboqsKEMAnswers(request[u], "liboqs" \in installed, enabled)
                                  ELSE LiboqsSigAnswers(request[u], "liboqs" \in installed, enabled))
            \/ /\ at[u] = "pyca" /\ ~PycaHandsOver(request[u])
               /\ pc'[u] = "idle" /\ name'[u] = name[u]
               /\ answer'[u] \in PycaAnswers(request[u], "pyca" \in installed)
<1> USE DEF TypeOK, Goto, Answer, HandOver
<1>1. CASE UseLiboqs(u)
  BY <1>1, Resolved DEF UseLiboqs
<1>2. CASE UsePyca(u)
  BY <1>2, Resolved DEF UsePyca
<1> QED
  BY <1>1, <1>2

LEMMA TryGoes ==
  ASSUME TypeOK, NEW u \in Threads, TryLiboqs(u) \/ TryPyca(u)
  PROVE  /\ request'[u] = request[u] /\ name'[u] = name[u] /\ there'[u] = there[u]
         /\ why'[u] = why[u] /\ skipped'[u] = skipped[u]
         /\ \/ /\ pc[u] = "liboqs" /\ LiboqsAvailable(Family(request[u]), "liboqs" \in installed, enabled)
               /\ pc'[u] = "call" /\ at'[u] = "liboqs" /\ answer'[u] = answer[u]
            \/ /\ pc[u] = "liboqs" /\ ~LiboqsAvailable(Family(request[u]), "liboqs" \in installed, enabled)
               /\ name[u] = "auto"
               /\ pc'[u] = "pyca" /\ at'[u] = at[u] /\ answer'[u] = answer[u]
            \/ /\ pc[u] = "liboqs" /\ ~LiboqsAvailable(Family(request[u]), "liboqs" \in installed, enabled)
               /\ name[u] # "auto"
               /\ pc'[u] = "idle" /\ at'[u] = at[u] /\ answer'[u] = "unavailable"
            \/ /\ pc[u] = "pyca" /\ "pyca" \in installed
               /\ pc'[u] = "call" /\ at'[u] = "pyca" /\ answer'[u] = answer[u]
            \/ /\ pc[u] = "pyca" /\ "pyca" \notin installed
               /\ pc'[u] = "idle" /\ at'[u] = at[u] /\ answer'[u] = "unavailable"
<1> USE DEF TypeOK, Goto, Answer
<1>1. CASE TryLiboqs(u)
  BY <1>1 DEF TryLiboqs
<1>2. CASE TryPyca(u)
  BY <1>2 DEF TryPyca, PycaAvailable
<1> QED
  BY <1>1, <1>2

LEMMA RustGoes ==
  ASSUME TypeOK, NEW u \in Threads, UseRust(u)
  PROVE  /\ pc[u] = "call" /\ at[u] = "rustcrypto" /\ at'[u] = at[u] /\ request'[u] = request[u]
         /\ name'[u] = name[u] /\ there'[u] = there[u] /\ skipped'[u] = skipped[u]
         /\ \/ pc'[u] = "look" /\ why'[u] = "use" /\ answer'[u] = answer[u]
            \/ pc'[u] = "idle" /\ why'[u] = why[u] /\ answer'[u] \in RustInherited(request[u])
  BY DEF TypeOK, Goto, Answer, UseRust

(* The three steps of the search. *)
LEMMA SearchGoes ==
  ASSUME TypeOK, NEW t \in Threads, Look(t) \/ Import(t) \/ Remember(t)
  PROVE  /\ pc[t] \in Looking
         /\ why'[t] = why[t] /\ request'[t] = request[t] /\ name'[t] = name[t] /\ there'[t] = there[t]
         /\ \/ /\ pc[t] = "look" /\ ~failure
               /\ pc'[t] = "import" /\ at'[t] = at[t] /\ answer'[t] = answer[t] /\ skipped'[t] = skipped[t]
            \/ /\ pc[t] = "import" /\ "rustcrypto" \notin installed
               /\ pc'[t] = "remember" /\ at'[t] = at[t] /\ answer'[t] = answer[t] /\ skipped'[t] = skipped[t]
            \/ /\ pc[t] = "look" /\ failure /\ Missing(t) /\ skipped'[t] = TRUE
            \/ /\ pc[t] = "remember" /\ Missing(t) /\ skipped'[t] = skipped[t]
            \/ /\ pc[t] = "import" /\ "rustcrypto" \in installed /\ Found(t) /\ skipped'[t] = skipped[t]
<1>1. CASE Look(t)
  BY <1>1 DEF TypeOK, Looking, Look, Goto
<1>2. CASE Import(t)
  BY <1>2 DEF TypeOK, Looking, Import, Goto
<1>3. CASE Remember(t)
  BY <1>3 DEF TypeOK, Looking, Remember, Goto
<1> QED
  BY <1>1, <1>2, <1>3

LEMMA ProbeGoes ==
  ASSUME TypeOK, NEW t \in Threads, List(t) \/ Clear(t)
  PROVE  /\ pc[t] = "idle" /\ request'[t] = request[t] /\ name'[t] = name[t]
         /\ at'[t] = at[t] /\ there'[t] = there[t] /\ skipped'[t] = skipped[t] /\ answer'[t] = answer[t]
         /\ \/ List(t) /\ pc'[t] = "look" /\ why'[t] = "list"
            \/ Clear(t) /\ pc'[t] = "idle" /\ why'[t] = why[t]
<1>1. CASE List(t)
  BY <1>1 DEF TypeOK, List, Goto
<1>2. CASE Clear(t)
  BY <1>2 DEF TypeOK, Clear, local
<1> QED
  BY <1>1, <1>2

LEMMA Steps ==
  ASSUME [Next]_vars
  PROVE  (\E t \in Threads : Moves(t)) \/ (\E p \in Packages : Install(p)) \/ UNCHANGED vars
  BY DEF Next, Done, Moves, Threads

LEMMA InstallKeeps ==
  ASSUME NEW p, Install(p)
  PROVE  /\ installed' = installed \cup {p}
         /\ UNCHANGED <<override, enabled, failure, pc, why, request, name, at, there, skipped,
                        answer, cleared>>
  BY DEF Install, environment, local

LEMMA RolesStep == TypeOK /\ Roles /\ [Next]_vars => Roles'
<1> SUFFICES ASSUME TypeOK, Roles, [Next]_vars, NEW x \in Threads PROVE RoleOf(x)'
  BY DEF Roles
<1> USE UserOrProber
<1>0. RoleOf(x)
  BY DEF Roles
<1>1. ASSUME NEW t \in Threads, Moves(t), x # t PROVE RoleOf(x)'
  BY <1>0, <1>1, OthersKeep DEF RoleOf, Same
<1>2. ASSUME x \in Users, Select(x) PROVE RoleOf(x)'
  BY <1>2, SelectGoes, OthersKeep DEF RoleOf, Looking, Moves
<1>3. ASSUME x \in Probers, List(x) \/ Clear(x) PROVE RoleOf(x)'
  BY <1>0, <1>3, ProbeGoes, OthersKeep DEF RoleOf, Looking, Moves
<1>4. ASSUME Look(x) \/ Import(x) \/ Remember(x) PROVE RoleOf(x)'
  <2>1. installed' = installed
    BY <1>4, OthersKeep DEF Moves, Working
  <2> QED
    BY <1>0, <1>4, <2>1, SearchGoes, MissingGoes, FoundGoes DEF RoleOf, Looking
<1>5. ASSUME UseLiboqs(x) \/ UsePyca(x) \/ TryLiboqs(x) \/ TryPyca(x) \/ UseRust(x) PROVE RoleOf(x)'
  <2>1. installed' = installed
    BY <1>5, OthersKeep DEF Moves, Working
  <2>2. pc[x] \notin {"idle"} \cup Looking
    BY <1>5, UseGoes, TryGoes, RustGoes DEF Looking
  <2>3. x \in Users
    BY <1>0, <2>2 DEF RoleOf
  <2>4. there'[x] = there[x] /\ (pc'[x] \notin Looking \/ why'[x] = "use")
    BY <1>5, UseGoes, TryGoes, RustGoes DEF Looking
  <2> QED
    BY <1>0, <2>1, <2>3, <2>4 DEF RoleOf
<1>6. ASSUME NEW p \in Packages, Install(p) PROVE RoleOf(x)'
  BY <1>0, <1>6, InstallKeeps DEF RoleOf
<1>7. CASE UNCHANGED vars
  BY <1>0, <1>7 DEF RoleOf, vars
<1> QED
  BY <1>1, <1>2, <1>3, <1>4, <1>5, <1>6, <1>7, Steps DEF Moves, Working

LEMMA HeldStep == TypeOK /\ Roles /\ Held /\ [Next]_vars => Held'
<1> SUFFICES ASSUME TypeOK, Roles, Held, [Next]_vars, NEW x \in Users PROVE HeldBy(x)'
  BY DEF Held
<1> USE UserOrProber
<1>0. HeldBy(x) /\ RoleOf(x)
  BY DEF Held, Roles
<1>1. ASSUME NEW t \in Threads, Moves(t), x # t PROVE HeldBy(x)'
  BY <1>0, <1>1, OthersKeep DEF HeldBy, Same
<1>2. ASSUME Select(x) PROVE HeldBy(x)'
  BY <1>2, SelectGoes DEF HeldBy, Looking
<1>3. ASSUME Look(x) \/ Import(x) \/ Remember(x) PROVE HeldBy(x)'
  BY <1>0, <1>3, SearchGoes, MissingGoes, FoundGoes DEF HeldBy, RoleOf, Looking
<1>4. ASSUME UseLiboqs(x) \/ UsePyca(x) PROVE HeldBy(x)'
  BY <1>0, <1>4, UseGoes DEF HeldBy, Looking
<1>5. ASSUME TryLiboqs(x) \/ TryPyca(x) PROVE HeldBy(x)'
  BY <1>0, <1>5, TryGoes DEF HeldBy, Looking
<1>6. ASSUME UseRust(x) PROVE HeldBy(x)'
  BY <1>0, <1>6, RustGoes DEF HeldBy, Looking
<1>7. ASSUME NEW p \in Packages, Install(p) PROVE HeldBy(x)'
  BY <1>0, <1>7, InstallKeeps DEF HeldBy
<1>8. CASE UNCHANGED vars
  BY <1>0, <1>8 DEF HeldBy, vars
<1> QED
  BY <1>1, <1>2, <1>3, <1>4, <1>5, <1>6, <1>7, <1>8, Steps DEF Moves, Working
------------------------------------------------------------------------------
(* The mechanism is_available() asks a liboqs build for. *)
Asked(u) == Probe(Family(request[u]))

(* An adapter that was selected could be. *)
SelectedBy(u) ==
  /\ at[u] # "none" => at[u] \in installed
  /\ at[u] = "liboqs" => Asked(u) \in enabled
Selected == \A u \in Users : SelectedBy(u)

LEMMA SelectedStep == TypeOK /\ Roles /\ Selected /\ [Next]_vars => Selected'
<1> SUFFICES ASSUME TypeOK, Roles, Selected, [Next]_vars, NEW x \in Users PROVE SelectedBy(x)'
  BY DEF Selected
<1> USE UserOrProber
<1>0. SelectedBy(x) /\ RoleOf(x)
  BY DEF Selected, Roles
<1>1. ASSUME NEW t \in Threads, Moves(t), x # t PROVE SelectedBy(x)'
  BY <1>0, <1>1, OthersKeep DEF SelectedBy, Same, Asked, Family
<1>2. ASSUME Select(x) PROVE SelectedBy(x)'
  BY <1>2, SelectGoes DEF SelectedBy
<1>3. ASSUME Look(x) \/ Import(x) \/ Remember(x) PROVE SelectedBy(x)'
  <2>1. installed' = installed /\ enabled' = enabled
    BY <1>3, OthersKeep DEF Moves, Working
  <2> QED
    BY <1>0, <1>3, <2>1, SearchGoes, MissingGoes, FoundGoes DEF SelectedBy, Asked, Family
<1>4. ASSUME UseLiboqs(x) \/ UsePyca(x) \/ UseRust(x) PROVE SelectedBy(x)'
  <2>1. installed' = installed /\ enabled' = enabled
    BY <1>4, OthersKeep DEF Moves, Working
  <2> QED
    BY <1>0, <1>4, <2>1, UseGoes, RustGoes DEF SelectedBy, Asked, Family
<1>5. ASSUME TryLiboqs(x) \/ TryPyca(x) PROVE SelectedBy(x)'
  <2>1. installed' = installed /\ enabled' = enabled
    BY <1>5, OthersKeep DEF Moves, Working
  <2> QED
    BY <1>0, <1>5, <2>1, TryGoes DEF SelectedBy, Asked, Family, LiboqsAvailable
<1>6. ASSUME NEW p \in Packages, Install(p) PROVE SelectedBy(x)'
  BY <1>0, <1>6, InstallKeeps DEF SelectedBy, Asked, Family
<1>7. CASE UNCHANGED vars
  BY <1>0, <1>7 DEF SelectedBy, Asked, Family, vars
<1> QED
  BY <1>1, <1>2, <1>3, <1>4, <1>5, <1>6, <1>7, Steps DEF Moves, Working
------------------------------------------------------------------------------
(* A probe that failed to import what is there by now is late. *)
LateProbes ==
  \A t \in Threads : pc[t] = "remember" /\ "rustcrypto" \in installed => late

(* Whoever found no remembered failure of an extension that was there finds
   none later on: only a late probe remembers one. *)
FoundBy(u) ==
  /\ at[u] = "rustcrypto" \/ (pc[u] = "import" /\ why[u] = "select")
  /\ "rustcrypto" \in there[u]
  /\ ~late
  => ~failure

Forgotten ==
  /\ cleared => "rustcrypto" \in installed
  /\ ClearIsFinal
  /\ \A u \in Users : FoundBy(u)

LEMMA FailureMoves ==
  ASSUME TypeOK, LateProbes, NEW t \in Threads, Moves(t)
  PROVE  /\ failure' => failure \/ "rustcrypto" \notin installed \/ late
         /\ cleared' => cleared \/ ("rustcrypto" \in installed /\ ~failure')
<1>1. CASE Select(t)
  BY <1>1 DEF Select
<1>2. CASE List(t)
  BY <1>2 DEF List
<1>3. CASE Clear(t)
  BY <1>3 DEF Clear
<1>4. CASE Look(t)
  BY <1>4 DEF Look
<1>5. CASE Import(t)
  BY <1>5 DEF Import
<1>6. CASE Remember(t)
  BY <1>6 DEF Remember, LateProbes
<1>7. CASE TryLiboqs(t) \/ TryPyca(t)
  BY <1>7 DEF TryLiboqs, TryPyca
<1>8. CASE UseLiboqs(t) \/ UsePyca(t) \/ UseRust(t)
  BY <1>8 DEF UseLiboqs, UsePyca, UseRust
<1> QED
  BY <1>1, <1>2, <1>3, <1>4, <1>5, <1>6, <1>7, <1>8 DEF Moves, Working

LEMMA LateStep == TypeOK /\ LateProbes /\ [Next]_vars => LateProbes'
<1> SUFFICES ASSUME TypeOK, LateProbes, [Next]_vars, NEW x \in Threads,
                    pc'[x] = "remember", "rustcrypto" \in installed'
             PROVE  late'
  BY DEF LateProbes
<1>1. ASSUME NEW t \in Threads, Moves(t), x # t PROVE late'
  BY <1>1, OthersKeep DEF LateProbes, Same
<1>2. ASSUME Moves(x) PROVE late'
  <2>1. installed' = installed
    BY <1>2, OthersKeep
  <2>2. ~Select(x) /\ ~List(x) /\ ~Clear(x)
    BY SelectGoes, ProbeGoes
  <2>3. ~TryLiboqs(x) /\ ~TryPyca(x) /\ ~UseLiboqs(x) /\ ~UsePyca(x) /\ ~UseRust(x)
    BY TryGoes, UseGoes, RustGoes
  <2>4. Look(x) \/ Import(x) \/ Remember(x)
    BY <1>2, <2>2, <2>3 DEF Moves, Working
  <2> QED
    BY <2>1, <2>4, SearchGoes, MissingGoes, FoundGoes
<1>3. ASSUME NEW p \in Packages, Install(p) PROVE late'
  BY <1>3, InstallKeeps DEF Install, LateProbes
<1>4. CASE UNCHANGED vars
  BY <1>4 DEF vars, LateProbes
<1> QED
  BY <1>1, <1>2, <1>3, <1>4, Steps

LEMMA ForgottenStep ==
  TypeOK /\ Roles /\ Held /\ Selected /\ LateProbes /\ Forgotten /\ [Next]_vars => Forgotten'
<1> SUFFICES ASSUME TypeOK, Roles, Held, Selected, LateProbes, Forgotten, [Next]_vars
             PROVE  Forgotten'
  OBVIOUS
<1> USE UserOrProber
<1>1. (cleared => "rustcrypto" \in installed)'
  <2>1. ASSUME NEW t \in Threads, Moves(t) PROVE (cleared => "rustcrypto" \in installed)'
    BY <2>1, FailureMoves, OthersKeep DEF Forgotten
  <2>2. ASSUME NEW p \in Packages, Install(p) PROVE (cleared => "rustcrypto" \in installed)'
    BY <2>2, InstallKeeps DEF Forgotten
  <2> QED
    BY <2>1, <2>2, Steps DEF Forgotten, vars
<1>2. ClearIsFinal'
  <2>1. ASSUME NEW t \in Threads, Moves(t) PROVE ClearIsFinal'
    BY <2>1, FailureMoves, OthersKeep DEF Forgotten, ClearIsFinal
  <2>2. ASSUME NEW p \in Packages, Install(p) PROVE ClearIsFinal'
    <3>1. late => late'
      BY <2>2 DEF Install
    <3> QED
      BY <2>2, <3>1, InstallKeeps DEF Forgotten, ClearIsFinal
  <2> QED
    BY <2>1, <2>2, Steps DEF Forgotten, ClearIsFinal, vars
<1>3. ASSUME NEW x \in Users PROVE FoundBy(x)'
  <2>0. FoundBy(x) /\ RoleOf(x) /\ HeldBy(x)
    BY DEF Forgotten, Roles, Held
  <2>1. ASSUME NEW t \in Threads, Moves(t), x # t PROVE FoundBy(x)'
    <3>1. there[x] \subseteq installed
      BY <2>0 DEF RoleOf
    <3> QED
      BY <2>0, <2>1, <3>1, OthersKeep, FailureMoves DEF FoundBy, Same
  <2>2. ASSUME Select(x) PROVE FoundBy(x)'
    BY <2>2, SelectGoes DEF FoundBy
  <2>3. ASSUME Look(x) \/ Import(x) \/ Remember(x) PROVE FoundBy(x)'
    <3>1. late' = late /\ (failure' => failure \/ "rustcrypto" \notin installed \/ late)
      BY <2>3, OthersKeep, FailureMoves DEF Moves, Working
    <3>2. there[x] \subseteq installed /\ there'[x] = there[x]
      BY <2>0, <2>3, SearchGoes DEF RoleOf
    <3>3. CASE pc[x] = "look" /\ ~failure
      BY <2>3, <3>1, <3>2, <3>3 DEF FoundBy
    <3>4. CASE pc[x] = "look" /\ failure
      BY <2>0, <2>3, <3>1, <3>2, <3>4, SearchGoes, MissingGoes DEF FoundBy
    <3>5. CASE pc[x] = "import"
      BY <2>0, <2>3, <3>1, <3>2, <3>5, SearchGoes, FoundGoes DEF FoundBy
    <3>6. CASE pc[x] = "remember"
      BY <2>0, <2>3, <3>1, <3>2, <3>6, SearchGoes, MissingGoes DEF FoundBy
    <3> QED
      BY <2>3, <3>3, <3>4, <3>5, <3>6, SearchGoes DEF Looking
  <2>4. ASSUME UseLiboqs(x) \/ UsePyca(x) \/ UseRust(x) PROVE FoundBy(x)'
    <3>1. late' = late /\ failure' = failure
      BY <2>4, OthersKeep DEF Moves, Working, UseLiboqs, UsePyca, UseRust
    <3> QED
      BY <2>0, <2>4, <3>1, UseGoes, RustGoes DEF FoundBy
  <2>5. ASSUME TryLiboqs(x) \/ TryPyca(x) PROVE FoundBy(x)'
    <3>1. late' = late /\ failure' = failure
      BY <2>5, OthersKeep DEF Moves, Working, TryLiboqs, TryPyca
    <3> QED
      BY <2>0, <2>5, <3>1, TryGoes DEF FoundBy
  <2>6. ASSUME NEW p \in Packages, Install(p) PROVE FoundBy(x)'
    <3>1. late => late'
      BY <2>6 DEF Install
    <3> QED
      BY <2>0, <2>6, <3>1, InstallKeeps DEF FoundBy
  <2>7. CASE UNCHANGED vars
    BY <2>0, <2>7 DEF FoundBy, vars
  <2> QED
    BY <2>1, <2>2, <2>3, <2>4, <2>5, <2>6, <2>7, Steps DEF Moves, Working
<1> QED
  BY <1>1, <1>2, <1>3 DEF Forgotten
------------------------------------------------------------------------------
(* "auto" has gone past what it could not have. *)
PastRust(u) == "rustcrypto" \in there[u] => skipped[u]
PastLiboqs(u) == "liboqs" \in there[u] => Asked(u) \notin enabled

PreferredBy(u) ==
  /\ pc[u] = "remember" /\ why[u] = "select" => "rustcrypto" \notin there[u]
  /\ name[u] = "auto" /\ (pc[u] \in {"liboqs", "pyca"} \/ at[u] \in {"liboqs", "pyca"}) => PastRust(u)
  /\ name[u] = "auto" /\ (pc[u] = "pyca" \/ at[u] = "pyca") => PastLiboqs(u)
Preferred == \A u \in Users : PreferredBy(u)

LEMMA PreferredStep == TypeOK /\ Roles /\ Held /\ Preferred /\ [Next]_vars => Preferred'
<1> SUFFICES ASSUME TypeOK, Roles, Held, Preferred, [Next]_vars, NEW x \in Users PROVE PreferredBy(x)'
  BY DEF Preferred
<1> USE UserOrProber DEF PastRust, PastLiboqs, Asked, Family
<1>0. PreferredBy(x) /\ RoleOf(x) /\ HeldBy(x)
  BY DEF Preferred, Roles, Held
<1>1. ASSUME NEW t \in Threads, Moves(t), x # t PROVE PreferredBy(x)'
  BY <1>0, <1>1, OthersKeep DEF PreferredBy, Same
<1>2. ASSUME Select(x) PROVE PreferredBy(x)'
  BY <1>2, SelectGoes DEF PreferredBy
<1>3. ASSUME Look(x) \/ Import(x) \/ Remember(x) PROVE PreferredBy(x)'
  <2>1. installed' = installed /\ enabled' = enabled
    BY <1>3, OthersKeep DEF Moves, Working
  <2>2. there[x] \subseteq installed
    BY <1>0 DEF RoleOf
  <2>3. pc[x] \in Looking => at[x] \in {"none", "rustcrypto"} /\ why[x] # "list"
    BY <1>0 DEF HeldBy, RoleOf
  <2> QED
    BY <1>0, <1>3, <2>1, <2>2, <2>3, SearchGoes, MissingGoes, FoundGoes DEF PreferredBy, Looking
<1>4. ASSUME UseLiboqs(x) \/ UsePyca(x) \/ UseRust(x) PROVE PreferredBy(x)'
  <2>1. enabled' = enabled
    BY <1>4, OthersKeep DEF Moves, Working
  <2> QED
    BY <1>0, <1>4, <2>1, UseGoes, RustGoes DEF PreferredBy
<1>5. ASSUME TryLiboqs(x) \/ TryPyca(x) PROVE PreferredBy(x)'
  <2>1. enabled' = enabled
    BY <1>5, OthersKeep DEF Moves, Working
  <2>2. there[x] \subseteq installed
    BY <1>0 DEF RoleOf
  <2> QED
    BY <1>0, <1>5, <2>1, <2>2, TryGoes DEF PreferredBy, LiboqsAvailable
<1>6. ASSUME NEW p \in Packages, Install(p) PROVE PreferredBy(x)'
  BY <1>0, <1>6, InstallKeeps DEF PreferredBy
<1>7. CASE UNCHANGED vars
  BY <1>0, <1>7 DEF PreferredBy, vars
<1> QED
  BY <1>1, <1>2, <1>3, <1>4, <1>5, <1>6, <1>7, Steps DEF Moves, Working

LEMMA PreferredIsBest ==
  ASSUME TypeOK, Preferred
  PROVE  PicksBest
<1> SUFFICES ASSUME NEW u \in Users, name[u] = "auto", at[u] # "none",
                    NEW i \in 1..3, NEW j \in 1..3, Backends[j] = at[u], i < j, Backends[i] \in there[u]
             PROVE  \/ Backends[i] = "rustcrypto" /\ skipped[u]
                    \/ /\ Backends[i] = "liboqs"
                       /\ Asked(u) \notin enabled
  BY DEF PicksBest, Backends, Asked
<1>1. PreferredBy(u)
  BY DEF Preferred
<1>2. Backends[1] = "rustcrypto" /\ Backends[2] = "liboqs" /\ Backends[3] = "pyca"
  BY DEF Backends
<1>3. CASE i = 1
  BY <1>1, <1>2, <1>3 DEF PreferredBy, PastRust
<1>4. CASE i = 2
  BY <1>1, <1>2, <1>4 DEF PreferredBy, PastLiboqs
<1> QED
  BY <1>3, <1>4
------------------------------------------------------------------------------
(* The two properties, user by user. *)
WorksFor(u) ==
  LET r == request[u]
  IN  /\ answer[u] # "none"
      /\ at[u] \in {"liboqs", "pyca"}
      /\ r.op \in SecretOps /\ ~r.long /\ PycaKnows(r)
      /\ {"liboqs", "pyca"} \subseteq there[u]
      /\ r.key.form = "expanded" => {r.key.alg, Probe(Family(r))} \subseteq enabled
      => answer[u] = "ok"

AcceptedFor(u) ==
  /\ answer[u] = "rejected" /\ ~request[u].long
  => \/ at[u] = "liboqs" /\ request[u].key.alg \notin enabled \cup {Probe("sig")}
     \/ at[u] = "rustcrypto" /\ (late \/ "rustcrypto" \notin there[u] \/ request[u].key.alg \notin RustSigs)

Judged == \A u \in Users : WorksFor(u) /\ AcceptedFor(u)

LEMMA JudgedStep ==
  TypeOK /\ Roles /\ Held /\ Selected /\ LateProbes /\ Forgotten /\ Judged /\ [Next]_vars => Judged'
<1> SUFFICES ASSUME TypeOK, Roles, Held, Selected, LateProbes, Forgotten, Judged, [Next]_vars,
                    NEW x \in Users
             PROVE  WorksFor(x)' /\ AcceptedFor(x)'
  BY DEF Judged
<1> USE UserOrProber
<1>0. WorksFor(x) /\ AcceptedFor(x) /\ RoleOf(x) /\ HeldBy(x) /\ SelectedBy(x) /\ FoundBy(x)
  BY DEF Judged, Roles, Held, Selected, Forgotten
<1>1. ASSUME NEW t \in Threads, Moves(t), x # t PROVE WorksFor(x)' /\ AcceptedFor(x)'
  BY <1>0, <1>1, OthersKeep DEF WorksFor, AcceptedFor, Same
<1>2. ASSUME Select(x) PROVE WorksFor(x)' /\ AcceptedFor(x)'
  BY <1>2, SelectGoes DEF WorksFor, AcceptedFor
<1>3. ASSUME Look(x) \/ Import(x) \/ Remember(x) PROVE WorksFor(x)' /\ AcceptedFor(x)'
  <2>1. late' = late /\ installed' = installed
    BY <1>3, OthersKeep DEF Moves, Working
  <2>2. /\ pc[x] \in Looking /\ answer[x] = "none"
        /\ at[x] = (IF why[x] = "select" THEN "none" ELSE "rustcrypto")
        /\ request[x] \in Requests
    BY <1>0, <1>3, SearchGoes DEF HeldBy, Looking
  <2>3. at'[x] \in {"none", "rustcrypto"}
    BY <1>3, <2>2, SearchGoes, MissingGoes, FoundGoes
  <2>4. WorksFor(x)'
    BY <2>3 DEF WorksFor
  <2>5. ASSUME answer'[x] = "rejected", ~request'[x].long
        PROVE  /\ at'[x] = "rustcrypto"
               /\ late \/ "rustcrypto" \notin there[x] \/ request[x].key.alg \notin RustSigs
    <3>1. why[x] = "use" /\ at'[x] = at[x] /\ request'[x] = request[x]
      BY <1>3, <2>2, <2>5, SearchGoes, MissingGoes, FoundGoes
    <3>2. at[x] = "rustcrypto" /\ "rustcrypto" \in installed
      BY <1>0, <2>2, <3>1 DEF SelectedBy
    <3>3. CASE Found(x)
      BY <2>5, <3>1, <3>2, <3>3, FoundGoes, RustRejects
    <3>4. CASE pc[x] = "look" /\ failure
      BY <1>0, <3>1, <3>2, <3>4 DEF FoundBy
    <3>5. CASE pc[x] = "remember"
      BY <3>1, <3>2, <3>5 DEF LateProbes
    <3> QED
      BY <1>3, <2>2, <2>5, <3>1, <3>2, <3>3, <3>4, <3>5, SearchGoes
  <2>6. there'[x] = there[x] /\ request'[x] = request[x]
    BY <1>3, SearchGoes
  <2> QED
    BY <2>1, <2>4, <2>5, <2>6 DEF AcceptedFor
<1>4. ASSUME UseLiboqs(x) \/ UsePyca(x) PROVE WorksFor(x)' /\ AcceptedFor(x)'
  <2> DEFINE r == request[x]
  <2>1. late' = late /\ installed' = installed /\ enabled' = enabled
    BY <1>4, OthersKeep DEF Moves, Working
  <2>2. answer[x] = "none" /\ r \in Requests /\ there[x] \subseteq installed /\ r \in Request
    BY <1>0, <1>4, UseGoes, RegistryAssumption DEF HeldBy, RoleOf
  <2>3. request'[x] = r /\ at'[x] = at[x] /\ there'[x] = there[x] /\ at[x] \in {"liboqs", "pyca"}
    BY <1>4, UseGoes
  <2>4. CASE /\ at[x] = "liboqs" /\ ~LiboqsHandsOver(r)
             /\ answer'[x] \in (IF Family(r) = "kem"
                                THEN LiboqsKEMAnswers(r, "liboqs" \in installed, enabled)
                                ELSE LiboqsSigAnswers(r, "liboqs" \in installed, enabled))
    <3>1. ("liboqs" \in installed) = TRUE
      BY <1>0, <2>4 DEF SelectedBy
    <3>2. WorksFor(x)'
      <4> SUFFICES ASSUME r.op \in SecretOps, ~r.long, PycaKnows(r),
                          r.key.form = "expanded" => r.key.alg \in enabled
                   PROVE  answer'[x] = "ok"
        BY <2>1, <2>3 DEF WorksFor
      <4>0. r.key.alg \in enabled
        <5>1. r.key.form \in {"seed", "expanded"}
          BY <2>2 DEF Request, Key, Forms
        <5> QED
          BY <2>2, <2>4, <5>1, FormsSeen
      <4>1. (IF Family(r) = "kem" THEN LiboqsKEMAnswers(r, TRUE, enabled)
             ELSE LiboqsSigAnswers(r, TRUE, enabled)) = {"ok"}
        BY <2>2, <2>4, <4>0, LiboqsDoes
      <4> QED
        BY <2>4, <3>1, <4>1
    <3>3. answer'[x] = "rejected" /\ ~r.long => r.key.alg \notin enabled /\ Family(r) # "kem"
      BY <2>4, LiboqsRejects
    <3>4. Family(r) # "kem" => Probe("sig") \in enabled
      BY <1>0, <2>4 DEF SelectedBy, Asked, Probe
    <3>5. AcceptedFor(x)'
      BY <2>1, <2>3, <2>4, <3>3, <3>4 DEF AcceptedFor
    <3> QED
      BY <3>2, <3>5
  <2>5. CASE at[x] = "pyca" /\ ~PycaHandsOver(r) /\ answer'[x] \in PycaAnswers(r, "pyca" \in installed)
    <3>1. ("pyca" \in installed) = TRUE
      BY <1>0, <2>5 DEF SelectedBy
    <3>2. WorksFor(x)'
      BY <2>1, <2>2, <2>3, <2>5, <3>1, PycaDoes DEF WorksFor
    <3>3. AcceptedFor(x)'
      BY <2>3, <2>5, PycaRejects DEF AcceptedFor
    <3> QED
      BY <3>2, <3>3
  <2>6. CASE answer'[x] = answer[x]
    BY <2>2, <2>6 DEF WorksFor, AcceptedFor
  <2> QED
    BY <1>4, <2>4, <2>5, <2>6, UseGoes
<1>5. ASSUME UseRust(x) PROVE WorksFor(x)' /\ AcceptedFor(x)'
  <2>1. answer[x] = "none"
    BY <1>0, <1>5, RustGoes DEF HeldBy
  <2> QED
    BY <1>5, <2>1, RustGoes, RustRejects DEF WorksFor, AcceptedFor
<1>6. ASSUME TryLiboqs(x) \/ TryPyca(x) PROVE WorksFor(x)' /\ AcceptedFor(x)'
  <2>1. enabled' = enabled
    BY <1>6, OthersKeep DEF Moves, Working
  <2>2. answer[x] = "none" /\ there[x] \subseteq installed
    BY <1>0, <1>6, TryGoes DEF HeldBy, RoleOf
  <2>3. AcceptedFor(x)'
    BY <1>6, <2>2, TryGoes DEF AcceptedFor
  <2>4. ASSUME answer'[x] # "none", at'[x] # "none",
               request[x].op \in SecretOps, ~request[x].long, PycaKnows(request[x]),
               request[x].key.form = "expanded" => Probe(Family(request[x])) \in enabled,
               {"liboqs", "pyca"} \subseteq there[x]
        PROVE  FALSE
    <3>1. {"liboqs", "pyca"} \subseteq installed
      BY <2>2, <2>4
    <3>2. pc[x] = "liboqs" /\ at[x] # "none" /\ ~LiboqsAvailable(Family(request[x]), TRUE, enabled)
      BY <1>6, <2>2, <2>4, <3>1, TryGoes
    <3>3. request[x] \in Request /\ PycaHandsOver(request[x])
      BY <1>0, <3>2, RegistryAssumption DEF HeldBy
    <3> QED
      BY <2>4, <3>2, <3>3, FormsSeen DEF LiboqsAvailable
  <2>5. WorksFor(x)'
    BY <1>6, <2>1, <2>2, <2>4, TryGoes DEF WorksFor
  <2> QED
    BY <2>3, <2>5
<1>7. ASSUME NEW p \in Packages, Install(p) PROVE WorksFor(x)' /\ AcceptedFor(x)'
  <2>1. late => late'
    BY <1>7 DEF Install
  <2> QED
    BY <1>0, <1>7, <2>1, InstallKeeps DEF WorksFor, AcceptedFor
<1>8. CASE UNCHANGED vars
  BY <1>0, <1>8 DEF WorksFor, AcceptedFor, vars
<1> QED
  BY <1>1, <1>2, <1>3, <1>4, <1>5, <1>6, <1>7, <1>8, Steps DEF Moves, Working
------------------------------------------------------------------------------
LEMMA TypeStart == Init => TypeOK
<1> SUFFICES ASSUME Init PROVE TypeOK
  OBVIOUS
<1>1. pc \in [Threads -> Places] /\ why \in [Threads -> Purposes]
  BY DEF Init, Places, Purposes
<1>2. name \in [Threads -> Names \cup Overrides \cup KnownNames]
  BY DEF Init, KnownNames
<1>3. request \in [Threads -> Requests \cup {NoRequest}] /\ there \in [Threads -> SUBSET Packages]
  BY DEF Init
<1>4. answer \in [Threads -> Answers \cup {"unknown", "none"}] /\ at \in [Threads -> Packages \cup {"none"}]
  BY DEF Init
<1>5. calls \in [Threads -> Nat] /\ skipped \in [Threads -> BOOLEAN]
  BY DEF Init
<1>6. failure \in BOOLEAN /\ late \in BOOLEAN /\ cleared \in BOOLEAN
  BY DEF Init
<1> QED
  BY <1>1, <1>2, <1>3, <1>4, <1>5, <1>6 DEF Init, TypeOK

(* The state never leaves its type. *)
THEOREM Typing == Spec => []TypeOK
  BY TypeStart, TypeStep, PTL DEF Spec

BInv ==
  /\ TypeOK /\ Roles /\ Held /\ Selected /\ LateProbes /\ Forgotten /\ Preferred /\ Judged

LEMMA BInvHolds == Spec => []BInv
<1>1. Init => BInv
  BY TypeStart, UserOrProber DEF Init, BInv, Roles, RoleOf, Held, HeldBy, Looking, Selected, SelectedBy,
    LateProbes, Forgotten, ClearIsFinal, FoundBy, Preferred, PreferredBy, Judged, WorksFor, AcceptedFor
<1>2. BInv /\ [Next]_vars => BInv'
  BY TypeStep, RolesStep, HeldStep, SelectedStep, LateStep, ForgottenStep, PreferredStep, JudgedStep
    DEF BInv
<1> QED
  BY <1>1, <1>2, PTL DEF Spec

(* "auto" gives the backend of the highest preference that was installed when
   the caller asked, but for an extension whose failed import is remembered and
   a liboqs without the one mechanism is_available() looks for. *)
THEOREM BestIsPicked == Spec => []PicksBest
<1>1. BInv => PicksBest
  BY PreferredIsBest DEF BInv
<1> QED
  BY <1>1, BInvHolds, PTL

(* After clear_backend_cache() an extension that is installed is found and
   stays found; only a probe that had already failed can undo this. *)
THEOREM ClearingIsFinal == Spec => []ClearIsFinal
<1>1. BInv => ClearIsFinal
  BY DEF BInv, Forgotten
<1> QED
  BY <1>1, BInvHolds, PTL

(* With liboqs and pyca installed a seed works with whichever of them the
   caller selected, and so does an expanded key if the liboqs build has its
   mechanism and the one is_available() looks for. *)
THEOREM EitherFormWorks == Spec => []KeyWorksWithEither
<1>1. BInv => KeyWorksWithEither
  BY DEF BInv, Judged, WorksFor, KeyWorksWithEither
<1> QED
  BY <1>1, BInvHolds, PTL

(* What is or is not installed makes no adapter call a good signature bad, but
   for the exceptions the property lists. *)
THEOREM GoodIsAccepted == Spec => []GoodSignatureAccepted
<1>1. BInv => GoodSignatureAccepted
  BY DEF BInv, Judged, AcceptedFor, GoodSignatureAccepted
<1> QED
  BY <1>1, BInvHolds, PTL
==============================================================================
