------------------------ MODULE RewrapDirectoryProofs ------------------------
(***************************************************************************)
(* rewrap_directory loses nothing, overwrites nothing else and reports what *)
(* it did, for every set of files, every number of runs and crashes, and    *)
(* whatever the application writes in between.                              *)
(***************************************************************************)
EXTENDS RewrapDirectory, TLAPS

(* What a source file may hold, at any time. *)
VersionOf(f, content) ==
  \E n \in 0..MaxUpdates, k \in {OldKey, newKey} : content = Envelope(f, n, k)

Content(f, content) ==
  content = Junk \/ content = Altered(Envelope(f, 0, OldKey)) \/ VersionOf(f, content)

Typed ==
  /\ inPlace \in BOOLEAN /\ newKey \in NewKeys
  /\ source = [f \in Files |-> source[f]]
  /\ \A f \in Files : Content(f, source[f])
  /\ copies = [f \in Files |-> copies[f]]
  /\ pc \in {"idle", "next", "decide", "write"}
  /\ todo \subseteq Files /\ cur \in Files
  /\ secret \in {"none", "right", "wrong"} /\ dryRun \in BOOLEAN
  /\ report = [f \in Files |-> report[f]]
  /\ latest \in [Files -> Nat]
  /\ updates \in 0..MaxUpdates
  /\ \A f \in Files : latest[f] <= updates

(* In place what was read is still there, since the application leaves the
   file in progress alone; and a file is about to be written only if its
   message opens under the old key and nothing is in the way. *)
InProgress ==
  /\ pc \in {"decide", "write"} => Content(cur, raw) /\ (inPlace => raw = source[cur])
  /\ pc = "write" => Reads(raw, OldKey, cur) /\ ~dryRun /\ (~inPlace => copies[cur] = Absent)

IInv == Typed /\ InProgress /\ NothingLost
------------------------------------------------------------------------------
(* What is sealed to a key opens with it. *)
LEMMA SealOpens ==
  ASSUME NEW plain, NEW key, key.algorithm \in Suites, NEW aad
  PROVE  /\ Opens(Seal(plain, key, aad), key, aad)
         /\ PlainOf(Seal(plain, key, aad)) = plain
         /\ Seal(plain, key, aad).aad = aad
<1> DEFINE sealed == Seal(plain, key, aad)
           version == VersionFor(key.algorithm)
           made == IF version = 1 THEN HybridEncapsulate(key, Coin(plain, key))
                                  ELSE KemEncapsulate(key, Coin(plain, key))
<1>1. sealed = [version    |-> version,
                algorithm  |-> key.algorithm,
                aad        |-> aad,
                kem_ct     |-> made.ct,
                ciphertext |-> [under |-> EnvelopeKey(version, made.ss), plain |-> plain,
                                bound |-> BuildAad(version, key.algorithm, aad)]]
  BY DEF Seal
<1>2. made.ss = IF version = 1 THEN HybridDecapsulate(key, made.ct) ELSE KemDecapsulate(key, made.ct)
  BY DEF HybridEncapsulate, HybridDecapsulate, KemEncapsulate, KemDecapsulate
<1> HIDE DEF made, version
<1>3. /\ sealed.version = version /\ sealed.algorithm = key.algorithm /\ sealed.aad = aad
      /\ sealed.kem_ct = made.ct /\ sealed.ciphertext.under = EnvelopeKey(version, made.ss)
      /\ sealed.ciphertext.plain = plain
      /\ sealed.ciphertext.bound = BuildAad(version, key.algorithm, aad)
  BY <1>1
<1> HIDE DEF sealed
<1>4. SharedWith(sealed, key) = made.ss
  BY <1>2, <1>3 DEF SharedWith
<1>5. Openable(sealed, key, aad)
  BY <1>3 DEF Openable, version
<1>6. Opens(sealed, key, aad)
  BY <1>3, <1>4, <1>5 DEF Opens
<1> QED
  BY <1>3, <1>6 DEF PlainOf, sealed

(* Every version of a file opens under the key it is sealed to. *)
LEMMA VersionReads ==
  ASSUME Typed, NEW f \in Files, NEW n \in 0..MaxUpdates, NEW k \in {OldKey, newKey}
  PROVE  /\ Reads(Envelope(f, n, k), k, f)
         /\ PlainOf(Envelope(f, n, k)) = <<f, n>>
         /\ Envelope(f, n, k).aad = f
<1>1. k.algorithm \in Suites /\ k \in NewKeys \cup {OldKey}
  BY RewrapAssumption DEF Typed, NewKeys, OldKey
<1>2. IsEnvelope(Envelope(f, n, k))
  BY <1>1, ContentAssumption DEF IsEnvelope
<1> QED
  BY <1>1, <1>2, SealOpens DEF Reads, Envelope

(* What opens as file f is a version of file f. *)
LEMMA ReadsVersion ==
  ASSUME Typed, NEW f \in Files, NEW c, Content(f, c), NEW k, Reads(c, k, f)
  PROVE  \E n \in 0..MaxUpdates : /\ PlainOf(c) = <<f, n>> /\ c.aad = f
                                  /\ Rewrap(c, newKey) = Envelope(f, n, newKey)
<1>1. c # Junk
  BY DEF Reads, IsEnvelope
<1>2. c # Altered(Envelope(f, 0, OldKey))
  <2>1. c.aad = f
    BY DEF Reads, Opens, Openable
  <2>2. Altered(Envelope(f, 0, OldKey)).aad = "elsewhere"
    BY DEF Altered, Envelope, Seal
  <2> QED
    BY <2>1, <2>2, RewrapAssumption
<1>3. PICK n \in 0..MaxUpdates, key \in {OldKey, newKey} : c = Envelope(f, n, key)
  BY <1>1, <1>2 DEF Content, VersionOf
<1>4. PlainOf(c) = <<f, n>> /\ c.aad = f
  BY <1>3, VersionReads
<1>5. Rewrap(c, newKey) = Envelope(f, n, newKey)
  BY <1>4 DEF Rewrap, Envelope
<1> QED
  BY <1>4, <1>5
------------------------------------------------------------------------------
LEMMA InitIInv == Init => IInv
<1> SUFFICES ASSUME Init PROVE IInv
  OBVIOUS
<1> USE RewrapAssumption
<1>1. PICK kind \in [Files -> {"junk", "old", "altered", "new"}] :
        source = [f \in Files |->
                    CASE kind[f] = "junk"    -> Junk
                      [] kind[f] = "old"     -> Envelope(f, 0, OldKey)
                      [] kind[f] = "altered" -> Altered(Envelope(f, 0, OldKey))
                      [] OTHER               -> Envelope(f, 0, newKey)]
  BY DEF Init
<1>2. PICK there \in [Files -> {"absent", "junk", "old"}] :
        copies = [f \in Files |->
                    CASE there[f] = "absent" -> Absent
                      [] there[f] = "junk"   -> Junk
                      [] OTHER               -> Envelope(f, 0, OldKey)]
  BY DEF Init
<1>3. ASSUME NEW f \in Files
      PROVE  \/ source[f] \in {Junk, Altered(Envelope(f, 0, OldKey))}
             \/ \E k \in {OldKey, newKey} : source[f] = Envelope(f, 0, k)
  <2>1. source[f] = CASE kind[f] = "junk"    -> Junk
                      [] kind[f] = "old"     -> Envelope(f, 0, OldKey)
                      [] kind[f] = "altered" -> Altered(Envelope(f, 0, OldKey))
                      [] OTHER               -> Envelope(f, 0, newKey)
    BY <1>1
  <2>2. kind[f] \in {"junk", "old", "altered", "new"}
    OBVIOUS
  <2> QED
    BY <2>1, <2>2
<1>4. Typed
  <2>1. 0 \in 0..MaxUpdates
    OBVIOUS
  <2>2. \A f \in Files : Content(f, source[f])
    BY <1>3, <2>1 DEF Content, VersionOf
  <2>3. source = [f \in Files |-> source[f]]
    BY <1>1
  <2>4. copies = [f \in Files |-> copies[f]]
    BY <1>2
  <2>5. report = [f \in Files |-> report[f]] /\ latest \in [Files -> Nat] /\ \A f \in Files : latest[f] <= updates
    BY DEF Init
  <2> QED
    BY <2>1, <2>2, <2>3, <2>4, <2>5 DEF Init, Typed
<1>5. InProgress
  BY DEF Init, InProgress
<1>6. NothingLost
  <2> SUFFICES ASSUME NEW f \in Files, source[f] \notin {Junk, Altered(Envelope(f, 0, OldKey))}
               PROVE  \E k \in {OldKey, newKey} : Reads(source[f], k, f) /\ PlainOf(source[f]) = <<f, latest[f]>>
    BY DEF Init, NothingLost
  <2>1. PICK k \in {OldKey, newKey} : source[f] = Envelope(f, 0, k)
    BY <1>3
  <2>2. Reads(source[f], k, f) /\ PlainOf(source[f]) = <<f, 0>>
    BY <1>4, <2>1, VersionReads
  <2> QED
    BY <2>2 DEF Init
<1> QED
  BY <1>4, <1>5, <1>6 DEF IInv

(* What Replace puts at its target is the version that was read, sealed to the
   new key; in place that is the version the application put last. *)
LEMMA Moved ==
  ASSUME IInv, pc = "write"
  PROVE  \E n \in 0..MaxUpdates :
           /\ PlainOf(raw) = <<cur, n>>
           /\ Rewrap(raw, newKey) = Envelope(cur, n, newKey)
           /\ Reads(Rewrap(raw, newKey), newKey, cur)
           /\ PlainOf(Rewrap(raw, newKey)) = <<cur, n>>
           /\ inPlace => n = latest[cur]
<1>1. cur \in Files /\ Content(cur, raw) /\ Reads(raw, OldKey, cur) /\ Typed
  BY DEF IInv, Typed, InProgress
<1>2. PICK n \in 0..MaxUpdates : /\ PlainOf(raw) = <<cur, n>> /\ raw.aad = cur
                                 /\ Rewrap(raw, newKey) = Envelope(cur, n, newKey)
  BY <1>1, ReadsVersion
<1>3. Reads(Envelope(cur, n, newKey), newKey, cur) /\ PlainOf(Envelope(cur, n, newKey)) = <<cur, n>>
  BY <1>1, VersionReads
<1>4. ASSUME inPlace PROVE n = latest[cur]
  <2>1. raw = source[cur]
    BY <1>4 DEF IInv, InProgress
  <2>2. raw # Junk
    BY <1>1 DEF Reads, IsEnvelope
  <2>3. raw # Altered(Envelope(cur, 0, OldKey))
    BY <1>1, <1>2, RewrapAssumption DEF Altered, Envelope, Seal
  <2>4. PlainOf(source[cur]) = <<cur, latest[cur]>>
    BY <1>1, <2>1, <2>2, <2>3 DEF IInv, NothingLost
  <2> QED
    BY <1>2, <2>1, <2>4
<1> QED
  BY <1>2, <1>3, <1>4

(* What a step that leaves the files alone has to keep. *)
LEMMA FilesKept ==
  ASSUME IInv, UNCHANGED <<fixed, source, copies, app>>
  PROVE  NothingLost' /\ (\A f \in Files : Content(f, source[f]))'
BY DEF IInv, Typed, NothingLost, Content, VersionOf, fixed, app

LEMMA NextIInv == IInv /\ [Next]_vars => IInv'
<1> SUFFICES ASSUME IInv, [Next]_vars PROVE IInv'
  OBVIOUS
<1> USE RewrapAssumption
<1>0. newKey' = newKey /\ inPlace' = inPlace
  BY DEF Next, Run, Start, ReadFile, Finish, Skip, Recognise, Refuse, DryRun, Write, Replace, WriteFails,
     Item, Crash, Update, vars, fixed
<1>1. ASSUME Start \/ Finish \/ Crash \/ UNCHANGED vars PROVE IInv'
  <2>1. UNCHANGED <<fixed, source, copies, app, cur, raw>>
    BY <1>1 DEF Start, Finish, Crash, vars
  <2>2. NothingLost' /\ (\A f \in Files : Content(f, source[f]))'
    BY <2>1, FilesKept
  <2>3. Typed'
    BY <1>1, <2>1, <2>2 DEF IInv, Typed, Start, Finish, Crash, vars, call, app, fixed
  <2>4. InProgress'
    BY <1>1, <2>1 DEF IInv, InProgress, Content, VersionOf, Start, Finish, Crash, vars, call, fixed
  <2> QED
    BY <2>2, <2>3, <2>4 DEF IInv
<1>2. ASSUME ReadFile PROVE IInv'
  <2>1. UNCHANGED <<fixed, source, copies, app, call, report>> /\ pc' = "decide"
    BY <1>2 DEF ReadFile
  <2>2. NothingLost' /\ (\A f \in Files : Content(f, source[f]))'
    BY <2>1, FilesKept
  <2>3. cur' \in todo /\ raw' = source[cur'] /\ todo' \subseteq Files
    BY <1>2 DEF ReadFile, IInv, Typed
  <2>4. Typed'
    BY <2>1, <2>2, <2>3 DEF IInv, Typed, call, app, fixed
  <2>5. InProgress'
    BY <2>1, <2>3 DEF IInv, Typed, InProgress, Content, VersionOf, fixed
  <2> QED
    BY <2>2, <2>4, <2>5 DEF IInv
<1>3. ASSUME NEW status, Item(status) PROVE IInv'
  <2>1. UNCHANGED <<fixed, source, copies, app, call, cur, raw, todo>> /\ pc' = "next"
    BY <1>3 DEF Item
  <2>2. NothingLost' /\ (\A f \in Files : Content(f, source[f]))'
    BY <2>1, FilesKept
  <2>3. Typed'
    BY <1>3, <2>1, <2>2 DEF IInv, Typed, Item, call, app, fixed
  <2>4. InProgress'
    BY <2>1 DEF InProgress
  <2> QED
    BY <2>2, <2>3, <2>4 DEF IInv
<1>4. ASSUME Write PROVE IInv'
  <2>1. UNCHANGED <<fixed, source, copies, app, call, report, cur, raw, todo>> /\ pc' = "write"
    BY <1>4 DEF Write
  <2>2. NothingLost' /\ (\A f \in Files : Content(f, source[f]))'
    BY <2>1, FilesKept
  <2>3. Typed'
    BY <2>1, <2>2 DEF IInv, Typed, call, app, fixed
  <2>4. Reads(raw, OldKey, cur) /\ ~dryRun /\ (~inPlace => copies[cur] = Absent) /\ pc = "decide"
    BY <1>4 DEF Write, MayWrite, CannotRewrap, IsDone
  <2>5. InProgress'
    BY <2>1, <2>4 DEF IInv, InProgress, Content, VersionOf, call, fixed
  <2> QED
    BY <2>2, <2>3, <2>5 DEF IInv
<1>5. ASSUME Replace PROVE IInv'
  <2>1. /\ pc = "write" /\ pc' = "next" /\ UNCHANGED <<fixed, todo, cur, raw, call, app>>
        /\ report' = [report EXCEPT ![cur] = "rewrapped"]
    BY <1>5 DEF Replace
  <2>2. PICK n \in 0..MaxUpdates :
           /\ Rewrap(raw, newKey) = Envelope(cur, n, newKey)
           /\ Reads(Rewrap(raw, newKey), newKey, cur)
           /\ PlainOf(Rewrap(raw, newKey)) = <<cur, n>>
           /\ inPlace => n = latest[cur]
    BY <2>1, Moved
  <2>3. CASE inPlace
    <3>1. source' = [source EXCEPT ![cur] = Rewrap(raw, newKey)] /\ UNCHANGED copies
      BY <1>5, <2>3 DEF Replace
    <3>2. source'[cur] = Rewrap(raw, newKey) /\ \A f \in Files \ {cur} : source'[f] = source[f]
      BY <3>1 DEF IInv, Typed
    <3>3. (\A f \in Files : Content(f, source[f]))'
      BY <1>0, <2>2, <3>2 DEF IInv, Typed, Content, VersionOf
    <3>4. Typed'
      BY <2>1, <3>1, <3>3 DEF IInv, Typed, call, app, fixed
    <3>5. NothingLost'
      BY <1>0, <2>1, <2>2, <2>3, <3>2 DEF IInv, NothingLost, app
    <3>6. InProgress'
      BY <2>1 DEF InProgress
    <3> QED
      BY <3>4, <3>5, <3>6 DEF IInv
  <2>4. CASE ~inPlace
    <3>1. copies' = [copies EXCEPT ![cur] = Rewrap(raw, newKey)] /\ UNCHANGED source
      BY <1>5, <2>4 DEF Replace
    <3>2. NothingLost' /\ (\A f \in Files : Content(f, source[f]))'
      BY <1>0, <2>1, <3>1 DEF IInv, Typed, NothingLost, Content, VersionOf, app
    <3>3. Typed'
      BY <2>1, <3>1, <3>2 DEF IInv, Typed, call, app, fixed
    <3>4. InProgress'
      BY <2>1 DEF InProgress
    <3> QED
      BY <3>2, <3>3, <3>4 DEF IInv
  <2> QED
    BY <2>3, <2>4
<1>6. ASSUME NEW g \in Files, Update(g) PROVE IInv'
  <2>1. PICK k \in {OldKey, newKey} : source' = [source EXCEPT ![g] = Envelope(g, latest[g] + 1, k)]
    BY <1>6 DEF Update
  <2>2. /\ UNCHANGED <<fixed, copies, pc, todo, cur, raw, call, report>>
        /\ latest' = [latest EXCEPT ![g] = latest[g] + 1] /\ updates' = updates + 1
        /\ updates < MaxUpdates /\ (inPlace => pc \in {"idle", "next"} \/ cur # g)
    BY <1>6 DEF Update
  <2> DEFINE n == latest[g] + 1
  <2>3. n \in 0..MaxUpdates /\ updates' \in 0..MaxUpdates /\ \A f \in Files : latest'[f] <= updates'
    BY <2>2 DEF IInv, Typed
  <2>4. Reads(Envelope(g, n, k), k, g) /\ PlainOf(Envelope(g, n, k)) = <<g, n>>
    BY <2>3, VersionReads DEF IInv
  <2> HIDE DEF n
  <2>5. source'[g] = Envelope(g, n, k) /\ \A f \in Files \ {g} : source'[f] = source[f]
    BY <2>1 DEF IInv, Typed, n
  <2>6. latest'[g] = n /\ \A f \in Files \ {g} : latest'[f] = latest[f]
    BY <2>2 DEF IInv, Typed, n
  <2>7. (\A f \in Files : Content(f, source[f]))'
    BY <1>0, <2>3, <2>5 DEF IInv, Typed, Content, VersionOf
  <2>8. Typed'
    BY <2>1, <2>2, <2>3, <2>7 DEF IInv, Typed, call, fixed
  <2>9. NothingLost'
    BY <1>0, <2>4, <2>5, <2>6 DEF IInv, NothingLost
  <2>10. InProgress'
    BY <1>0, <2>2, <2>5 DEF IInv, Typed, InProgress, Content, VersionOf, call, fixed
  <2> QED
    BY <2>8, <2>9, <2>10 DEF IInv
<1> QED
  BY <1>1, <1>2, <1>3, <1>4, <1>5, <1>6
     DEF Next, Run, Skip, Recognise, Refuse, DryRun, WriteFails

LEMMA InvHolds == Spec => []IInv
  BY InitIInv, NextIInv, PTL DEF Spec
------------------------------------------------------------------------------
(* What the application sealed last always opens. *)
THEOREM NothingIsLost == Spec => []NothingLost
<1>1. IInv => NothingLost
  BY DEF IInv
<1> QED
  BY <1>1, InvHolds, PTL

LEMMA KeyFixed == [Next]_vars => UNCHANGED fixed
BY DEF Next, Run, Start, ReadFile, Finish, Skip, Recognise, Refuse, DryRun, Write, Replace, WriteFails,
       Item, Crash, Update, vars

(* A step that says of one file what became of it says it of the file in
   progress, and leaves the files as they are unless it is Replace. *)
LEMMA ReportedFile ==
  ASSUME IInv, NEW f \in Files, NEW status, Item(status), report'[f] # report[f]
  PROVE  f = cur /\ report'[f] = status /\ UNCHANGED <<fixed, source, copies, cur, raw, call>>
BY DEF IInv, Typed, Item

(* A message in the directory that Replace has put is the one it read. *)
LEMMA Replaced ==
  ASSUME IInv, Replace
  PROVE  /\ Target(cur)' = Rewrap(raw, newKey)
         /\ Reads(Rewrap(raw, newKey), newKey, cur)
         /\ PlainOf(Rewrap(raw, newKey)) = PlainOf(raw)
<1>1. PICK n \in 0..MaxUpdates :
        /\ PlainOf(raw) = <<cur, n>>
        /\ Reads(Rewrap(raw, newKey), newKey, cur)
        /\ PlainOf(Rewrap(raw, newKey)) = <<cur, n>>
  BY Moved DEF Replace
<1>2. cur \in Files /\ cur' = cur /\ inPlace' = inPlace
  BY DEF IInv, Typed, Replace, fixed
<1>3. Target(cur)' = Rewrap(raw, newKey)
  BY <1>2 DEF Replace, Target, IInv, Typed
<1> QED
  BY <1>1, <1>3

(* What is called already migrated, with the right secret key at hand, opens. *)
LEMMA Recognised ==
  ASSUME IInv, Recognise, secret = "right", NEW f \in Files,
         report[f] # "already_migrated", report'[f] = "already_migrated"
  PROVE  f = cur /\ Reads(Target(f), newKey, f) /\ UNCHANGED <<fixed, source, copies>>
<1>1. /\ Item(IF inPlace \/ IsMigratedCopy(copies[cur]) THEN "already_migrated" ELSE "failed")
      /\ pc = "decide" /\ IsDone
  BY DEF Recognise
<1>2. /\ f = cur /\ (inPlace \/ IsMigratedCopy(copies[cur]))
      /\ UNCHANGED <<fixed, source, copies>>
  BY <1>1, ReportedFile
<1>3. CASE inPlace
  BY <1>1, <1>2, <1>3 DEF IsDone, OpensNew, Target, IInv, InProgress
<1>4. CASE ~inPlace
  BY <1>2, <1>4 DEF IsMigratedCopy, OpensNew, Target
<1> QED
  BY <1>2, <1>3, <1>4

(* What a report may say anew in one step. *)
LEMMA NewReport ==
  ASSUME IInv, [Next]_vars, NEW f \in Files
  PROVE  /\ report[f] # "rewrapped" /\ report'[f] = "rewrapped" => Replace /\ f = cur
         /\ report[f] # "already_migrated" /\ report'[f] = "already_migrated" => Recognise
<1>1. CASE Start \/ Crash
  BY <1>1 DEF Start, Crash
<1>2. CASE ReadFile \/ Finish \/ Write \/ UNCHANGED vars \/ \E g \in Files : Update(g)
  BY <1>2 DEF ReadFile, Finish, Write, vars, Update
<1>3. CASE Skip \/ Refuse \/ DryRun \/ WriteFails
  BY <1>3, ReportedFile DEF Skip, Refuse, DryRun, WriteFails
<1>4. CASE Recognise
  <2>1. Item(IF inPlace \/ IsMigratedCopy(copies[cur]) THEN "already_migrated" ELSE "failed")
    BY <1>4 DEF Recognise
  <2> QED
    BY <1>4, <2>1, ReportedFile
<1>5. CASE Replace
  BY <1>5 DEF Replace, IInv, Typed
<1> QED
  BY <1>1, <1>2, <1>3, <1>4, <1>5 DEF Next, Run

(* A run that says it moved a file, or found it moved, is right. *)
THEOREM ReportsAreTrue == Spec => ReportIsTrue
<1> DEFINE Step(f) ==
       /\ report[f] # "rewrapped" /\ report'[f] = "rewrapped"
            => Reads(Target(f)', newKey, f) /\ PlainOf(Target(f)') = PlainOf(raw)
       /\ report[f] # "already_migrated" /\ report'[f] = "already_migrated" /\ secret = "right"
            => Reads(Target(f)', newKey, f)
<1>1. ASSUME IInv, [Next]_vars, NEW f \in Files PROVE Step(f)
  <2>1. ASSUME report[f] # "rewrapped", report'[f] = "rewrapped"
        PROVE  Reads(Target(f)', newKey, f) /\ PlainOf(Target(f)') = PlainOf(raw)
    <3>1. Replace /\ f = cur
      BY <1>1, <2>1, NewReport
    <3>2. Target(f)' = Rewrap(raw, newKey)
      BY <1>1, <3>1, Replaced DEF Replace, Target
    <3> QED
      BY <1>1, <3>1, <3>2, Replaced
  <2>2. ASSUME report[f] # "already_migrated", report'[f] = "already_migrated", secret = "right"
        PROVE  Reads(Target(f)', newKey, f)
    <3>1. Recognise
      BY <1>1, <2>2, NewReport
    <3>2. Reads(Target(f), newKey, f) /\ UNCHANGED <<fixed, source, copies>>
      BY <1>1, <2>2, <3>1, Recognised
    <3>3. Target(f)' = Target(f)
      BY <3>2 DEF Target, fixed
    <3> QED
      BY <3>2, <3>3
  <2> QED
    BY <2>1, <2>2
<1>2. IInv /\ [Next]_vars => [\A f \in Files : Step(f)]_vars
  BY <1>1
<1> QED
  BY <1>2, InvHolds, PTL DEF Spec, ReportIsTrue

(* In place only messages under the old key are replaced, elsewhere only what
   is missing is added, and a dry run writes nothing. *)
THEOREM NothingElseWritten == Spec => NeverOverwrites
<1> DEFINE Step(f) ==
       /\ source'[f] # source[f] => inPlace /\ ~dryRun /\ Reads(source[f], OldKey, f)
       /\ copies'[f] # copies[f] => ~inPlace /\ ~dryRun /\ copies[f] = Absent
<1>1. ASSUME IInv, Run, NEW f \in Files PROVE Step(f)
  <2>1. CASE Replace
    <3>1. pc = "write"
      BY <2>1 DEF Replace
    <3>2. Reads(raw, OldKey, cur) /\ ~dryRun /\ (~inPlace => copies[cur] = Absent) /\ (inPlace => raw = source[cur])
      BY <1>1, <3>1 DEF IInv, InProgress
    <3>3. source = [g \in Files |-> source[g]] /\ copies = [g \in Files |-> copies[g]]
      BY <1>1 DEF IInv, Typed
    <3>4. CASE inPlace
      <4>1. source' = [source EXCEPT ![cur] = Rewrap(raw, newKey)] /\ copies' = copies
        BY <2>1, <3>4 DEF Replace
      <4> QED
        BY <3>2, <3>3, <3>4, <4>1
    <3>5. CASE ~inPlace
      <4>1. copies' = [copies EXCEPT ![cur] = Rewrap(raw, newKey)] /\ source' = source
        BY <2>1, <3>5 DEF Replace
      <4> QED
        BY <3>2, <3>3, <3>5, <4>1
    <3> QED
      BY <3>4, <3>5
  <2>2. CASE ~Replace
    BY <1>1, <2>2 DEF Run, Start, ReadFile, Finish, Skip, Recognise, Refuse, DryRun, Write, WriteFails, Item
  <2> QED
    BY <2>1, <2>2
<1>2. IInv => [Run => \A f \in Files : Step(f)]_vars
  BY <1>1
<1> QED
  BY <1>2, InvHolds, PTL DEF NeverOverwrites
------------------------------------------------------------------------------
(* A hybrid suite has two names and the pure one has one. *)
LEMMA HybridShape ==
  ASSUME NEW algorithm \in Hybrids
  PROVE  /\ \E classical, pqc : algorithm = <<classical, pqc>>
         /\ Len(algorithm) = 2
         /\ algorithm # <<"ML-KEM-1024">>
<1>1. PICK classical, pqc : algorithm = <<classical, pqc>>
  BY DEF Hybrids
<1>2. Len(algorithm) = 2 /\ Len(<<"ML-KEM-1024">>) = 1
  BY <1>1
<1> QED
  BY <1>1, <1>2

(* The ratings of the suites an envelope may use. *)
LEMMA PureSuiteRated ==
  LET name == NameOf(<<"ML-KEM-1024">>)
  IN  /\ CheckKem(name) = "compliant" /\ CheckKeyDerivation(name) = "compliant" /\ name # NotGiven
<1>1. NameOf(<<"ML-KEM-1024">>) = Name(<<"ML-KEM-1024">>, FALSE)
  BY DEF NameOf
<1> DEFINE name == Name(<<"ML-KEM-1024">>, FALSE)
<1>2. name.parts = <<"ML-KEM-1024">> /\ Len(name.parts) = 1 /\ name.parts[1] = "ML-KEM-1024"
  BY DEF Name
<1> HIDE DEF name
<1>3. LastPart(name) = "ML-KEM-1024" /\ ~Malformed(name)
  <2>1. ASSUME NEW i \in DOMAIN name.parts PROVE name.parts[i] # ""
    <3>1. i = 1
      BY <1>2
    <3> QED
      BY <1>2, <3>1
  <2>2. LastPart(name) = "ML-KEM-1024"
    BY <1>2 DEF LastPart
  <2>3. ~(Len(name.parts) > 2)
    BY <1>2
  <2>4. ~\E i \in DOMAIN name.parts : name.parts[i] = ""
    BY <2>1
  <2> QED
    BY <2>2, <2>3, <2>4 DEF Malformed
<1>4. CheckKem(name) = "compliant"
  <2>1. name.parts \notin {<<c, Kem2>> : c \in KnownClassical}
    <3>1. \A c : Len(<<c, Kem2>>) = 2
      OBVIOUS
    <3> QED
      BY <1>2, <3>1
  <2> QED
    BY <1>2, <1>3, <2>1 DEF CheckKem, CheckSelection, Kem2
<1>5. CheckKeyDerivation(name) = "compliant"
  BY DEF name, CheckKeyDerivation, Kem2
<1>6. name # NotGiven
  BY <1>2 DEF NotGiven, Name
<1> QED
  BY <1>1, <1>4, <1>5, <1>6 DEF name

LEMMA HybridSuiteRated ==
  ASSUME NEW algorithm \in Hybrids
  PROVE  LET name == NameOf(algorithm)
         IN  /\ CheckKem(name) \in {"partial", "non-compliant"}
             /\ CheckKeyDerivation(name) = "non-compliant" /\ name # NotGiven
<1>1. PICK classical, pqc : NameOf(algorithm) = Name(<<classical, pqc>>, FALSE)
  BY HybridShape DEF NameOf
<1> DEFINE name == Name(<<classical, pqc>>, FALSE)
<1>2. name.parts = <<classical, pqc>> /\ Len(name.parts) = 2
  BY DEF Name
<1>3. Len(<<Kem2>>) = 1 /\ Name(<<Kem2>>, FALSE).parts = <<Kem2>>
  BY DEF Name
<1> HIDE DEF name
<1>4. CheckKem(name) \in {"partial", "non-compliant"}
  <2>1. name.parts # <<Kem2>>
    BY <1>2, <1>3
  <2> DEFINE bad == Malformed(name) \/ LastPart(name) # Kem2
             half == name.parts \in {<<c, Kem2>> : c \in KnownClassical}
  <2>2. CheckKem(name) = CASE bad -> "non-compliant"
                           [] ~Malformed(name) /\ name.parts = <<Kem2>> -> "compliant"
                           [] ~Malformed(name) /\ half -> "partial"
                           [] OTHER -> "non-compliant"
    BY DEF CheckKem, CheckSelection
  <2> HIDE DEF bad, half
  <2> QED
    BY <2>1, <2>2
<1>5. CheckKeyDerivation(name) = "non-compliant"
  <2>1. name.parts # <<Kem2>>
    BY <1>2, <1>3
  <2>2. name # Name(<<Kem2>>, FALSE)
    BY <1>3, <2>1
  <2> QED
    BY <2>2 DEF CheckKeyDerivation
<1>6. name # NotGiven
  BY <1>2 DEF NotGiven, Name
<1> QED
  BY <1>1, <1>4, <1>5, <1>6 DEF name

(* The profile, its enforcement and the envelopes agree on every suite. *)
LEMMA SuiteRated ==
  ASSUME NEW algorithm \in Suites
  PROVE  LET selection == NameOf(algorithm)
             rated == Report(selection, NotGiven, {}, FALSE, TRUE, FALSE)
         IN  /\ Enforced(selection, NotGiven, TRUE) = Compliant(rated)
             /\ (CheckKeyDerivation(selection) = "compliant") = Compliant(rated)
             /\ Compliant(rated) = (algorithm = <<"ML-KEM-1024">>)
<1> DEFINE selection == NameOf(algorithm)
           rated == Report(selection, NotGiven, {}, FALSE, TRUE, FALSE)
<1>1. selection # NotGiven
  BY PureSuiteRated, HybridSuiteRated DEF Suites
<1> HIDE DEF selection
<1>2. rated = {CheckKem(selection), CheckKeyDerivation(selection)}
  <2>1. {selection} \ {NotGiven} = {selection} /\ {NotGiven} \ {NotGiven} = {}
    BY <1>1
  <2> QED
    BY <2>1 DEF Report
<1>3. Report(selection, NotGiven, {}, FALSE, FALSE, FALSE) = {CheckKem(selection)}
  <2>1. {selection} \ {NotGiven} = {selection} /\ {NotGiven} \ {NotGiven} = {}
    BY <1>1
  <2> QED
    BY <2>1 DEF Report
<1> HIDE DEF rated
<1>4. CASE algorithm = <<"ML-KEM-1024">>
  <2>1. CheckKem(selection) = "compliant" /\ CheckKeyDerivation(selection) = "compliant"
    BY <1>4, PureSuiteRated DEF selection
  <2> QED
    BY <1>2, <1>3, <1>4, <2>1 DEF Compliant, Enforced, rated, selection
<1>5. CASE algorithm \in Hybrids
  <2>1. CheckKem(selection) \in {"partial", "non-compliant"} /\ CheckKeyDerivation(selection) = "non-compliant"
    BY <1>5, HybridSuiteRated DEF selection
  <2>2. algorithm # <<"ML-KEM-1024">>
    BY <1>5, HybridShape
  <2> QED
    BY <1>2, <1>3, <2>1, <2>2 DEF Compliant, Enforced, rated, selection
<1> QED
  BY <1>4, <1>5 DEF Suites

(* What opens under a key derives its own key as the key's suite says. *)
LEMMA ReadHash ==
  ASSUME NEW content, NEW f, newKey.algorithm \in Suites, Reads(content, newKey, f)
  PROVE  (content.ciphertext.under.hash \in Hashes2) = (newKey.algorithm = <<"ML-KEM-1024">>)
<1>1. content.version = VersionFor(newKey.algorithm)
  BY DEF Reads, Opens, Openable
<1>2. content.ciphertext.under = EnvelopeKey(content.version, SharedWith(content, newKey))
  BY DEF Reads, Opens
<1>3. content.ciphertext.under.hash = IF Len(newKey.algorithm) > 1 THEN "SHA-256" ELSE "SHA-384"
  BY <1>1, <1>2 DEF VersionFor, EnvelopeKey, DeriveKey
<1>4. CASE newKey.algorithm \in Hybrids
  BY <1>3, <1>4, HybridShape DEF Hashes2
<1>5. CASE newKey.algorithm = <<"ML-KEM-1024">>
  BY <1>3, <1>5 DEF Hashes2
<1> QED
  BY <1>4, <1>5 DEF Suites

(* The profile lets a suite through exactly if the files moved to it follow
   the profile. *)
THEOREM ProfileIsMet == Spec => MigratedFilesMeetTheProfile
<1> DEFINE selection == NameOf(newKey.algorithm)
           rated == Report(selection, NotGiven, {}, FALSE, TRUE, FALSE)
           Step(f) ==
             /\ report[f] = "none"
             /\ report'[f] = "rewrapped" \/ (report'[f] = "already_migrated" /\ secret = "right")
             => /\ Enforced(selection, NotGiven, TRUE) = Compliant(rated)
                /\ Compliant(rated) = (Target(f)'.ciphertext.under.hash \in Hashes2)
                /\ (CheckKeyDerivation(selection) = "compliant") = Compliant(rated)
<1>1. ASSUME IInv, [Next]_vars, NEW f \in Files, report[f] = "none",
             report'[f] = "rewrapped" \/ (report'[f] = "already_migrated" /\ secret = "right")
      PROVE  Reads(Target(f)', newKey, f)
  <2>1. CASE report'[f] = "rewrapped"
    <3>1. Replace /\ f = cur
      BY <1>1, <2>1, NewReport
    <3>2. Target(f)' = Rewrap(raw, newKey)
      BY <1>1, <3>1, Replaced DEF Replace, Target
    <3> QED
      BY <1>1, <3>1, <3>2, Replaced
  <2>2. CASE report'[f] = "already_migrated" /\ secret = "right"
    <3>1. Recognise
      BY <1>1, <2>2, NewReport
    <3>2. Reads(Target(f), newKey, f) /\ UNCHANGED <<fixed, source, copies>>
      BY <1>1, <2>2, <3>1, Recognised
    <3>3. Target(f)' = Target(f)
      BY <3>2 DEF Target, fixed
    <3> QED
      BY <3>2, <3>3
  <2> QED
    BY <1>1, <2>1, <2>2
<1>2. IInv => newKey.algorithm \in Suites
  BY RewrapAssumption DEF IInv, Typed, NewKeys
<1>3. ASSUME IInv, [Next]_vars, NEW f \in Files PROVE Step(f)
  <2> SUFFICES ASSUME report[f] = "none",
                      report'[f] = "rewrapped" \/ (report'[f] = "already_migrated" /\ secret = "right")
               PROVE  /\ Enforced(selection, NotGiven, TRUE) = Compliant(rated)
                      /\ Compliant(rated) = (Target(f)'.ciphertext.under.hash \in Hashes2)
                      /\ (CheckKeyDerivation(selection) = "compliant") = Compliant(rated)
    OBVIOUS
  <2> DEFINE content == Target(f)'
  <2>1. Reads(content, newKey, f)
    BY <1>1, <1>3
  <2> HIDE DEF content
  <2>2. (content.ciphertext.under.hash \in Hashes2) = (newKey.algorithm = <<"ML-KEM-1024">>)
    BY <1>2, <1>3, <2>1, ReadHash
  <2>3. /\ Enforced(selection, NotGiven, TRUE) = Compliant(rated)
        /\ (CheckKeyDerivation(selection) = "compliant") = Compliant(rated)
        /\ Compliant(rated) = (newKey.algorithm = <<"ML-KEM-1024">>)
    BY <1>2, <1>3, SuiteRated
  <2> QED
    BY <2>2, <2>3 DEF content
<1>4. IInv /\ [Next]_vars => [\A f \in Files : Step(f)]_vars
  BY <1>3
<1> QED
  BY <1>4, InvHolds, PTL DEF Spec, MigratedFilesMeetTheProfile
==============================================================================
