---------------------------- MODULE RewrapDirectory ----------------------------
(***************************************************************************)
(* rewrap_directory (migrate/rewrap.py): run after run, in place or to a    *)
(* separate destination, moves a directory of envelopes from an old key to  *)
(* a new one, while the application that owns the files may replace them    *)
(* and the process may die.  The plaintext of a file is the file and a      *)
(* version number; its associated data is its name.                         *)
(***************************************************************************)
EXTENDS Envelopes, Cnsa2, FiniteSets

CONSTANTS
  Files,
  OldSuite,      \* the algorithm of the key the files are sealed to
  NewSuites,     \* the algorithms of the keys they may be moved to
  Junk,          \* a file that is no envelope
  Absent,        \* no file
  MaxUpdates,    \* bound: how often the application replaces a file
  MaxRuns        \* bound: calls of rewrap_directory

ASSUME RewrapAssumption ==
  /\ MaxUpdates \in Nat
  /\ MaxRuns \in Nat
  /\ OldSuite \in Suites /\ NewSuites \subseteq Suites
  /\ "none" \notin Files /\ "elsewhere" \notin Files
  /\ Junk # Absent

VARIABLES
  inPlace,
  newKey,
  source,        \* the files of the source directory
  copies,        \* the files of the destination directory
  pc,
  todo,          \* the files listed and not processed yet
  cur,           \* the file being processed
  raw,           \* what was read of it
  secret,        \* the new secret key given: the right one, another or none
  dryRun,
  report,
  latest,        \* history: the version the application put last
  updates,
  runs

fixed == <<inPlace, newKey>>
call == <<secret, dryRun>>
app == <<latest, updates>>
vars == <<fixed, source, copies, pc, todo, cur, raw, call, report, app, runs>>

(* The name of a KEM, taken apart as the profile does. *)
NameOf(algorithm) == Name(algorithm, FALSE)

OldKey == [id |-> "old", algorithm |-> OldSuite]
NewKeys == [id : {"new"}, algorithm : NewSuites]

Envelope(f, n, key) == Seal(<<f, n>>, key, f)
Altered(sealed) == [sealed EXCEPT !.aad = "elsewhere"]

(* What is no envelope parses as none, and a file that is there is there. *)
ASSUME ContentAssumption ==
  \A f \in Files, n \in 0..MaxUpdates, k \in NewKeys \cup {OldKey} :
    {Envelope(f, n, k), Altered(Envelope(f, n, k))} \cap {Junk, Absent} = {}

Target(f) == IF inPlace THEN source[f] ELSE copies[f]
IsEnvelope(content) == content \notin {Junk, Absent}
Reads(content, key, f) == IsEnvelope(content) /\ Opens(content, key, f)
------------------------------------------------------------------------------
Init ==
  /\ inPlace \in BOOLEAN
  /\ newKey \in NewKeys
  /\ \E kind \in [Files -> {"junk", "old", "altered", "new"}] :
       source = [f \in Files |->
                   CASE kind[f] = "junk"    -> Junk
                     [] kind[f] = "old"     -> Envelope(f, 0, OldKey)
                     [] kind[f] = "altered" -> Altered(Envelope(f, 0, OldKey))
                     [] OTHER               -> Envelope(f, 0, newKey)]
  /\ \E kind \in [Files -> {"absent", "junk", "old"}] :
       copies = [f \in Files |->
                   CASE kind[f] = "absent" -> Absent
                     [] kind[f] = "junk"   -> Junk
                     [] OTHER              -> Envelope(f, 0, OldKey)]
  /\ pc = "idle"
  /\ todo = {}
  /\ cur \in Files
  /\ raw = Junk
  /\ secret = "none"
  /\ dryRun = FALSE
  /\ report = [f \in Files |-> "none"]
  /\ latest = [f \in Files |-> 0]
  /\ updates = 0
  /\ runs = 0

Start ==
  /\ pc = "idle"
  /\ runs < MaxRuns
  /\ runs' = runs + 1
  /\ secret' \in {"none", "right", "wrong"}
  /\ dryRun' \in BOOLEAN
  /\ todo' = Files
  /\ report' = [f \in Files |-> "none"]
  /\ pc' = "next"
  /\ UNCHANGED <<fixed, source, copies, cur, raw, app>>

ReadFile ==
  /\ pc = "next"
  /\ \E f \in todo : cur' = f /\ raw' = source[f] /\ todo' = todo \ {f}
  /\ pc' = "decide"
  /\ UNCHANGED <<fixed, source, copies, call, report, app, runs>>

Finish ==
  /\ pc = "next"
  /\ todo = {}
  /\ pc' = "idle"
  /\ UNCHANGED <<fixed, source, copies, todo, cur, raw, call, report, app, runs>>

Item(status) ==
  /\ report' = [report EXCEPT ![cur] = status]
  /\ pc' = "next"
  /\ UNCHANGED <<fixed, source, copies, todo, cur, raw, call, app, runs>>

(* The given secret key opens the content with the file's associated data. *)
OpensNew(content) == secret = "right" /\ Reads(content, newKey, cur)

(* Fault variant of IsMigratedCopy: the algorithm is enough. *)
HasNewAlgorithm(content) ==
  /\ IsEnvelope(content)
  /\ content.algorithm = newKey.algorithm

(* Without a secret key only the algorithm can be compared. *)
IsMigratedCopy(content) ==
  /\ IsEnvelope(content)
  /\ content.algorithm = newKey.algorithm
  /\ secret # "none" => OpensNew(content)

Skip == pc = "decide" /\ ~IsEnvelope(raw) /\ Item("skipped")

(* Fault variant of IsDone: whatever is at the destination is replaced. *)
IsDoneInPlace == inPlace /\ OpensNew(raw)

IsDone == IF inPlace THEN OpensNew(raw) ELSE copies[cur] # Absent

Recognise ==
  /\ pc = "decide" /\ IsEnvelope(raw)
  /\ IsDone
  /\ Item(IF inPlace \/ IsMigratedCopy(copies[cur]) THEN "already_migrated" ELSE "failed")

(* The message does not open under the old key, or its copy not under the new
   secret key given. *)
CannotRewrap == ~Reads(raw, OldKey, cur) \/ secret = "wrong"

Refuse ==
  /\ pc = "decide" /\ IsEnvelope(raw) /\ ~IsDone
  /\ CannotRewrap
  /\ Item("failed")

DryRun ==
  /\ pc = "decide" /\ IsEnvelope(raw) /\ ~IsDone
  /\ ~CannotRewrap
  /\ dryRun
  /\ Item("would_rewrap")

MayWrite == ~CannotRewrap /\ ~dryRun

Write ==
  /\ pc = "decide" /\ IsEnvelope(raw) /\ ~IsDone
  /\ MayWrite
  /\ pc' = "write"
  /\ UNCHANGED <<fixed, source, copies, todo, cur, raw, call, report, app, runs>>

(* The temporary file is renamed over the target ... *)
Replace ==
  LET moved == Rewrap(raw, newKey)
  IN
  /\ pc = "write"
  /\ IF inPlace
     THEN source' = [source EXCEPT ![cur] = moved] /\ UNCHANGED copies
     ELSE copies' = [copies EXCEPT ![cur] = moved] /\ UNCHANGED source
  /\ report' = [report EXCEPT ![cur] = "rewrapped"]
  /\ pc' = "next"
  /\ UNCHANGED <<fixed, todo, cur, raw, call, app, runs>>

(* ... or writing it fails. *)
WriteFails == pc = "write" /\ Item("failed")

(* The report is lost, and so is the temporary file, which no run ever reads. *)
Crash ==
  /\ pc # "idle"
  /\ pc' = "idle"
  /\ report' = [f \in Files |-> "none"]
  /\ UNCHANGED <<fixed, source, copies, todo, cur, raw, call, app, runs>>

(* The application seals a new version of a file, to either key.  In place it
   does not touch the very file that is being processed. *)
Update(f) ==
  /\ updates < MaxUpdates
  /\ inPlace => pc \in {"idle", "next"} \/ cur # f
  /\ latest' = [latest EXCEPT ![f] = @ + 1]
  /\ updates' = updates + 1
  /\ \E k \in {OldKey, newKey} : source' = [source EXCEPT ![f] = Envelope(f, latest[f] + 1, k)]
  /\ UNCHANGED <<fixed, copies, pc, todo, cur, raw, call, report, runs>>

Run ==
  \/ Start \/ ReadFile \/ Finish \/ Skip \/ Recognise \/ Refuse \/ DryRun
  \/ Write \/ Replace \/ WriteFails

Next == Run \/ Crash \/ \E f \in Files : Update(f)

Spec == Init /\ [][Next]_vars
------------------------------------------------------------------------------
(* What the application sealed last opens under the old or the new key with
   the file's own associated data, through runs, crashes and second runs,
   unless the file was no readable envelope to begin with. *)
NothingLost ==
  \A f \in Files :
    \/ latest[f] = 0 /\ source[f] \in {Junk, Altered(Envelope(f, 0, OldKey))}
    \/ \E k \in {OldKey, newKey} :
         Reads(source[f], k, f) /\ PlainOf(source[f]) = <<f, latest[f]>>

(* A report of success is true: what is called rewrapped opens under the new
   key, to the plaintext that was read, and so does, if the new secret key was
   given, what is called already migrated. *)
ReportIsTrue ==
  [][\A f \in Files :
       /\ report[f] # "rewrapped" /\ report'[f] = "rewrapped"
            => Reads(Target(f)', newKey, f) /\ PlainOf(Target(f)') = PlainOf(raw)
       /\ report[f] # "already_migrated" /\ report'[f] = "already_migrated" /\ secret = "right"
            => Reads(Target(f)', newKey, f)]_vars

(* compliance/cnsa2.py over protocols/envelope.py: enforce(kem, strict=True)
   lets the new key's algorithm through exactly when the report on it is
   compliant, and then every file a run calls rewrapped, or already migrated
   when it could tell, derives its key with a hash of the suite; otherwise
   none does. *)
MigratedFilesMeetTheProfile ==
  [][\A f \in Files :
       /\ report[f] = "none"
       /\ report'[f] = "rewrapped" \/ (report'[f] = "already_migrated" /\ secret = "right")
       => LET selection == NameOf(newKey.algorithm)
              rated == Report(selection, NotGiven, {}, FALSE, TRUE, FALSE)
          IN  /\ Enforced(selection, NotGiven, TRUE) = Compliant(rated)
              /\ Compliant(rated) = (Target(f)'.ciphertext.under.hash \in Hashes2)
              /\ (CheckKeyDerivation(selection) = "compliant") = Compliant(rated)]_vars

(* A run only ever replaces, in place, a message that opens under the old key,
   and only ever adds to the destination, so a second run rewrites nothing; a
   dry run writes nothing at all. *)
NeverOverwrites ==
  [][Run => \A f \in Files :
       /\ source'[f] # source[f] => inPlace /\ ~dryRun /\ Reads(source[f], OldKey, f)
       /\ copies'[f] # copies[f] => ~inPlace /\ ~dryRun /\ copies[f] = Absent]_vars
==============================================================================
