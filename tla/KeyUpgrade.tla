------------------------------ MODULE KeyUpgrade ------------------------------
(***************************************************************************)
(* upgrade_key_file (migrate/keyfile.py): a run writes a hybrid secret key  *)
(* and its public key over two output files, through temporary files, with  *)
(* backups under --force and a rollback.  Any call may raise OSError, and a *)
(* run may be interrupted from the keyboard or killed anywhere.             *)
(***************************************************************************)
EXTENDS Naturals, FiniteSets

CONSTANTS
  Runs,       \* the calls; a run stands for the key pair it makes, too
  Old,        \* the key pair that was there before
  None,
  Overlap     \* may two runs work on the same outputs at once?

ASSUME KeyUpgradeAssumption ==
  /\ Old \notin Runs /\ None \notin Runs /\ None # Old
  /\ Overlap \in BOOLEAN

VARIABLES
  files,      \* what the two outputs hold: the pair it is from
  temps,      \* the temporary files of each run on the disk
  baks,       \* its backups on the disk
  pc,
  force,
  existed,    \* the outputs it saw before it wrote
  before      \* history: the outputs when it was called

vars == <<files, temps, baks, pc, force, existed, before>>

Paths == {"secret", "public"}
Pairs == Runs \cup {Old}
NoFiles == [p \in Paths |-> None]

Trying == {"check", "look", "write", "back", "half"}
Ending == {"placed", "rollback", "failing", "interrupting"}
Ended == {"done", "error", "escaped", "interrupted", "killed"}
------------------------------------------------------------------------------
Init ==
  /\ files \in [Paths -> {Old, None}]
  /\ temps = [r \in Runs |-> {}]
  /\ baks = [r \in Runs |-> NoFiles]
  /\ pc = [r \in Runs |-> "idle"]
  /\ force = [r \in Runs |-> FALSE]
  /\ existed = [r \in Runs |-> {}]
  /\ before = [r \in Runs |-> NoFiles]

Goto(r, step) == pc' = [pc EXCEPT ![r] = step]

Call(r) ==
  /\ pc[r] = "idle"
  /\ Overlap \/ \A s \in Runs : pc[s] \in Ended \cup {"idle"}
  /\ Goto(r, "check")
  /\ \E f \in BOOLEAN : force' = [force EXCEPT ![r] = f]
  /\ before' = [before EXCEPT ![r] = files]
  /\ UNCHANGED <<files, temps, baks, existed>>

(* Fault variant of MayWrite: only the secret key's path is looked at. *)
MayWriteSecret(r) == force[r] \/ files["secret"] = None

MayWrite(r) == force[r] \/ files = NoFiles

(* The outputs are free, the input upgrades and the result checks out ... *)
Prepare(r) ==
  /\ pc[r] = "check"
  /\ MayWrite(r)
  /\ Goto(r, "look")
  /\ UNCHANGED <<files, temps, baks, force, existed, before>>

(* ... or nothing has been touched yet. *)
Refuse(r) ==
  /\ pc[r] = "check"
  /\ Goto(r, "error")
  /\ UNCHANGED <<files, temps, baks, force, existed, before>>

Look(r) ==
  /\ pc[r] = "look"
  /\ existed' = [existed EXCEPT ![r] = {p \in Paths : files[p] # None}]
  /\ Goto(r, "write")
  /\ UNCHANGED <<files, temps, baks, force, before>>

(* First the secret key's, then the public key's. *)
WriteTemp(r) ==
  /\ pc[r] = "write"
  /\ temps' = [temps EXCEPT ![r] = IF @ = {} THEN {"secret"} ELSE Paths]
  /\ Goto(r, IF temps[r] = {} THEN "write" ELSE "back")
  /\ UNCHANGED <<files, baks, force, existed, before>>

Unsaved(r) == {p \in existed[r] : baks[r][p] = None}

(* A file that was there and has gone cannot be copied. *)
Backup(r) ==
  /\ pc[r] = "back"
  /\ \E p \in Unsaved(r) :
       /\ p = "public" => "secret" \notin Unsaved(r)
       /\ files[p] # None
       /\ baks' = [baks EXCEPT ![r][p] = files[p]]
  /\ UNCHANGED <<files, temps, pc, force, existed, before>>

(* Fault variant of Saved: only the public key is backed up first. *)
PublicSaved(r) == "public" \notin Unsaved(r)

Saved(r) == Unsaved(r) = {}

Place(r, path) ==
  /\ files' = [files EXCEPT ![path] = r]
  /\ temps' = [temps EXCEPT ![r] = @ \ {path}]
  /\ UNCHANGED <<baks, force, existed, before>>

PlaceSecret(r) ==
  /\ pc[r] = "back"
  /\ Saved(r)
  /\ Place(r, "secret")
  /\ Goto(r, "half")

PlacePublic(r) ==
  /\ pc[r] = "half"
  /\ Place(r, "public")
  /\ Goto(r, "placed")
------------------------------------------------------------------------------
(* A write, a copy or a rename raises OSError and has had no effect. *)
OSError(r) ==
  /\ pc[r] \in {"write", "back", "half"}
  /\ Goto(r, IF pc[r] = "half" THEN "rollback" ELSE "failing")
  /\ UNCHANGED <<files, temps, baks, force, existed, before>>

(* Fault variant of RollBack: a file that was replaced stays. *)
RollBackNew(r) ==
  /\ pc[r] = "rollback"
  /\ files' = [files EXCEPT !["secret"] = IF "secret" \in existed[r] THEN @ ELSE None]
  /\ Goto(r, "failing")
  /\ UNCHANGED <<temps, baks, force, existed, before>>

(* The secret key is what was placed: it is replaced by its backup or removed. *)
RollBack(r) ==
  /\ pc[r] = "rollback"
  /\ IF baks[r]["secret"] # None
     THEN /\ files' = [files EXCEPT !["secret"] = baks[r]["secret"]]
          /\ baks' = [baks EXCEPT ![r]["secret"] = None]
     ELSE /\ files' = [files EXCEPT !["secret"] = IF "secret" \in existed[r] THEN @ ELSE None]
          /\ UNCHANGED baks
  /\ Goto(r, "failing")
  /\ UNCHANGED <<temps, force, existed, before>>

(* The rollback itself raises OSError.  The backup it took out of "backups" is
   not removed by the finally clause, which ends this call too. *)
RollBackFails(r) ==
  /\ pc[r] = "rollback"
  /\ Goto(r, "escaped")
  /\ temps' = [temps EXCEPT ![r] = {}]
  /\ baks' = [baks EXCEPT ![r]["public"] = None]
  /\ UNCHANGED <<files, force, existed, before>>

(* KeyboardInterrupt is no OSError: no rollback, only the finally clause. *)
Interrupt(r) ==
  /\ pc[r] \in Trying \cup {"placed", "rollback", "failing"}
  /\ Goto(r, "interrupting")
  /\ UNCHANGED <<files, temps, baks, force, existed, before>>

(* Fault variant of CleanUp: the temporary files only. *)
CleanUpTemps(r) ==
  /\ pc[r] \in {"placed", "failing", "interrupting"}
  /\ temps' = [temps EXCEPT ![r] = {}]
  /\ Goto(r, CASE pc[r] = "placed" -> "done"
               [] pc[r] = "failing" -> "error"
               [] OTHER -> "interrupted")
  /\ UNCHANGED <<files, baks, force, existed, before>>

(* The finally clause, and the end of the call. *)
CleanUp(r) ==
  /\ pc[r] \in {"placed", "failing", "interrupting"}
  /\ temps' = [temps EXCEPT ![r] = {}]
  /\ baks' = [baks EXCEPT ![r] = NoFiles]
  /\ Goto(r, CASE pc[r] = "placed" -> "done"
               [] pc[r] = "failing" -> "error"
               [] OTHER -> "interrupted")
  /\ UNCHANGED <<files, force, existed, before>>

Kill(r) ==
  /\ pc[r] \in Trying \cup Ending
  /\ Goto(r, "killed")
  /\ UNCHANGED <<files, temps, baks, force, existed, before>>

Step(r) ==
  \/ Call(r) \/ Prepare(r) \/ Refuse(r) \/ Look(r) \/ WriteTemp(r) \/ Backup(r)
  \/ PlaceSecret(r) \/ PlacePublic(r) \/ OSError(r) \/ RollBack(r) \/ RollBackFails(r)
  \/ CleanUp(r)

Next == \E r \in Runs : Step(r) \/ Interrupt(r) \/ Kill(r)

Spec == Init /\ [][Next]_vars
------------------------------------------------------------------------------
(* A backup never holds what its own run wrote. *)
TypeOK ==
  /\ files \in [Paths -> Pairs \cup {None}]
  /\ temps \in [Runs -> SUBSET Paths]
  /\ baks \in [Runs -> [Paths -> Pairs \cup {None}]]
  /\ \A r \in Runs, p \in Paths : baks[r][p] # r
  /\ pc \in [Runs -> {"idle"} \cup Trying \cup Ending \cup Ended]
  /\ force \in [Runs -> BOOLEAN]
  /\ existed \in [Runs -> SUBSET Paths]
  /\ before \in [Runs -> [Paths -> Pairs \cup {None}]]

(* A call that raises KeyUpgradeError leaves both outputs as they were, and one
   that returns leaves a pair of its own. *)
SaysWhatItDid ==
  \A r \in Runs :
    /\ pc[r] # "error" /\ pc'[r] = "error" => files' = before[r]
    /\ pc[r] # "done" /\ pc'[r] = "done" => files' = [p \in Paths |-> r]
OutcomeIsTrue == [][SaysWhatItDid]_vars

(* Without --force nothing that was there is ever touched. *)
LeavesForeignFiles ==
  \A r \in Runs, p \in Paths :
    Step(r) /\ ~force[r] /\ files[p] \notin {None, r} => files'[p] = files[p]
OnlyForceReplaces == [][LeavesForeignFiles]_vars

(* The secret keys that a run found at its output and some file still holds. *)
SavedSecrets ==
  {k \in Pairs : \/ files["secret"] = k
                 \/ \E r \in Runs : baks[r]["secret"] = k}
Found == {before[r]["secret"] : r \in Runs} \ {None}
Matched == files["secret"] = files["public"] /\ files["secret"] # None

(* The last copy of a secret key that was there goes only when a new pair is
   complete, whatever fails and whenever the process is killed.  An interrupt
   is excepted: see SecretSurvivesInterrupt. *)
KeepsLastCopy ==
  (\A r \in Runs : pc'[r] = "interrupted" => pc[r] = "interrupted")
    => \A k \in Found \cap SavedSecrets : k \in SavedSecrets' \/ Matched'
SecretKept == [][KeepsLastCopy]_vars

(* The same, of every failure: "on any failure the outputs are as they were
   before the call". *)
SecretSurvivesInterrupt ==
  [][\A k \in Found \cap SavedSecrets : k \in SavedSecrets' \/ Matched']_vars

(* A call that ends leaves no temporary file, and no backup unless that is the
   only copy of what was replaced. *)
NothingLeftOver ==
  \A r \in Runs : pc[r] \in Ended \ {"killed"} =>
    /\ temps[r] = {}
    /\ baks[r] # NoFiles => pc[r] = "escaped" /\ baks[r]["public"] = None
==============================================================================
