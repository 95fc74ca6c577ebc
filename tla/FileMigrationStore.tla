-------------------------- MODULE FileMigrationStore --------------------------
(***************************************************************************)
(* One entry of FileMigrationStore (migrate/file_store.py) and its lock:   *)
(* processes on one host lock the entry with mkdir, stamp the directory    *)
(* with an owner token, compare and write the value, and release; a lock   *)
(* left by a dead process is renamed away by whoever waits for it.  Every  *)
(* file system call is a step of its own.  POSIX semantics: a directory    *)
(* renames over an absent or an empty one.                                 *)
(***************************************************************************)
EXTENDS Naturals, FiniteSets

CONSTANTS
  Processes,
  Kinds,          \* \subseteq {"cas", "set", "delete"}: operations they call
  InitialLocks,   \* what may be at the lock path at the start
  MaxCalls,       \* bound: calls per process
  MaxCrashes,     \* bound: deaths of a process inside a call
  Window,         \* the microseconds between the last ownership check and the
                  \* rename, which the documentation concedes, are visible
  Absent, NoLock, NoRequest

(* A token stands for the random owner token of a call, and for the bytes the
   call writes.  0 numbers a process of an earlier life. *)
Token == Processes \X (0..MaxCalls)
NoOwner == <<>>
Lock == [owner: Token \cup {NoOwner}, fresh: BOOLEAN]
Request == [kind: Kinds, expected: Token \cup {Absent}, new: Token \cup {Absent}]

ASSUME StoreAssumption ==
  /\ Kinds \subseteq {"cas", "set", "delete"}
  /\ InitialLocks \subseteq Lock \cup {NoLock}
  /\ Window \in BOOLEAN
  /\ MaxCalls \in Nat /\ MaxCrashes \in Nat
  /\ Absent \notin Token /\ NoLock \notin Lock /\ NoRequest \notin Request

VARIABLES
  value,      \* the <key>.bin file: the token written last, or Absent
  lock,       \* the <key>.bin.lock directory
  grave,      \* [Processes -> Lock or NoLock]: a live lock moved away by mistake
  pc,
  request,    \* [Processes -> the undecided call]
  result,     \* how the last call was decided
  calls,
  crashes,
  displaced   \* history: has a live lock been moved away "never", "now" or in the "past"

state == <<value, lock, grave, pc, request, result, calls, crashes>>
vars == <<value, lock, grave, pc, request, result, calls, crashes, displaced>>

Waiting == {"idle", "acquire", "again"}
Holding == {"read", "owns", "replace"}
Steps == Waiting \cup Holding \cup
         {"stamp", "undo", "undoDir", "rename", "putBack", "release", "remove", "removeDir"}

(* The part of a call that needs the lock. *)
Locked == Holding \cup {"stamp", "release", "remove", "removeDir"}
------------------------------------------------------------------------------
Init ==
  /\ value = Absent
  /\ lock \in InitialLocks
  /\ grave = [p \in Processes |-> NoLock]
  /\ pc = [p \in Processes |-> "idle"]
  /\ request = [p \in Processes |-> NoRequest]
  /\ result = [p \in Processes |-> "none"]
  /\ calls = [p \in Processes |-> 0]
  /\ crashes = 0
  /\ displaced = "never"

MyToken(p) == <<p, calls[p]>>
Goto(p, step) == pc' = [pc EXCEPT ![p] = step]

(* The call's outcome is settled; the lock may still have to be released. *)
Decide(p, r) ==
  /\ request' = [request EXCEPT ![p] = NoRequest]
  /\ result' = [result EXCEPT ![p] = r]

(* compare_and_set(key, expected, value), store[key] = value, del store[key].
   The expected bytes are those the caller read just before. *)
Begin(p) ==
  /\ pc[p] = "idle"
  /\ calls[p] < MaxCalls
  /\ calls' = [calls EXCEPT ![p] = @ + 1]
  /\ \E k \in Kinds :
       request' = [request EXCEPT ![p] =
         [kind |-> k, expected |-> value,
          new |-> IF k = "delete" THEN Absent ELSE <<p, calls[p] + 1>>]]
  /\ result' = [result EXCEPT ![p] = "none"]
  /\ Goto(p, "acquire")
  /\ UNCHANGED <<value, lock, grave, crashes>>
------------------------------------------------------------------------------
(* _locked: lock.mkdir() ... *)
MakeLock(p) ==
  /\ pc[p] \in {"acquire", "again"}
  /\ lock = NoLock
  /\ lock' = [owner |-> NoOwner, fresh |-> TRUE]
  /\ Goto(p, "stamp")
  /\ UNCHANGED <<value, grave, request, result, calls, crashes>>

(* ... and, when it exists, _break_if_stale's first look at its age. *)
CheckAge(p) ==
  /\ pc[p] \in {"acquire", "again"}
  /\ lock # NoLock
  /\ Goto(p, IF lock.fresh THEN "again" ELSE "rename")
  /\ UNCHANGED <<value, lock, grave, request, result, calls, crashes>>

(* Fault variant of TimeOut: no deadline. *)
NoDeadline(p) == FALSE

(* The deadline is looked at only after an attempt has failed. *)
TimeOut(p) ==
  /\ pc[p] = "again"
  /\ Decide(p, "timeout")
  /\ Goto(p, "idle")
  /\ UNCHANGED <<value, lock, grave, calls, crashes>>

(* owner_file.write_text(token) goes to whatever directory is at the path;
   creating the file touches the directory. *)
Stamp(p) ==
  /\ pc[p] = "stamp"
  /\ \/ /\ lock # NoLock
        /\ lock' = [owner |-> MyToken(p), fresh |-> lock.fresh \/ lock.owner = NoOwner]
        /\ Goto(p, IF request[p].kind = "cas" THEN "read" ELSE "owns")
     \/ /\ lock = NoLock
        /\ Goto(p, "undo")
        /\ UNCHANGED lock
  /\ UNCHANGED <<value, grave, request, result, calls, crashes>>

(* rmtree(lock): the directory that is at the path is emptied, then removed
   if there still is an empty one. *)
EmptyDir == IF lock = NoLock THEN NoLock ELSE [owner |-> NoOwner, fresh |-> TRUE]
RemovedDir == IF lock # NoLock /\ lock.owner = NoOwner THEN NoLock ELSE lock

Undo(p) ==
  /\ \/ pc[p] = "undo" /\ lock' = EmptyDir /\ Goto(p, "undoDir")
     \/ pc[p] = "undoDir" /\ lock' = RemovedDir /\ Goto(p, "again")
  /\ UNCHANGED <<value, grave, request, result, calls, crashes>>
------------------------------------------------------------------------------
(* Fault variant of RenameAway: whatever was moved away is deleted. *)
TrustFirstLook(p) ==
  /\ pc[p] = "rename"
  /\ lock' = NoLock
  /\ Goto(p, "again")
  /\ UNCHANGED <<value, grave, request, result, calls, crashes>>

(* _break_if_stale after the first look: rename the lock away and look again.
   A stale one is deleted, a live one is to be put back. *)
RenameAway(p) ==
  /\ pc[p] = "rename"
  /\ lock' = NoLock
  /\ LET live == lock # NoLock /\ lock.fresh
     IN  /\ Goto(p, IF live THEN "putBack" ELSE "again")
         /\ grave' = [grave EXCEPT ![p] = IF live THEN lock ELSE NoLock]
  /\ UNCHANGED <<value, request, result, calls, crashes>>

PutBack(p) ==
  /\ pc[p] = "putBack"
  /\ lock' = IF lock = NoLock \/ lock.owner = NoOwner THEN grave[p] ELSE lock
  /\ grave' = [grave EXCEPT ![p] = NoLock]
  /\ Goto(p, "again")
  /\ UNCHANGED <<value, request, result, calls, crashes>>
------------------------------------------------------------------------------
Owned(p) == lock # NoLock /\ lock.owner = MyToken(p)

(* compare_and_set, holding the lock: the comparison. *)
Compare(p) ==
  /\ pc[p] = "read"
  /\ \/ value # request[p].expected /\ Decide(p, "refused") /\ Goto(p, "release")
     \/ value = request[p].expected /\ Goto(p, "owns") /\ UNCHANGED <<request, result>>
  /\ UNCHANGED <<value, lock, grave, calls, crashes>>

(* owns(), immediately before the rename (or the unlink). *)
CheckOwner(p) ==
  /\ pc[p] = "owns"
  /\ \/ Owned(p) /\ Window /\ Goto(p, "replace") /\ UNCHANGED <<request, result>>
     \/ ~Owned(p) /\ Decide(p, "lost") /\ Goto(p, "release")
  /\ UNCHANGED <<value, lock, grave, calls, crashes>>

(* os.replace(tmp, target), or target.unlink(), which may find nothing. *)
Replace(p) ==
  /\ \/ pc[p] = "replace"
     \/ pc[p] = "owns" /\ Owned(p) /\ ~Window
  /\ value' = request[p].new
  /\ Decide(p, IF request[p].kind = "delete" /\ value = Absent THEN "refused" ELSE "ok")
  /\ Goto(p, "release")
  /\ UNCHANGED <<lock, grave, calls, crashes>>

(* Fault variant of Release: only a call that wrote removes its lock. *)
ReleaseAfterWrite(p) ==
  /\ \/ pc[p] = "release" /\ Goto(p, IF result[p] = "ok" THEN "remove" ELSE "idle") /\ UNCHANGED lock
     \/ pc[p] = "remove" /\ lock' = EmptyDir /\ Goto(p, "removeDir")
     \/ pc[p] = "removeDir" /\ lock' = RemovedDir /\ Goto(p, "idle")
  /\ UNCHANGED <<value, grave, request, result, calls, crashes>>

(* Leaving the with block: remove the lock if the token is still ours. *)
Release(p) ==
  /\ \/ pc[p] = "release" /\ Goto(p, IF Owned(p) THEN "remove" ELSE "idle") /\ UNCHANGED lock
     \/ pc[p] = "remove" /\ lock' = EmptyDir /\ Goto(p, "removeDir")
     \/ pc[p] = "removeDir" /\ lock' = RemovedDir /\ Goto(p, "idle")
  /\ UNCHANGED <<value, grave, request, result, calls, crashes>>
------------------------------------------------------------------------------
(* A process dies inside a call and is started again. *)
Crash(p) ==
  /\ crashes < MaxCrashes
  /\ pc[p] # "idle"
  /\ crashes' = crashes + 1
  /\ \/ request[p] # NoRequest /\ Decide(p, "crashed")
     \/ request[p] = NoRequest /\ UNCHANGED <<request, result>>
  /\ Goto(p, "idle")
  /\ grave' = [grave EXCEPT ![p] = NoLock]
  /\ UNCHANGED <<value, lock, calls>>

(* Nobody refreshed the lock for stale_lock_seconds.  A holder's heartbeat
   does, and every other process is between two of its file system calls for
   far less than that: nobody is frozen. *)
Age ==
  /\ lock # NoLock
  /\ lock.fresh
  /\ \A p \in Processes : pc[p] \in Waiting
  /\ lock' = [lock EXCEPT !.fresh = FALSE]
  /\ UNCHANGED <<value, grave, pc, request, result, calls, crashes>>

Quiet == \A p \in Processes : pc[p] = "idle"
Rest == Quiet /\ UNCHANGED state

(* A live lock is displaced from the moment a waiter has moved it away until
   nobody is left in the part of a call that needs the lock. *)
PuttingBack == \E p \in Processes : pc[p] = "putBack"
Contested == \E p \in Processes : pc[p] \in Locked \cup {"undo", "undoDir", "putBack"}

Track ==
  displaced' = IF PuttingBack' THEN "now"
               ELSE IF displaced = "now" /\ ~Contested' THEN "past"
               ELSE displaced

Step(p) ==
  \/ MakeLock(p) \/ CheckAge(p) \/ TimeOut(p) \/ Stamp(p) \/ Undo(p)
  \/ RenameAway(p) \/ PutBack(p)
  \/ Compare(p) \/ CheckOwner(p) \/ Replace(p) \/ Release(p)

Next ==
  /\ \/ \E p \in Processes : Begin(p) \/ Step(p) \/ Crash(p)
     \/ Age
     \/ Rest
  /\ Track

Spec == Init /\ [][Next]_vars

(* Processes run; once the deadline has passed the next failed attempt
   raises.  Nothing has to crash or to age. *)
FairSpec == Spec /\ \A p \in Processes : WF_state(Step(p)) /\ SF_state(TimeOut(p))
------------------------------------------------------------------------------
TypeOK ==
  /\ value \in Token \cup {Absent}
  /\ lock \in Lock \cup {NoLock}
  /\ grave \in [Processes -> Lock \cup {NoLock}]
  /\ pc \in [Processes -> Steps]
  /\ request \in [Processes -> Request \cup {NoRequest}]
  /\ result \in [Processes -> {"none", "ok", "refused", "timeout", "lost", "crashed"}]
  /\ calls \in [Processes -> 0..MaxCalls]
  /\ crashes \in 0..MaxCrashes
  /\ displaced \in {"never", "now", "past"}

Register == INSTANCE CasRegister WITH Callers <- Processes, Values <- Token

(* The one step that is not a step of the register: a compare_and_set that
   replaces another value than the one it compared. *)
Overwrites(p) ==
  /\ request[p] # NoRequest /\ request[p].kind = "cas"
  /\ value # request[p].expected
  /\ value' = request[p].new
  /\ Decide(p, "ok")

(* Every call takes effect atomically, at one step between its beginning and
   its end, or reports a failure and changed nothing ("Atomic across processes
   on one host"; "nothing was written"), through any deaths, stale locks and
   waiters that break them -- except while a live lock is displaced: a waiter
   moved it away and puts it back, and two calls may then believe that they
   hold it.  Even then the only thing that goes wrong is a compare_and_set
   that replaces a value it did not compare, and once those calls are over the
   entry is an atomic register again. *)
RefinesRegister ==
  /\ Register!Init
  /\ [][\/ Register!Next
        \/ displaced = "now" /\ \E p \in Processes : Overwrites(p)]_<<value, request, result>>

(* The same for one call: what compare_and_set is about to replace is the
   value it compared. *)
NoLostUpdate ==
  [][\A p \in Processes :
       request[p] # NoRequest /\ request[p].kind = "cas" /\ value' = request[p].new
         => value = request[p].expected]_vars

(* The lock of a process that died before the start. *)
Inherited == \E l \in InitialLocks \ {NoLock} : lock.owner = l.owner

(* A lock is left behind only by a death, or by a waiter that puts the lock of
   a call back that has ended meanwhile: when nobody is inside a call, there
   is none but one that was there from the start. *)
NoLockLeft ==
  Quiet /\ crashes = 0 /\ displaced = "never" => lock = NoLock \/ Inherited

(* Every call ends. *)
CallsReturn == \A p \in Processes : pc[p] # "idle" ~> pc[p] = "idle"
==============================================================================
