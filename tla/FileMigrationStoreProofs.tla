----------------------- MODULE FileMigrationStoreProofs -----------------------
(***************************************************************************)
(* What the lock of FileMigrationStore achieves, for every number of       *)
(* processes, calls and deaths, with or without the window before the      *)
(* rename: the entry is an atomic register whenever no live lock is        *)
(* displaced, and without a death or an inherited lock none ever is.       *)
(***************************************************************************)
EXTENDS FileMigrationStore, TLAPS

Undecided == Steps \ {"idle", "release", "remove", "removeDir"}

(* What a call knows of itself, whatever happens to the lock. *)
CallOf(p) ==
  /\ request[p] # NoRequest <=> pc[p] \in Undecided
  /\ pc[p] = "read" => request[p].kind = "cas"
  /\ request[p] # NoRequest /\ request[p].kind = "delete" => request[p].new = Absent

IInv == TypeOK /\ \A p \in Processes : CallOf(p)

(* The directory at the lock path is the one this call made, and no other call
   believes the same of it; so what it has compared is still the value. *)
Holds(p) ==
  pc[p] \in Locked =>
    /\ lock # NoLock
    /\ lock.fresh
    /\ lock.owner = IF pc[p] \in {"stamp", "removeDir"} THEN NoOwner ELSE MyToken(p)
    /\ \A q \in Processes \ {p} : pc[q] \notin Locked

Compared(p) ==
  pc[p] \in {"owns", "replace"} /\ request[p].kind = "cas" => value = request[p].expected

Exclusive == \A p \in Processes : Holds(p) /\ Compared(p) /\ pc[p] \notin {"undo", "undoDir"}

(* No live lock has been moved away by a waiter that took it for stale. *)
NothingToPutBack == \A p \in Processes : pc[p] # "putBack"

(* Whenever no live lock is displaced, the lock does what it is for. *)
Settled == displaced # "now" => Exclusive /\ NothingToPutBack

(* Without a death every lock is the one of a call in progress, or was there
   from the start. *)
Attended ==
  crashes = 0 /\ displaced = "never" /\ lock # NoLock
    => Inherited \/ \E p \in Processes : pc[p] \in Locked

(* With nothing there from the start, none is ever taken for stale. *)
NeverStale ==
  crashes = 0 =>
    /\ displaced = "never"
    /\ lock # NoLock => \E p \in Processes : pc[p] \in Locked
    /\ \A p \in Processes : pc[p] \notin {"rename", "putBack"}
------------------------------------------------------------------------------
LEMMA InitIInv == Init => IInv
<1> SUFFICES ASSUME Init PROVE IInv
  OBVIOUS
<1> USE StoreAssumption
<1>1. TypeOK
  BY DEF Init, TypeOK, Steps, Waiting
<1>2. \A p \in Processes : CallOf(p)
  BY DEF Init, CallOf, Undecided
<1> QED
  BY <1>1, <1>2 DEF IInv

LEMMA TokenTyped ==
  ASSUME TypeOK, NEW p \in Processes
  PROVE  MyToken(p) \in Token
BY StoreAssumption DEF TypeOK, MyToken, Token

(* What a process does to its own pc, request and result. *)
LEMMA Decided ==
  ASSUME TypeOK, NEW p \in Processes, CallOf(p), NEW r \in {"ok", "refused", "timeout", "lost", "crashed"},
         Decide(p, r), NEW s \in {"idle", "release"}, Goto(p, s)
  PROVE  /\ request' \in [Processes -> Request \cup {NoRequest}]
         /\ result' \in [Processes -> {"none", "ok", "refused", "timeout", "lost", "crashed"}]
         /\ pc' \in [Processes -> Steps]
         /\ CallOf(p)'
         /\ \A q \in Processes \ {p} : CallOf(q) => CallOf(q)'
<1> USE DEF TypeOK, Decide, Goto, Steps, Waiting, Holding
<1>1. /\ request' \in [Processes -> Request \cup {NoRequest}]
      /\ result' \in [Processes -> {"none", "ok", "refused", "timeout", "lost", "crashed"}]
      /\ pc' \in [Processes -> Steps]
  OBVIOUS
<1>2. pc'[p] = s /\ request'[p] = NoRequest
  OBVIOUS
<1>3. CallOf(p)'
  BY <1>2 DEF CallOf, Undecided
<1>4. \A q \in Processes \ {p} : CallOf(q) => CallOf(q)'
  BY DEF CallOf, Undecided
<1> QED
  BY <1>1, <1>3, <1>4

LEMMA Moved ==
  ASSUME IInv, NEW p \in Processes, NEW s \in Steps, Goto(p, s), UNCHANGED request,
         s \in Undecided <=> pc[p] \in Undecided,
         s = "read" => request[p].kind = "cas"
  PROVE  pc' \in [Processes -> Steps] /\ \A q \in Processes : CallOf(q)'
BY DEF IInv, TypeOK, CallOf, Goto

LEMMA NextIInv == IInv /\ [Next]_vars => IInv'
<1> SUFFICES ASSUME IInv, [Next]_vars PROVE IInv'
  OBVIOUS
<1> USE StoreAssumption
<1>d. displaced' \in {"never", "now", "past"}
  BY DEF IInv, TypeOK, Next, Track, vars
<1>a. TypeOK /\ \A p \in Processes : CallOf(p) /\ MyToken(p) \in Token
  BY TokenTyped DEF IInv
<1>e. lock \in Lock \cup {NoLock} /\ \A p \in Processes : MyToken(p) \in Token
  BY <1>a DEF TypeOK
<1>b. \A o \in Token \cup {NoOwner}, b \in BOOLEAN : [owner |-> o, fresh |-> b] \in Lock
  BY DEF Lock
<1>1. ASSUME NEW p \in Processes, Begin(p) PROVE IInv'
  <2>1. PICK k \in Kinds :
          request' = [request EXCEPT ![p] =
            [kind |-> k, expected |-> value, new |-> IF k = "delete" THEN Absent ELSE <<p, calls[p] + 1>>]]
    BY <1>1 DEF Begin
  <2>2. <<p, calls[p] + 1>> \in Token /\ calls' \in [Processes -> 0..MaxCalls]
    BY <1>1, <1>a, <1>d DEF Begin, Token, TypeOK
  <2> DEFINE r == [kind |-> k, expected |-> value, new |-> IF k = "delete" THEN Absent ELSE <<p, calls[p] + 1>>]
  <2>3. r \in Request /\ (r.kind = "delete" => r.new = Absent) /\ r # NoRequest
    BY <2>2, <1>a, <1>d DEF Request, TypeOK
  <2> HIDE DEF r
  <2>4. request' = [request EXCEPT ![p] = r]
    BY <2>1 DEF r
  <2>5. TypeOK'
    BY <1>1, <1>a, <1>d, <2>2, <2>3, <2>4 DEF Begin, Goto, TypeOK, Steps, Waiting
  <2>6. \A q \in Processes : CallOf(q)'
    BY <1>1, <1>a, <1>d, <2>3, <2>4 DEF Begin, Goto, TypeOK, CallOf, Undecided, Steps, Waiting
  <2> QED
    BY <2>5, <2>6 DEF IInv
<1>2. ASSUME NEW p \in Processes, MakeLock(p) \/ CheckAge(p) PROVE IInv'
  <2>1. PICK s \in {"stamp", "again", "rename"} : Goto(p, s)
    BY <1>2 DEF MakeLock, CheckAge
  <2>2. pc' \in [Processes -> Steps] /\ \A q \in Processes : CallOf(q)'
    BY <1>2, <2>1, Moved DEF MakeLock, CheckAge, Undecided, Steps, Waiting
  <2>3. lock' \in Lock \cup {NoLock}
    <3>1. [owner |-> NoOwner, fresh |-> TRUE] \in Lock
      BY <1>b
    <3> QED
      BY <1>2, <1>a, <1>d, <3>1 DEF MakeLock, CheckAge, TypeOK
  <2> QED
    BY <1>2, <1>a, <1>d, <2>2, <2>3 DEF IInv, MakeLock, CheckAge, TypeOK
<1>3. ASSUME NEW p \in Processes, TimeOut(p) PROVE IInv'
  BY <1>3, <1>a, <1>d, Decided DEF IInv, TimeOut, TypeOK
<1>4. ASSUME NEW p \in Processes, Stamp(p) PROVE IInv'
  <2>1. PICK s \in {"read", "owns", "undo"} : Goto(p, s) /\ (s = "read" => request[p].kind = "cas")
    BY <1>4 DEF Stamp
  <2>2. pc' \in [Processes -> Steps] /\ \A q \in Processes : CallOf(q)'
    BY <1>4, <2>1, Moved DEF Stamp, Undecided, Steps, Waiting, Holding
  <2>3. lock' \in Lock \cup {NoLock}
    <3>1. lock # NoLock => (lock.fresh \/ lock.owner = NoOwner) \in BOOLEAN
      OBVIOUS
    <3> QED
      BY <1>4, <1>b, <1>e, <3>1, ZenonT(30) DEF Stamp
  <2> QED
    BY <1>4, <1>a, <1>d, <2>2, <2>3 DEF IInv, Stamp, TypeOK
<1>5. ASSUME NEW p \in Processes, Undo(p) PROVE IInv'
  <2>1. PICK s \in {"undoDir", "again"} : Goto(p, s)
    BY <1>5 DEF Undo
  <2>2. pc' \in [Processes -> Steps] /\ \A q \in Processes : CallOf(q)'
    BY <1>5, <2>1, Moved DEF Undo, Undecided, Steps, Waiting
  <2>3. lock' \in Lock \cup {NoLock}
    BY <1>5, <1>b, <1>e, ZenonT(30) DEF Undo, EmptyDir, RemovedDir
  <2> QED
    BY <1>5, <1>a, <1>d, <2>2, <2>3 DEF IInv, Undo, TypeOK
<1>6. ASSUME NEW p \in Processes, RenameAway(p) \/ PutBack(p) PROVE IInv'
  <2>1. PICK s \in {"putBack", "again"} : Goto(p, s)
    BY <1>6 DEF RenameAway, PutBack
  <2>2. pc' \in [Processes -> Steps] /\ \A q \in Processes : CallOf(q)'
    BY <1>6, <2>1, Moved DEF RenameAway, PutBack, Undecided, Steps, Waiting
  <2>3. lock' \in Lock \cup {NoLock} /\ grave' \in [Processes -> Lock \cup {NoLock}]
    BY <1>6, <1>a, <1>d DEF RenameAway, PutBack, TypeOK
  <2> QED
    BY <1>6, <1>a, <1>d, <2>2, <2>3 DEF IInv, RenameAway, PutBack, TypeOK
<1>7. ASSUME NEW p \in Processes, Compare(p) PROVE IInv'
  <2>1. CASE Decide(p, "refused") /\ Goto(p, "release")
    BY <1>7, <1>a, <1>d, <2>1, Decided DEF IInv, Compare, TypeOK
  <2>2. CASE Goto(p, "owns") /\ UNCHANGED <<request, result>>
    <3>1. pc' \in [Processes -> Steps] /\ \A q \in Processes : CallOf(q)'
      BY <1>7, <2>2, Moved DEF Compare, Undecided, Steps, Holding
    <3> QED
      BY <1>7, <1>a, <1>d, <2>2, <3>1 DEF IInv, Compare, TypeOK
  <2> QED
    BY <1>7, <2>1, <2>2 DEF Compare
<1>8. ASSUME NEW p \in Processes, CheckOwner(p) PROVE IInv'
  <2>1. CASE Decide(p, "lost") /\ Goto(p, "release")
    BY <1>8, <1>a, <1>d, <2>1, Decided DEF IInv, CheckOwner, TypeOK
  <2>2. CASE Goto(p, "replace") /\ UNCHANGED <<request, result>>
    <3>1. pc' \in [Processes -> Steps] /\ \A q \in Processes : CallOf(q)'
      BY <1>8, <2>2, Moved DEF CheckOwner, Undecided, Steps, Holding
    <3> QED
      BY <1>8, <1>a, <1>d, <2>2, <3>1 DEF IInv, CheckOwner, TypeOK
  <2> QED
    BY <1>8, <2>1, <2>2 DEF CheckOwner
<1>9. ASSUME NEW p \in Processes, Replace(p) PROVE IInv'
  <2>1. request[p] \in Request
    BY <1>9, <1>a, <1>d DEF Replace, CallOf, Undecided, Steps, Holding, TypeOK
  <2>2. value' \in Token \cup {Absent}
    BY <1>9, <2>1 DEF Replace, Request
  <2>3. PICK r \in {"refused", "ok"} : Decide(p, r)
    BY <1>9 DEF Replace
  <2>4. Goto(p, "release")
    BY <1>9 DEF Replace
  <2> QED
    BY <1>9, <1>a, <1>d, <2>2, <2>3, <2>4, Decided DEF IInv, Replace, TypeOK
<1>10. ASSUME NEW p \in Processes, Release(p) PROVE IInv'
  <2>1. PICK s \in {"remove", "removeDir", "idle"} : Goto(p, s)
    BY <1>10 DEF Release
  <2>2. pc' \in [Processes -> Steps] /\ \A q \in Processes : CallOf(q)'
    BY <1>10, <2>1, Moved DEF Release, Undecided, Steps, Waiting
  <2>3. lock' \in Lock \cup {NoLock}
    BY <1>10, <1>b, <1>e, ZenonT(30) DEF Release, EmptyDir, RemovedDir
  <2> QED
    BY <1>10, <1>a, <1>d, <2>2, <2>3 DEF IInv, Release, TypeOK
<1>11. ASSUME NEW p \in Processes, Crash(p) PROVE IInv'
  <2>1. /\ crashes' \in 0..MaxCrashes /\ grave' \in [Processes -> Lock \cup {NoLock}]
        /\ UNCHANGED <<value, lock, calls>> /\ Goto(p, "idle")
    BY <1>11, <1>a, <1>d DEF Crash, TypeOK
  <2>2. CASE Decide(p, "crashed")
    BY <1>a, <1>d, <2>1, <2>2, Decided DEF IInv, TypeOK
  <2>3. CASE request[p] = NoRequest /\ UNCHANGED <<request, result>>
    <3>1. pc' \in [Processes -> Steps] /\ \A q \in Processes : CallOf(q)'
      BY <1>a, <1>d, <2>1, <2>3, Moved DEF CallOf, Undecided, Steps, Waiting
    <3> QED
      BY <1>a, <1>d, <2>1, <2>3, <3>1 DEF IInv, TypeOK
  <2> QED
    BY <1>11, <2>2, <2>3 DEF Crash
<1>12. ASSUME Age PROVE IInv'
  <2>1. lock' \in Lock
    BY <1>12, <1>a, <1>d, <1>b DEF Age, TypeOK, Lock
  <2> QED
    BY <1>12, <1>a, <1>d, <2>1 DEF IInv, Age, TypeOK, CallOf
<1>13. ASSUME UNCHANGED state PROVE IInv'
  BY <1>13, <1>d DEF IInv, TypeOK, CallOf, state
<1>14. UNCHANGED vars => UNCHANGED state
  BY DEF vars, state
<1> QED
  BY <1>1, <1>2, <1>3, <1>4, <1>5, <1>6, <1>7, <1>8, <1>9, <1>10, <1>11, <1>12, <1>13, <1>14
     DEF Next, Step, Rest
------------------------------------------------------------------------------
LEMMA InitExclusive == Init => Exclusive
  BY DEF Init, Exclusive, Holds, Compared, Locked, Holding

LEMMA InitSettled == Init => Settled
  BY InitExclusive DEF Init, Settled, NothingToPutBack

(* Unless a live lock is moved away, every step leaves the lock with the one
   call that made it. *)
LEMMA NextExclusive ==
  ASSUME IInv, Exclusive, [Next]_vars, NothingToPutBack, NothingToPutBack'
  PROVE  Exclusive'
<1> USE DEF IInv, TypeOK, Exclusive, Holds, Compared, Locked, Holding
<1>0. /\ \A q \in Processes : [owner |-> MyToken(q), fresh |-> TRUE] # NoLock
      /\ [owner |-> NoOwner, fresh |-> TRUE] # NoLock
  <2>1. \A o \in Token \cup {NoOwner} : [owner |-> o, fresh |-> TRUE] \in Lock
    BY DEF Lock
  <2>2. \A q \in Processes : MyToken(q) \in Token
    BY TokenTyped
  <2> QED
    BY <2>1, <2>2, StoreAssumption
<1>1. ASSUME NEW p \in Processes, Begin(p) PROVE Exclusive'
  BY <1>1 DEF Begin, Goto, MyToken
<1>2. ASSUME NEW p \in Processes, MakeLock(p) PROVE Exclusive'
  <2>1. \A q \in Processes : Holds(q)'
    BY <1>2, <1>0 DEF MakeLock, Goto, MyToken
  <2>2. \A q \in Processes : Compared(q)'
    BY <1>2 DEF MakeLock, Goto, MyToken
  <2>3. \A q \in Processes : pc'[q] \notin {"undo", "undoDir"}
    BY <1>2 DEF MakeLock, Goto, MyToken
  <2> QED
    BY <2>1, <2>2, <2>3
<1>3. ASSUME NEW p \in Processes, CheckAge(p) PROVE Exclusive'
  BY <1>3 DEF CheckAge, Goto, MyToken
<1>4. ASSUME NEW p \in Processes, TimeOut(p) PROVE Exclusive'
  BY <1>4 DEF TimeOut, Decide, Goto, MyToken
<1>5. ASSUME NEW p \in Processes, Stamp(p) PROVE Exclusive'
  <2>1. \A q \in Processes : Holds(q)'
    <3>1. lock # NoLock /\ lock.owner = NoOwner
      BY <1>5 DEF Stamp
    <3>2. lock' = [owner |-> MyToken(p), fresh |-> TRUE]
      BY <1>5, <3>1 DEF Stamp
    <3> QED
      BY <1>5, <1>0, <3>1, <3>2 DEF Stamp, Goto, MyToken
  <2>2. \A q \in Processes : Compared(q)'
    BY <1>5 DEF Stamp, Goto, MyToken
  <2>3. \A q \in Processes : pc'[q] \notin {"undo", "undoDir"}
    BY <1>5, ZenonT(30) DEF Stamp, Goto, MyToken
  <2> QED
    BY <2>1, <2>2, <2>3
<1>6. ASSUME NEW p \in Processes, Undo(p) PROVE FALSE
  BY <1>6 DEF Undo
<1>7. ASSUME NEW p \in Processes, RenameAway(p) PROVE Exclusive'
  <2>1. ~(lock # NoLock /\ lock.fresh)
    BY <1>7 DEF RenameAway, Goto, NothingToPutBack
  <2> QED
    BY <1>7, <2>1 DEF RenameAway, Goto, MyToken
<1>8. ASSUME NEW p \in Processes, PutBack(p) PROVE FALSE
  BY <1>8 DEF PutBack, NothingToPutBack
<1>9. ASSUME NEW p \in Processes, Compare(p) PROVE Exclusive'
  BY <1>9 DEF Compare, Decide, Goto, MyToken
<1>10. ASSUME NEW p \in Processes, CheckOwner(p) PROVE Exclusive'
  BY <1>10 DEF CheckOwner, Decide, Goto, MyToken
<1>11. ASSUME NEW p \in Processes, Replace(p) PROVE Exclusive'
  BY <1>11 DEF Replace, Decide, Goto, MyToken
<1>12. ASSUME NEW p \in Processes, Release(p) PROVE Exclusive'
  <2>1. \A q \in Processes : Holds(q)'
    BY <1>12, <1>0 DEF Release, Goto, MyToken, Owned, EmptyDir, RemovedDir
  <2>2. \A q \in Processes : Compared(q)'
    BY <1>12 DEF Release, Goto
  <2>3. \A q \in Processes : pc'[q] \notin {"undo", "undoDir"}
    BY <1>12, SMTT(30) DEF Release, Goto
  <2> QED
    BY <2>1, <2>2, <2>3
<1>13. ASSUME NEW p \in Processes, Crash(p) PROVE Exclusive'
  BY <1>13 DEF Crash, Decide, Goto, MyToken
<1>14. ASSUME Age PROVE Exclusive'
  BY <1>14 DEF Age, Waiting
<1>15. ASSUME UNCHANGED state PROVE Exclusive'
  BY <1>15 DEF state, MyToken
<1>16. UNCHANGED vars => UNCHANGED state
  BY DEF vars, state
<1> QED
  BY <1>1, <1>2, <1>3, <1>4, <1>5, <1>6, <1>7, <1>8, <1>9, <1>10, <1>11, <1>12, <1>13, <1>14, <1>15, <1>16
     DEF Next, Step, Rest

(* ... and once nobody is left who might need it, the lock is as good as new. *)
LEMMA NextSettled == IInv /\ Settled /\ [Next]_vars => Settled'
<1> SUFFICES ASSUME IInv, Settled, [Next]_vars, displaced' # "now" PROVE (Exclusive /\ NothingToPutBack)'
  BY DEF Settled
<1>1. CASE UNCHANGED vars
  BY <1>1 DEF vars, Settled, Exclusive, Holds, Compared, NothingToPutBack, MyToken
<1>2. CASE Track
  <2>1. NothingToPutBack'
    BY <1>2 DEF Track, PuttingBack, NothingToPutBack
  <2>2. CASE displaced # "now"
    BY <2>1, <2>2, NextExclusive DEF Settled
  <2>3. CASE displaced = "now"
    <3>1. ~Contested'
      BY <1>2, <2>3 DEF Track
    <3> QED
      BY <2>1, <3>1 DEF Contested, Exclusive, Holds, Compared, Locked, Holding
  <2> QED
    BY <2>1, <2>2, <2>3
<1> QED
  BY <1>1, <1>2 DEF Next
------------------------------------------------------------------------------
(* A death is never undone, and a displacement never forgotten. *)
LEMMA NoDeathYet ==
  ASSUME IInv, [Next]_vars, crashes' = 0
  PROVE  crashes = 0 /\ \A p \in Processes : ~Crash(p)
<1>1. crashes \in Nat
  BY StoreAssumption DEF IInv, TypeOK
<1>2. \A p \in Processes : Crash(p) => crashes' = crashes + 1
  BY DEF Crash
<1>3. ~(\E p \in Processes : Crash(p)) => crashes' = crashes
  BY DEF Next, Step, Begin, MakeLock, CheckAge, TimeOut, Stamp, Undo, RenameAway, PutBack, Compare,
     CheckOwner, Replace, Release, Age, Rest, state, vars
<1> QED
  BY <1>1, <1>2, <1>3

LEMMA InitAttended == Init => Attended
  BY DEF Init, Attended, Inherited

LEMMA NextAttended == IInv /\ Settled /\ Attended /\ [Next]_vars => Attended'
<1> SUFFICES ASSUME IInv, Settled, Attended, [Next]_vars,
                    crashes' = 0, displaced' = "never", lock' # NoLock
             PROVE  Inherited' \/ \E p \in Processes : pc'[p] \in Locked
  BY DEF Attended
<1> USE DEF IInv, TypeOK, Locked, Holding
<1>0. crashes = 0 /\ \A p \in Processes : ~Crash(p)
  BY NoDeathYet
<1>1. displaced = "never" /\ \A p \in Processes : pc'[p] # "putBack"
  BY DEF Next, Track, PuttingBack, vars, Settled, NothingToPutBack
<1>2. /\ Exclusive /\ NothingToPutBack
      /\ lock # NoLock => Inherited \/ \E p \in Processes : pc[p] \in Locked
  BY <1>0, <1>1 DEF Settled, Attended
<1> DEFINE Goal == Inherited' \/ \E q \in Processes : pc'[q] \in Locked
<1>3. ASSUME NEW p \in Processes, Begin(p) \/ CheckAge(p) \/ TimeOut(p) PROVE Goal
  BY <1>2, <1>3 DEF Begin, CheckAge, TimeOut, Goto, Inherited
<1>4. ASSUME NEW p \in Processes, MakeLock(p) \/ Compare(p) \/ CheckOwner(p) \/ Replace(p) PROVE Goal
  BY <1>2, <1>4 DEF MakeLock, Compare, CheckOwner, Replace, Goto
<1>5. ASSUME NEW p \in Processes, Stamp(p) PROVE Goal
  BY <1>2, <1>5 DEF Stamp, Goto, Exclusive, Holds
<1>6. ASSUME NEW p \in Processes, Undo(p) \/ RenameAway(p) \/ PutBack(p) PROVE FALSE
  BY <1>2, <1>6 DEF Undo, RenameAway, PutBack, Exclusive, NothingToPutBack
<1>7. ASSUME NEW p \in Processes, Release(p) PROVE Goal
  <2>1. Holds(p) /\ pc[p] \in Locked
    BY <1>2, <1>7 DEF Release, Exclusive
  <2>2. pc'[p] # "idle"
    BY <1>7, <2>1 DEF Release, Goto, Holds, Owned, RemovedDir
  <2> QED
    BY <1>7, <2>1, <2>2 DEF Release, Goto
<1>8. ASSUME Age PROVE Goal
  BY <1>2, <1>8 DEF Age, Waiting, Inherited, Lock
<1>9. ASSUME UNCHANGED state PROVE Goal
  BY <1>2, <1>9 DEF state, Inherited
<1>10. UNCHANGED vars => UNCHANGED state
  BY DEF vars, state
<1> QED
  BY <1>0, <1>3, <1>4, <1>5, <1>6, <1>7, <1>8, <1>9, <1>10 DEF Next, Step, Rest

LEMMA NextNeverStale == IInv /\ Settled /\ NeverStale /\ [Next]_vars => NeverStale'
<1> SUFFICES ASSUME IInv, Settled, NeverStale, [Next]_vars, crashes' = 0
             PROVE  /\ displaced' = "never"
                    /\ lock' # NoLock => \E p \in Processes : pc'[p] \in Locked
                    /\ \A p \in Processes : pc'[p] \notin {"rename", "putBack"}
  BY DEF NeverStale
<1> USE DEF IInv, TypeOK, Locked, Holding
<1>0. crashes = 0 /\ \A p \in Processes : ~Crash(p)
  BY NoDeathYet
<1>1. /\ displaced = "never" /\ Exclusive
      /\ lock # NoLock => \E p \in Processes : pc[p] \in Locked
      /\ \A p \in Processes : pc[p] \notin {"rename", "putBack"}
  BY <1>0 DEF NeverStale, Settled
<1>2. lock # NoLock => lock.fresh
  BY <1>1 DEF Exclusive, Holds
<1> DEFINE Goal == /\ \A q \in Processes : pc'[q] \notin {"rename", "putBack"}
                   /\ lock' # NoLock => \E q \in Processes : pc'[q] \in Locked
<1>3. Goal
  <2>1. ASSUME NEW p \in Processes, Begin(p) \/ CheckAge(p) \/ TimeOut(p) PROVE Goal
    BY <1>1, <1>2, <2>1 DEF Begin, CheckAge, TimeOut, Goto
  <2>2. ASSUME NEW p \in Processes, MakeLock(p) \/ Compare(p) \/ CheckOwner(p) \/ Replace(p) PROVE Goal
    BY <1>1, <2>2 DEF MakeLock, Compare, CheckOwner, Replace, Goto
  <2>3. ASSUME NEW p \in Processes, Stamp(p) PROVE Goal
    BY <1>1, <2>3 DEF Stamp, Goto, Exclusive, Holds
  <2>4. ASSUME NEW p \in Processes, Undo(p) \/ RenameAway(p) \/ PutBack(p) PROVE FALSE
    BY <1>1, <2>4 DEF Undo, RenameAway, PutBack, Exclusive
  <2>5. ASSUME NEW p \in Processes, Release(p) PROVE Goal
    <3>1. Holds(p) /\ pc[p] \in Locked
      BY <1>1, <2>5 DEF Release, Exclusive
    <3>2. pc'[p] = "idle" => lock' = NoLock
      BY <2>5, <3>1 DEF Release, Goto, Holds, Owned, RemovedDir
    <3> QED
      BY <1>1, <2>5, <3>1, <3>2 DEF Release, Goto
  <2>6. ~Age
    BY <1>1 DEF Age, Waiting
  <2>7. ASSUME UNCHANGED state PROVE Goal
    BY <1>1, <2>7 DEF state
  <2>8. UNCHANGED vars => UNCHANGED state
    BY DEF vars, state
  <2> QED
    BY <1>0, <2>1, <2>2, <2>3, <2>4, <2>5, <2>6, <2>7, <2>8 DEF Next, Step, Rest
<1>4. displaced' = "never"
  BY <1>1, <1>3 DEF Next, Track, PuttingBack, vars
<1> QED
  BY <1>3, <1>4
------------------------------------------------------------------------------
LEMMA InitMaps == Init => Register!Init
  BY DEF Init, Register!Init

(* Every step is an atomic step of the register, or changes nothing that the
   callers see, or replaces a value that was not compared. *)
LEMMA StepMaps ==
  ASSUME IInv, [Next]_vars
  PROVE  \/ Register!Next \/ UNCHANGED Register!vars
         \/ \E p \in Processes : ~Compared(p) /\ Overwrites(p)
<1> USE DEF IInv, TypeOK
<1>1. ASSUME NEW p \in Processes, Begin(p) PROVE Register!Next
  <2>1. request[p] = NoRequest
    BY <1>1 DEF Begin, CallOf, Undecided
  <2>2. PICK k \in Kinds :
          request' = [request EXCEPT ![p] =
            [kind |-> k, expected |-> value, new |-> IF k = "delete" THEN Absent ELSE <<p, calls[p] + 1>>]]
    BY <1>1 DEF Begin
  <2>3. <<p, calls[p] + 1>> \in Token
    BY <1>1, StoreAssumption DEF Begin, Token
  <2> DEFINE new == IF k = "delete" THEN Absent ELSE <<p, calls[p] + 1>>
  <2>4. new \in Token \cup {Absent} /\ value \in Token \cup {Absent}
    BY <2>3
  <2>5. \E kind \in Kinds, expected \in Token \cup {Absent}, n \in Token \cup {Absent} :
          request' = [request EXCEPT ![p] = [kind |-> kind, expected |-> expected, new |-> n]]
    BY <2>2, <2>4
  <2>6. Register!Invoke(p)
    BY <1>1, <2>1, <2>5 DEF Begin, Register!Invoke
  <2> QED
    BY <2>6 DEF Register!Next
<1>2. ASSUME NEW p \in Processes, NEW r \in {"timeout", "lost", "crashed"}, Decide(p, r),
             request[p] # NoRequest, UNCHANGED value
      PROVE  Register!Next
  <2>1. Register!Fail(p)
    BY <1>2 DEF Decide, Register!Fail, Register!Decide
  <2> QED
    BY <2>1 DEF Register!Next
<1>3. ASSUME NEW p \in Processes, TimeOut(p) PROVE Register!Next
  BY <1>2, <1>3 DEF TimeOut, CallOf, Undecided, Steps, Waiting
<1>4. ASSUME NEW p \in Processes, CheckOwner(p) PROVE Register!Next \/ UNCHANGED Register!vars
  <2>1. request[p] # NoRequest
    BY <1>4 DEF CheckOwner, CallOf, Undecided, Steps, Holding
  <2> QED
    BY <1>2, <1>4, <2>1 DEF CheckOwner, Register!vars
<1>5. ASSUME NEW p \in Processes, Crash(p) PROVE Register!Next \/ UNCHANGED Register!vars
  BY <1>2, <1>5 DEF Crash, Register!vars
<1>6. ASSUME NEW p \in Processes, Compare(p) PROVE Register!Next \/ UNCHANGED Register!vars
  <2>1. request[p] # NoRequest /\ request[p].kind = "cas"
    BY <1>6 DEF Compare, CallOf, Undecided, Steps, Holding
  <2>2. CASE value # request[p].expected /\ Decide(p, "refused")
    <3>1. Register!Refuse(p)
      BY <1>6, <2>1, <2>2 DEF Compare, Decide, Register!Refuse, Register!Decide
    <3> QED
      BY <3>1 DEF Register!Next
  <2>3. CASE UNCHANGED <<request, result>>
    BY <1>6, <2>3 DEF Compare, Register!vars
  <2> QED
    BY <1>6, <2>2, <2>3 DEF Compare
<1>7. ASSUME NEW p \in Processes, Replace(p)
      PROVE  Register!Next \/ (~Compared(p) /\ Overwrites(p))
  <2>1. request[p] # NoRequest /\ value' = request[p].new /\ pc[p] \in {"owns", "replace"}
    BY <1>7 DEF Replace, CallOf, Undecided, Steps, Holding
  <2>2. CASE request[p].kind = "delete" /\ value = Absent
    <3>1. value' = value /\ Decide(p, "refused")
      BY <1>7, <2>1, <2>2 DEF Replace, CallOf
    <3>2. Register!Refuse(p)
      BY <2>1, <2>2, <3>1 DEF Decide, Register!Refuse, Register!Decide
    <3> QED
      BY <3>2 DEF Register!Next
  <2>3. CASE ~(request[p].kind = "delete" /\ value = Absent)
    <3>1. Decide(p, "ok")
      BY <1>7, <2>3 DEF Replace
    <3>2. CASE request[p].kind = "cas" => value = request[p].expected
      <4>1. Register!Write(p)
        BY <2>1, <2>3, <3>1, <3>2 DEF Decide, Register!Write, Register!Decide
      <4> QED
        BY <4>1 DEF Register!Next
    <3>3. CASE request[p].kind = "cas" /\ value # request[p].expected
      BY <2>1, <3>1, <3>3 DEF Overwrites, Compared
    <3> QED
      BY <3>2, <3>3
  <2> QED
    BY <2>2, <2>3
<1>8. ASSUME NEW p \in Processes,
             MakeLock(p) \/ CheckAge(p) \/ Stamp(p) \/ Undo(p) \/ RenameAway(p) \/ PutBack(p) \/ Release(p)
      PROVE  UNCHANGED Register!vars
  BY <1>8 DEF MakeLock, CheckAge, Stamp, Undo, RenameAway, PutBack, Release, Register!vars
<1>9. Age \/ UNCHANGED state \/ UNCHANGED vars => UNCHANGED Register!vars
  BY DEF Age, state, vars, Register!vars
<1> QED
  BY <1>1, <1>3, <1>4, <1>5, <1>6, <1>7, <1>8, <1>9 DEF Next, Step, Rest
------------------------------------------------------------------------------
(* Every variable stays in its range. *)
THEOREM TypeCorrect == Spec => []TypeOK
<1>1. IInv => TypeOK
  BY DEF IInv
<1> QED
  BY <1>1, InitIInv, NextIInv, PTL DEF Spec

(* The entry is an atomic register, through any number of deaths, stale locks
   and waiters that break them, whenever no live lock is displaced; while one
   is, a compare_and_set may replace a value it did not compare, and nothing
   else. *)
THEOREM AtomicUnlessDisplaced == Spec => RefinesRegister
<1> DEFINE Atomic ==
      Register!Next \/ (displaced = "now" /\ \E p \in Processes : Overwrites(p))
<1>1. IInv /\ Settled /\ [Next]_vars => [Atomic]_<<value, request, result>>
  <2>1. UNCHANGED Register!vars <=> UNCHANGED <<value, request, result>>
    BY DEF Register!vars
  <2> QED
    BY <2>1, StepMaps DEF Settled, Exclusive
<1>2. Init => Register!Init
  BY InitMaps
<1> QED
  BY <1>1, <1>2, InitIInv, NextIInv, InitSettled, NextSettled, PTL DEF Spec, RefinesRegister

(* While no process dies inside a call and no live lock is displaced, a lock
   is always the lock of a call in progress or one from the start, so that no
   other is left when nobody is inside a call. *)
THEOREM NoLockStays == Spec => []NoLockLeft
<1>1. Attended => NoLockLeft
  BY DEF Attended, NoLockLeft, Quiet, Locked, Holding
<1> QED
  BY <1>1, InitIInv, NextIInv, InitSettled, NextSettled, InitAttended, NextAttended, PTL DEF Spec

(* If nothing is there from the start and no process dies, no live lock is ever
   displaced: the entry is an atomic register without any exception. *)
THEOREM AtomicWithoutDeaths ==
  ASSUME InitialLocks \subseteq {NoLock}, MaxCrashes = 0
  PROVE  Spec => Register!Spec
<1>1. Init => NeverStale
  BY DEF Init, NeverStale
<1>2. IInv /\ Settled /\ NeverStale /\ [Next]_vars => [Register!Next]_(Register!vars)
  <2>1. IInv /\ Settled /\ NeverStale => \A p \in Processes : Compared(p)
    BY DEF IInv, TypeOK, NeverStale, Settled, Exclusive
  <2> QED
    BY <2>1, StepMaps
<1> QED
  BY <1>1, <1>2, InitIInv, NextIInv, InitSettled, NextSettled, NextNeverStale, InitMaps, PTL
     DEF Spec, Register!Spec

(* Writes and deletions that compare nothing are atomic whatever happens to
   the lock. *)
THEOREM AtomicWithoutComparing ==
  ASSUME "cas" \notin Kinds
  PROVE  Spec => Register!Spec
<1>1. IInv => \A p \in Processes : Compared(p)
  BY DEF IInv, TypeOK, CallOf, Compared, Undecided, Steps, Holding, Request
<1>2. IInv /\ [Next]_vars => [Register!Next]_(Register!vars)
  BY <1>1, StepMaps
<1> QED
  BY <1>2, InitIInv, NextIInv, InitMaps, PTL DEF Spec, Register!Spec
==============================================================================
