--------------------------- MODULE KeyUpgradeProofs ---------------------------
(***************************************************************************)
(* Proofs about KeyUpgrade, for calls that do not overlap and for any       *)
(* number of them: what a call reports is what it did, and the secret key   *)
(* it replaces is never lost, except to an interrupt.                       *)
(***************************************************************************)
EXTENDS KeyUpgrade, TLAPS

Active(r) == pc[r] \in Trying \cup Ending

(* One call at a time. *)
OneActive == \A r, s \in Runs : Active(r) /\ Active(s) => r = s

(* What a call backs up is what it found. *)
BacksUpWhatItFound ==
  \A r \in Runs, p \in Paths : baks[r][p] \in {None, before[r][p]}

(* A pair is not on the disk before its run writes it, and no run finds it
   before that run has ended. *)
Fresh ==
  \A r \in Runs, p \in Paths :
    /\ before[r][p] # r
    /\ pc[r] = "idle" => files[p] # r
    /\ pc[r] \notin Ended => \A s \in Runs : before[s][p] # r

Present(f) == {p \in Paths : f[p] # None}

(* What is on the disk at each step of a call. *)
DiskAt ==
  \A r \in Runs :
    /\ pc[r] \in {"idle", "check", "look"} => temps[r] = {} /\ baks[r] = NoFiles
    /\ pc[r] = "write" => baks[r] = NoFiles /\ temps[r] \in {{}, {"secret"}}
    /\ pc[r] \in {"check", "look", "write", "back", "failing"} => files = before[r]
    /\ pc[r] \in {"write", "back", "half", "rollback"} => existed[r] = Present(before[r])
    /\ pc[r] \in {"half", "rollback"} =>
         /\ files = [before[r] EXCEPT !["secret"] = r]
         /\ baks[r] = before[r]
    /\ pc[r] = "placed" => files = [p \in Paths |-> r]

(* A call without --force that gets past the check found no file. *)
FreeWithoutForce ==
  \A r \in Runs :
    Active(r) /\ pc[r] \notin {"check", "interrupting"} /\ ~force[r] => before[r] = NoFiles

IInv ==
  /\ TypeOK
  /\ OneActive
  /\ BacksUpWhatItFound
  /\ Fresh
  /\ DiskAt
  /\ FreeWithoutForce
  /\ NothingLeftOver
------------------------------------------------------------------------------
LEMMA Initially == Init => IInv
<1> SUFFICES ASSUME Init PROVE IInv
  OBVIOUS
<1> USE KeyUpgradeAssumption DEF Init, Pairs, Paths, NoFiles
<1>1. TypeOK
  BY DEF TypeOK
<1>2. OneActive /\ BacksUpWhatItFound /\ DiskAt /\ FreeWithoutForce /\ NothingLeftOver
  BY DEF OneActive, BacksUpWhatItFound, DiskAt, FreeWithoutForce, NothingLeftOver, Active,
         Trying, Ending, Ended
<1>3. Fresh
  BY DEF Fresh, Ended
<1>4. QED
  BY <1>1, <1>2, <1>3 DEF IInv

(* One step of one call keeps the invariant. *)
LEMMA Keeps ==
  ASSUME ~Overlap, IInv, NEW r \in Runs, Step(r) \/ Interrupt(r) \/ Kill(r)
  PROVE  IInv'
<1> USE KeyUpgradeAssumption DEF IInv, Paths, NoFiles, Goto, Active, Trying, Ending, Ended
<1>1. CASE Call(r)
  <2>1. TypeOK'
    BY <1>1 DEF Call, NoFiles, TypeOK, Pairs, Fresh, BacksUpWhatItFound, DiskAt
  <2>2. OneActive'
    BY <1>1, SMTT(30) DEF Call, NoFiles, OneActive, TypeOK
  <2>3. BacksUpWhatItFound'
    BY <1>1 DEF Call, NoFiles, BacksUpWhatItFound, TypeOK, DiskAt
  <2>4. Fresh'
    BY <1>1 DEF Call, NoFiles, Fresh, TypeOK, OneActive, DiskAt, BacksUpWhatItFound
  <2>5. DiskAt'
    BY <1>1 DEF Call, NoFiles, DiskAt, TypeOK, OneActive, Present, Fresh, BacksUpWhatItFound
  <2>6. FreeWithoutForce'
    BY <1>1 DEF Call, NoFiles, FreeWithoutForce, TypeOK, DiskAt
  <2>7. NothingLeftOver'
    BY <1>1 DEF Call, NoFiles, NothingLeftOver, TypeOK, DiskAt
  <2>8. QED
    BY <2>1, <2>2, <2>3, <2>4, <2>5, <2>6, <2>7
<1>2. CASE Prepare(r)
  <2>1. TypeOK'
    BY <1>2 DEF Prepare, MayWrite, TypeOK, Pairs, Fresh, BacksUpWhatItFound, DiskAt
  <2>2. OneActive'
    BY <1>2 DEF Prepare, MayWrite, OneActive, TypeOK
  <2>3. BacksUpWhatItFound'
    BY <1>2 DEF Prepare, MayWrite, BacksUpWhatItFound, TypeOK, DiskAt
  <2>4. Fresh'
    BY <1>2 DEF Prepare, MayWrite, Fresh, TypeOK, OneActive, DiskAt, BacksUpWhatItFound
  <2>5. DiskAt'
    BY <1>2 DEF Prepare, MayWrite, DiskAt, TypeOK, OneActive, Present, Fresh, BacksUpWhatItFound
  <2>6. FreeWithoutForce'
    BY <1>2 DEF Prepare, MayWrite, FreeWithoutForce, TypeOK, DiskAt
  <2>7. NothingLeftOver'
    BY <1>2 DEF Prepare, MayWrite, NothingLeftOver, TypeOK, DiskAt
  <2>8. QED
    BY <2>1, <2>2, <2>3, <2>4, <2>5, <2>6, <2>7
<1>3. CASE Refuse(r)
  <2>1. TypeOK'
    BY <1>3 DEF Refuse, TypeOK, Pairs, Fresh, BacksUpWhatItFound, DiskAt
  <2>2. OneActive'
    BY <1>3 DEF Refuse, OneActive, TypeOK
  <2>3. BacksUpWhatItFound'
    BY <1>3 DEF Refuse, BacksUpWhatItFound, TypeOK, DiskAt
  <2>4. Fresh'
    BY <1>3 DEF Refuse, Fresh, TypeOK, OneActive, DiskAt, BacksUpWhatItFound
  <2>5. DiskAt'
    BY <1>3 DEF Refuse, DiskAt, TypeOK, OneActive, Present, Fresh, BacksUpWhatItFound
  <2>6. FreeWithoutForce'
    BY <1>3 DEF Refuse, FreeWithoutForce, TypeOK, DiskAt
  <2>7. NothingLeftOver'
    BY <1>3 DEF Refuse, NothingLeftOver, TypeOK, DiskAt
  <2>8. QED
    BY <2>1, <2>2, <2>3, <2>4, <2>5, <2>6, <2>7
<1>4. CASE Look(r)
  <2>1. TypeOK'
    BY <1>4 DEF Look, TypeOK, Pairs, Fresh, BacksUpWhatItFound, DiskAt
  <2>2. OneActive'
    BY <1>4 DEF Look, OneActive, TypeOK
  <2>3. BacksUpWhatItFound'
    BY <1>4 DEF Look, BacksUpWhatItFound, TypeOK, DiskAt
  <2>4. Fresh'
    BY <1>4 DEF Look, Fresh, TypeOK, OneActive, DiskAt, BacksUpWhatItFound
  <2>5. DiskAt'
    BY <1>4 DEF Look, DiskAt, TypeOK, OneActive, Present, Fresh, BacksUpWhatItFound
  <2>6. FreeWithoutForce'
    BY <1>4 DEF Look, FreeWithoutForce, TypeOK, DiskAt
  <2>7. NothingLeftOver'
    BY <1>4 DEF Look, NothingLeftOver, TypeOK, DiskAt
  <2>8. QED
    BY <2>1, <2>2, <2>3, <2>4, <2>5, <2>6, <2>7
<1>5. CASE WriteTemp(r)
  <2>1. TypeOK'
    BY <1>5 DEF WriteTemp, TypeOK, Pairs, Fresh, BacksUpWhatItFound, DiskAt
  <2>2. OneActive'
    BY <1>5 DEF WriteTemp, OneActive, TypeOK
  <2>3. BacksUpWhatItFound'
    BY <1>5 DEF WriteTemp, BacksUpWhatItFound, TypeOK, DiskAt
  <2>4. Fresh'
    BY <1>5 DEF WriteTemp, Fresh, TypeOK, OneActive, DiskAt, BacksUpWhatItFound
  <2>5. DiskAt'
    BY <1>5 DEF WriteTemp, DiskAt, TypeOK, OneActive, Present, Fresh, BacksUpWhatItFound
  <2>6. FreeWithoutForce'
    BY <1>5 DEF WriteTemp, FreeWithoutForce, TypeOK, DiskAt
  <2>7. NothingLeftOver'
    BY <1>5 DEF WriteTemp, NothingLeftOver, TypeOK, DiskAt
  <2>8. QED
    BY <2>1, <2>2, <2>3, <2>4, <2>5, <2>6, <2>7
<1>6. CASE Backup(r)
  <2>1. TypeOK'
    BY <1>6 DEF Backup, Unsaved, TypeOK, Pairs, Fresh, BacksUpWhatItFound, DiskAt
  <2>2. OneActive'
    BY <1>6 DEF Backup, Unsaved, OneActive, TypeOK
  <2>3. BacksUpWhatItFound'
    BY <1>6 DEF Backup, Unsaved, BacksUpWhatItFound, TypeOK, DiskAt
  <2>4. Fresh'
    BY <1>6 DEF Backup, Unsaved, Fresh, TypeOK, OneActive, DiskAt, BacksUpWhatItFound
  <2>5. DiskAt'
    BY <1>6 DEF Backup, Unsaved, DiskAt, TypeOK, OneActive, Present, Fresh, BacksUpWhatItFound
  <2>6. FreeWithoutForce'
    BY <1>6 DEF Backup, Unsaved, FreeWithoutForce, TypeOK, DiskAt
  <2>7. NothingLeftOver'
    BY <1>6 DEF Backup, Unsaved, NothingLeftOver, TypeOK, DiskAt
  <2>8. QED
    BY <2>1, <2>2, <2>3, <2>4, <2>5, <2>6, <2>7
<1>7. CASE PlaceSecret(r)
  <2>1. TypeOK'
    BY <1>7 DEF PlaceSecret, Place, Saved, Unsaved, TypeOK, Pairs, Fresh, BacksUpWhatItFound, DiskAt
  <2>2. OneActive'
    BY <1>7 DEF PlaceSecret, Place, Saved, Unsaved, OneActive, TypeOK
  <2>3. BacksUpWhatItFound'
    BY <1>7 DEF PlaceSecret, Place, Saved, Unsaved, BacksUpWhatItFound, TypeOK, DiskAt
  <2>4. Fresh'
    BY <1>7 DEF PlaceSecret, Place, Saved, Unsaved, Fresh, TypeOK, OneActive, DiskAt, BacksUpWhatItFound
  <2>5. DiskAt'
    <3>1. files = before[r] /\ existed[r] = Present(before[r])
      BY <1>7 DEF PlaceSecret, DiskAt
    <3>2. \A p \in Paths : baks[r][p] = before[r][p]
      BY <1>7, <3>1 DEF PlaceSecret, Saved, Unsaved, Present, BacksUpWhatItFound
    <3>3. baks[r] = before[r]
      BY <3>2 DEF TypeOK
    <3>4. files' = [before[r] EXCEPT !["secret"] = r] /\ pc' = [pc EXCEPT ![r] = "half"]
      BY <1>7, <3>1 DEF PlaceSecret, Place
    <3>5. \A s \in Runs : s # r => /\ pc'[s] \in {"idle"} \cup Ended
                                  /\ pc'[s] = pc[s] /\ temps'[s] = temps[s]
      BY <1>7 DEF PlaceSecret, Place, OneActive, TypeOK
    <3>6. pc'[r] = "half" /\ UNCHANGED <<baks, before, existed>>
      BY <1>7, <3>4 DEF PlaceSecret, Place, TypeOK
    <3>7. QED
      BY <3>1, <3>3, <3>4, <3>5, <3>6 DEF DiskAt
  <2>6. FreeWithoutForce'
    BY <1>7 DEF PlaceSecret, Place, Saved, Unsaved, FreeWithoutForce, TypeOK, DiskAt
  <2>7. NothingLeftOver'
    BY <1>7 DEF PlaceSecret, Place, Saved, Unsaved, NothingLeftOver, TypeOK, DiskAt
  <2>8. QED
    BY <2>1, <2>2, <2>3, <2>4, <2>5, <2>6, <2>7
<1>8. CASE PlacePublic(r)
  <2>1. TypeOK'
    BY <1>8 DEF PlacePublic, Place, TypeOK, Pairs, Fresh, BacksUpWhatItFound, DiskAt
  <2>2. OneActive'
    BY <1>8 DEF PlacePublic, Place, OneActive, TypeOK
  <2>3. BacksUpWhatItFound'
    BY <1>8 DEF PlacePublic, Place, BacksUpWhatItFound, TypeOK, DiskAt
  <2>4. Fresh'
    BY <1>8 DEF PlacePublic, Place, Fresh, TypeOK, OneActive, DiskAt, BacksUpWhatItFound
  <2>5. DiskAt'
    <3>1. files' = [p \in Paths |-> r] /\ pc' = [pc EXCEPT ![r] = "placed"]
      <4>1. files["secret"] = r /\ DOMAIN files = Paths
        BY <1>8 DEF PlacePublic, DiskAt, TypeOK
      <4>2. QED
        BY <1>8, <4>1 DEF PlacePublic, Place
    <3>2. \A s \in Runs : s # r => /\ pc'[s] \in {"idle"} \cup Ended
                                  /\ pc'[s] = pc[s] /\ temps'[s] = temps[s]
      BY <1>8 DEF PlacePublic, Place, OneActive, TypeOK
    <3>3. pc'[r] = "placed" /\ UNCHANGED <<baks, before, existed>>
      BY <1>8, <3>1 DEF PlacePublic, Place, TypeOK
    <3>4. QED
      BY <3>1, <3>2, <3>3 DEF DiskAt
  <2>6. FreeWithoutForce'
    BY <1>8 DEF PlacePublic, Place, FreeWithoutForce, TypeOK, DiskAt
  <2>7. NothingLeftOver'
    BY <1>8 DEF PlacePublic, Place, NothingLeftOver, TypeOK, DiskAt
  <2>8. QED
    BY <2>1, <2>2, <2>3, <2>4, <2>5, <2>6, <2>7
<1>9. CASE OSError(r)
  <2>1. TypeOK'
    BY <1>9 DEF OSError, TypeOK, Pairs, Fresh, BacksUpWhatItFound, DiskAt
  <2>2. OneActive'
    BY <1>9 DEF OSError, OneActive, TypeOK
  <2>3. BacksUpWhatItFound'
    BY <1>9 DEF OSError, BacksUpWhatItFound, TypeOK, DiskAt
  <2>4. Fresh'
    BY <1>9 DEF OSError, Fresh, TypeOK, OneActive, DiskAt, BacksUpWhatItFound
  <2>5. DiskAt'
    BY <1>9 DEF OSError, DiskAt, TypeOK, OneActive, Present, Fresh, BacksUpWhatItFound
  <2>6. FreeWithoutForce'
    BY <1>9 DEF OSError, FreeWithoutForce, TypeOK, DiskAt
  <2>7. NothingLeftOver'
    BY <1>9 DEF OSError, NothingLeftOver, TypeOK, DiskAt
  <2>8. QED
    BY <2>1, <2>2, <2>3, <2>4, <2>5, <2>6, <2>7
<1>10. CASE RollBack(r)
  <2>0. files' = before[r]
    <3>1. /\ files = [before[r] EXCEPT !["secret"] = r]
          /\ baks[r] = before[r]
          /\ existed[r] = Present(before[r])
      BY <1>10 DEF RollBack, DiskAt
    <3>2. files' = [files EXCEPT !["secret"] = before[r]["secret"]]
      BY <1>10, <3>1 DEF RollBack, Present
    <3>3. QED
      BY <3>1, <3>2 DEF TypeOK
  <2>1. TypeOK'
    <3>1. baks' \in [Runs -> [Paths -> Pairs \cup {None}]]
      BY <1>10 DEF RollBack, TypeOK
    <3>2. \A s \in Runs, p \in Paths : baks'[s][p] # s
      BY <1>10 DEF RollBack, TypeOK
    <3>3. QED
      BY <1>10, <2>0, <3>1, <3>2 DEF RollBack, TypeOK
  <2>2. OneActive'
    BY <1>10 DEF RollBack, OneActive, TypeOK
  <2>3. BacksUpWhatItFound'
    BY <1>10 DEF RollBack, BacksUpWhatItFound, TypeOK, DiskAt
  <2>4. Fresh'
    BY <1>10 DEF RollBack, Fresh, TypeOK, OneActive, DiskAt, BacksUpWhatItFound
  <2>5. DiskAt'
    <3>1. \A s \in Runs : s # r => ~Active(s) /\ baks'[s] = baks[s]
      BY <1>10 DEF RollBack, OneActive, TypeOK
    <3>2. QED
      BY <1>10, <2>0, <3>1 DEF RollBack, DiskAt, TypeOK
  <2>6. FreeWithoutForce'
    BY <1>10 DEF RollBack, FreeWithoutForce, TypeOK, DiskAt
  <2>7. NothingLeftOver'
    BY <1>10, ZenonT(30) DEF RollBack, NothingLeftOver, TypeOK, DiskAt
  <2>8. QED
    BY <2>1, <2>2, <2>3, <2>4, <2>5, <2>6, <2>7
<1>11. CASE RollBackFails(r)
  <2>1. TypeOK'
    BY <1>11 DEF RollBackFails, TypeOK, Pairs, Fresh, BacksUpWhatItFound, DiskAt
  <2>2. OneActive'
    BY <1>11 DEF RollBackFails, OneActive, TypeOK
  <2>3. BacksUpWhatItFound'
    BY <1>11 DEF RollBackFails, BacksUpWhatItFound, TypeOK, DiskAt
  <2>4. Fresh'
    BY <1>11 DEF RollBackFails, Fresh, TypeOK, OneActive, DiskAt, BacksUpWhatItFound
  <2>5. DiskAt'
    BY <1>11 DEF RollBackFails, DiskAt, TypeOK, OneActive, Present, Fresh, BacksUpWhatItFound
  <2>6. FreeWithoutForce'
    BY <1>11 DEF RollBackFails, FreeWithoutForce, TypeOK, DiskAt
  <2>7. NothingLeftOver'
    BY <1>11 DEF RollBackFails, NothingLeftOver, TypeOK, DiskAt
  <2>8. QED
    BY <2>1, <2>2, <2>3, <2>4, <2>5, <2>6, <2>7
<1>12. CASE CleanUp(r)
  <2>1. TypeOK'
    BY <1>12 DEF CleanUp, TypeOK, Pairs, Fresh, BacksUpWhatItFound, DiskAt
  <2>2. OneActive'
    BY <1>12 DEF CleanUp, OneActive, TypeOK
  <2>3. BacksUpWhatItFound'
    BY <1>12 DEF CleanUp, BacksUpWhatItFound, TypeOK, DiskAt
  <2>4. Fresh'
    BY <1>12 DEF CleanUp, Fresh, TypeOK, OneActive, DiskAt, BacksUpWhatItFound
  <2>5. DiskAt'
    BY <1>12 DEF CleanUp, DiskAt, TypeOK, OneActive, Present, Fresh, BacksUpWhatItFound
  <2>6. FreeWithoutForce'
    BY <1>12 DEF CleanUp, FreeWithoutForce, TypeOK, DiskAt
  <2>7. NothingLeftOver'
    BY <1>12 DEF CleanUp, NothingLeftOver, TypeOK, DiskAt
  <2>8. QED
    BY <2>1, <2>2, <2>3, <2>4, <2>5, <2>6, <2>7
<1>13. CASE Interrupt(r)
  <2>1. TypeOK'
    BY <1>13 DEF Interrupt, TypeOK, Pairs, Fresh, BacksUpWhatItFound, DiskAt
  <2>2. OneActive'
    BY <1>13 DEF Interrupt, OneActive, TypeOK
  <2>3. BacksUpWhatItFound'
    BY <1>13 DEF Interrupt, BacksUpWhatItFound, TypeOK, DiskAt
  <2>4. Fresh'
    BY <1>13 DEF Interrupt, Fresh, TypeOK, OneActive, DiskAt, BacksUpWhatItFound
  <2>5. DiskAt'
    BY <1>13 DEF Interrupt, DiskAt, TypeOK, OneActive, Present, Fresh, BacksUpWhatItFound
  <2>6. FreeWithoutForce'
    BY <1>13 DEF Interrupt, FreeWithoutForce, TypeOK, DiskAt
  <2>7. NothingLeftOver'
    BY <1>13 DEF Interrupt, NothingLeftOver, TypeOK, DiskAt
  <2>8. QED
    BY <2>1, <2>2, <2>3, <2>4, <2>5, <2>6, <2>7
<1>14. CASE Kill(r)
  <2>1. TypeOK'
    BY <1>14 DEF Kill, TypeOK, Pairs, Fresh, BacksUpWhatItFound, DiskAt
  <2>2. OneActive'
    BY <1>14 DEF Kill, OneActive, TypeOK
  <2>3. BacksUpWhatItFound'
    BY <1>14 DEF Kill, BacksUpWhatItFound, TypeOK, DiskAt
  <2>4. Fresh'
    BY <1>14 DEF Kill, Fresh, TypeOK, OneActive, DiskAt, BacksUpWhatItFound
  <2>5. DiskAt'
    BY <1>14 DEF Kill, DiskAt, TypeOK, OneActive, Present, Fresh, BacksUpWhatItFound
  <2>6. FreeWithoutForce'
    BY <1>14 DEF Kill, FreeWithoutForce, TypeOK, DiskAt
  <2>7. NothingLeftOver'
    BY <1>14 DEF Kill, NothingLeftOver, TypeOK, DiskAt
  <2>8. QED
    BY <2>1, <2>2, <2>3, <2>4, <2>5, <2>6, <2>7
<1>15. QED
  BY <1>1, <1>2, <1>3, <1>4, <1>5, <1>6, <1>7, <1>8, <1>9, <1>10, <1>11, <1>12, <1>13, <1>14 DEF Step
------------------------------------------------------------------------------
LEMMA Invariant ==
  ASSUME ~Overlap
  PROVE  Spec => []IInv
<1>1. IInv /\ [Next]_vars => IInv'
  <2> SUFFICES ASSUME IInv, [Next]_vars PROVE IInv'
    OBVIOUS
  <2>1. CASE Next
    BY <2>1, Keeps DEF Next
  <2>2. CASE UNCHANGED vars
    BY <2>2 DEF vars, IInv, TypeOK, OneActive, BacksUpWhatItFound, Fresh, DiskAt,
                FreeWithoutForce, NothingLeftOver, Active
  <2>3. QED
    BY <2>1, <2>2
<1>2. QED
  BY Initially, <1>1, PTL DEF Spec

(* Calls that have ended leave nothing behind, but the one backup that is the
   only copy of what could not be put back: CleanUp and RollBackFails. *)
THEOREM LeavesNothing ==
  ASSUME ~Overlap
  PROVE  Spec => [](TypeOK /\ NothingLeftOver)
BY Invariant, PTL DEF IInv

(* An error means the outputs are as they were, success that they are the new
   pair: the rollback undoes exactly what was placed. *)
THEOREM OutcomesAreTrue ==
  ASSUME ~Overlap
  PROVE  Spec => OutcomeIsTrue
<1>1. IInv /\ [Next]_vars => [SaysWhatItDid]_vars
  <2> SUFFICES ASSUME IInv, Next PROVE SaysWhatItDid
    OBVIOUS
  <2>1. PICK q \in Runs : Step(q) \/ Interrupt(q) \/ Kill(q)
    BY DEF Next
  <2> USE DEF Goto, IInv, TypeOK, DiskAt, Ended, SaysWhatItDid
  <2>2. CASE Refuse(q)
    BY <2>2 DEF Refuse
  <2>3. CASE CleanUp(q)
    BY <2>3 DEF CleanUp
  <2>4. CASE Call(q) \/ Prepare(q) \/ Look(q) \/ WriteTemp(q) \/ Backup(q)
    BY <2>4 DEF Call, Prepare, Look, WriteTemp, Backup
  <2>5. CASE PlaceSecret(q) \/ PlacePublic(q) \/ OSError(q)
    BY <2>5 DEF PlaceSecret, PlacePublic, OSError
  <2>6. CASE RollBack(q) \/ RollBackFails(q) \/ Interrupt(q) \/ Kill(q)
    BY <2>6 DEF RollBack, RollBackFails, Interrupt, Kill
  <2>7. QED
    BY <2>1, <2>2, <2>3, <2>4, <2>5, <2>6 DEF Step
<1>2. QED
  BY Invariant, <1>1, PTL DEF OutcomeIsTrue, Spec

(* Without --force a file that was there is not touched by any step, those of a
   failing call included. *)
THEOREM ForceOnly ==
  ASSUME ~Overlap
  PROVE  Spec => OnlyForceReplaces
<1>1. IInv => [LeavesForeignFiles]_vars
  <2> SUFFICES ASSUME IInv, NEW r \in Runs, NEW p \in Paths,
                      Step(r), ~force[r], files[p] \notin {None, r}
               PROVE  files'[p] = files[p]
    BY DEF LeavesForeignFiles
  <2> USE DEF IInv, DiskAt, FreeWithoutForce, Active, Trying, Ending, Paths, NoFiles
  <2>1. CASE PlaceSecret(r)
    BY <2>1 DEF PlaceSecret
  <2>2. CASE PlacePublic(r)
    <3>1. before[r] = NoFiles /\ files = [before[r] EXCEPT !["secret"] = r]
      BY <2>2 DEF PlacePublic
    <3>2. files[p] \in {None, r}
      BY <3>1
    <3>3. QED
      BY <3>2
  <2>3. CASE RollBack(r)
    <3>1. before[r] = NoFiles /\ files = [before[r] EXCEPT !["secret"] = r]
      BY <2>3 DEF RollBack
    <3>2. files[p] \in {None, r}
      BY <3>1
    <3>3. QED
      BY <3>2
  <2>4. CASE UNCHANGED files
    BY <2>4
  <2>5. QED
    BY <2>1, <2>2, <2>3, <2>4 DEF Step, Call, Prepare, Refuse, Look, WriteTemp, Backup, OSError,
       RollBackFails, CleanUp
<1>2. QED
  BY Invariant, <1>1, PTL DEF OnlyForceReplaces

(* The secret key a call replaces stays in a backup until the new pair is
   complete or the old one is back: Backup comes before PlaceSecret, and every
   end of a call but an interrupt respects it. *)
THEOREM SecretsKept ==
  ASSUME ~Overlap
  PROVE  Spec => SecretKept
<1>1. IInv /\ [Next]_vars => [KeepsLastCopy]_vars
  <2> SUFFICES ASSUME IInv, Next, NEW k \in Found \cap SavedSecrets, ~Matched',
                      \A r \in Runs : pc'[r] = "interrupted" => pc[r] = "interrupted"
               PROVE  k \in SavedSecrets'
    BY DEF KeepsLastCopy
  <2>1. PICK r \in Runs : Step(r) \/ Interrupt(r) \/ Kill(r)
    BY DEF Next
  <2>2. k \in Pairs /\ k # None
    BY KeyUpgradeAssumption DEF Found, SavedSecrets, Pairs
  <2>3. Active(r) => k # r
    BY DEF Active, IInv, Fresh, Found, Trying, Ending, Ended, Paths
  <2>4. SUFFICES \/ files'["secret"] = k
                 \/ \E s \in Runs : baks'[s]["secret"] = k
    BY <2>2 DEF SavedSecrets
  <2>5. \/ files["secret"] = k
        \/ \E s \in Runs : baks[s]["secret"] = k
    BY DEF SavedSecrets
  <2>6. CASE UNCHANGED <<files, baks>>
    BY <2>5, <2>6
  <2> USE DEF Active, Trying, Ending
  <2>7. CASE Backup(r)
    <3>1. ASSUME NEW s \in Runs, baks[s]["secret"] = k PROVE baks'[s]["secret"] = k
      BY <2>7, <2>2, <3>1 DEF Backup, Unsaved, IInv, TypeOK, Paths
    <3>2. QED
      BY <2>5, <2>7, <3>1 DEF Backup
  <2>8. CASE PlaceSecret(r)
    <3>1. files = before[r] /\ existed[r] = Present(before[r])
      BY <2>8 DEF PlaceSecret, IInv, DiskAt
    <3>2. files["secret"] = k => baks[r]["secret"] = k
      BY <2>2, <2>8, <3>1 DEF PlaceSecret, Saved, Unsaved, Present, IInv, BacksUpWhatItFound, Paths
    <3>3. QED
      BY <2>5, <2>8, <3>2 DEF PlaceSecret, Place
  <2>9. CASE PlacePublic(r)
    <3>1. files["secret"] = r
      BY <2>9 DEF PlacePublic, IInv, DiskAt, TypeOK, Paths
    <3>2. Matched'
      BY <2>9, <3>1, KeyUpgradeAssumption DEF PlacePublic, Place, Matched, IInv, TypeOK, Paths
    <3>3. QED
      BY <3>2
  <2>10. CASE RollBack(r)
    <3>1. files["secret"] = r
      BY <2>10 DEF RollBack, IInv, DiskAt, TypeOK, Paths
    <3>2. \/ baks[r]["secret"] = k /\ files'["secret"] = k
          \/ \E s \in Runs : s # r /\ baks[s]["secret"] = k /\ baks'[s] = baks[s]
      BY <2>2, <2>3, <2>5, <2>10, <3>1 DEF RollBack, IInv, TypeOK, Paths
    <3>3. QED
      BY <3>2
  <2>11. CASE RollBackFails(r)
    BY <2>5, <2>11 DEF RollBackFails, IInv, TypeOK, Paths
  <2>12. CASE CleanUp(r)
    <3>1. CASE pc[r] = "placed"
      BY <2>12, <3>1, KeyUpgradeAssumption DEF CleanUp, Matched, IInv, DiskAt, Paths
    <3>2. CASE pc[r] = "failing"
      <4>1. files = before[r] /\ baks[r]["secret"] \in {None, before[r]["secret"]}
        BY <3>2 DEF IInv, DiskAt, BacksUpWhatItFound, Paths
      <4>2. \A s \in Runs : s # r => baks'[s] = baks[s]
        BY <2>12 DEF CleanUp, IInv, TypeOK
      <4>3. files' = files
        BY <2>12 DEF CleanUp
      <4>4. QED
        BY <2>2, <2>5, <4>1, <4>2, <4>3
    <3>3. CASE pc[r] = "interrupting"
      BY <2>12, <3>3 DEF CleanUp, Goto, IInv, TypeOK
    <3>4. QED
      BY <2>12, <3>1, <3>2, <3>3 DEF CleanUp
  <2>13. QED
    BY <2>1, <2>6, <2>7, <2>8, <2>9, <2>10, <2>11, <2>12
       DEF Step, Call, Prepare, Refuse, Look, WriteTemp, OSError, Interrupt, Kill
<1>2. QED
  BY Invariant, <1>1, PTL DEF SecretKept, Spec
==============================================================================
