------------------------ MODULE MigrationManagerProofs ------------------------
(***************************************************************************)
(* What holds of MigrationManager for every set of keys, threads and       *)
(* processes, every bound and every inherited store.                       *)
(***************************************************************************)
EXTENDS MigrationManager, SequenceTheorems, FiniteSetTheorems, TLAPS

(* A thread inside a call has counted it, and its request passed the
   validation: what TypeOK needs to be inductive, and what makes the record
   of the call a legal one. *)
InCall(t) ==
  pc[t] # "idle" => /\ call[t] \in CallArgs
                    /\ Accepted(call[t].req)
                    /\ calls[t] >= 1

(* With compare_and_set no thread takes a step of the unlocked path, and one
   about to commit read a history its record may continue. *)
AboutToCommit(t) ==
  kind = "cas" => /\ pc[t] \notin PlainSteps
                  /\ pc[t] = "legacy" => ~Known(snapshot[t])
                  /\ pc[t] = "commit" /\ Known(snapshot[t])
                       => ~Stale(t, snapshot[t][Len(snapshot[t])])

Chained == kind = "cas" => \A k \in Keys : Breaks(history[k]) = {}

IInv == TypeOK /\ Chained /\ \A t \in Threads : InCall(t) /\ AboutToCommit(t)
------------------------------------------------------------------------------
(* The record of a call that passed the validation is a legal record. *)
LEMMA NewRecordLegal ==
  ASSUME TypeOK, NEW t \in Threads, InCall(t), pc[t] # "idle"
  PROVE  /\ NewRecord(t) \in Record
         /\ LegalRecord(NewRecord(t))
         /\ NewRecord(t).from = call[t].req.from
         /\ call[t].key \in Keys
  BY DEF TypeOK, InCall, CallArgs, Request, Record, NewRecord, Id, Accepted, LegalRecord, IsForward

(* Appending a record that continues a log adds no break. *)
LEMMA AppendKeepsChain ==
  ASSUME NEW log \in Seq(Entry), NEW rec \in Record, Breaks(log) = {},
         Known(log) => log[Len(log)] \notin Record \/ log[Len(log)].to = rec.from
  PROVE  Breaks(Append(log, rec)) = {}
<1>1. Append(log, rec) \in Seq(Entry) /\ Len(Append(log, rec)) = Len(log) + 1
  BY AppendProperties DEF Entry
<1>2. SUFFICES ASSUME NEW i \in Breaks(Append(log, rec)) PROVE FALSE
  OBVIOUS
<1>3. i \in 1..Len(log)
  BY <1>1, <1>2, LenProperties DEF Breaks
<1>4. Append(log, rec)[i] = log[i]
  BY <1>3, AppendProperties DEF Entry
<1>5. CASE i = Len(log)
  <2>1. Append(log, rec)[i+1] = rec
    BY <1>5, AppendProperties DEF Entry
  <2>2. log # <<>>
    BY <1>3, <1>5
  <2>3. log[i] \in Record /\ log[i].to # rec.from
    BY <1>2, <1>4, <2>1 DEF Breaks
  <2> QED
    BY <1>5, <2>2, <2>3, ManagerAssumption DEF Known
<1>6. CASE i # Len(log)
  <2>1. i \in 1..(Len(log) - 1) /\ i + 1 \in 1..Len(log)
    BY <1>3, <1>6, LenProperties
  <2>2. Append(log, rec)[i+1] = log[i+1]
    BY <2>1, AppendProperties DEF Entry
  <2>3. i \in Breaks(log)
    BY <1>2, <1>4, <2>1, <2>2 DEF Breaks
  <2> QED
    BY <2>3
<1> QED
  BY <1>5, <1>6
------------------------------------------------------------------------------
(* Nobody changes the kind of the store. *)
LEMMA StoreKindFixed ==
  ASSUME [Next]_vars
  PROVE  UNCHANGED kind
BY DEF Next, Step, CasStep, PlainStep, Rest, Call, Lock, ReadHistory, ReadLegacy, Commit, LoseRace,
   CheckCurrent, LoadHistory, StoreHistory, WriteCurrent, StoreFault, ReadSwallowed, Crash, store, vars

(* Leaving transition() keeps every variable in its range. *)
LEMMA ReturnTyped ==
  ASSUME TypeOK, NEW t \in Threads, NEW r \in Outcomes, Return(t, r),
         UNCHANGED <<store, calls, acked>>, failures' \in 0..MaxFailures
  PROVE  TypeOK'
<1>1. /\ pc' \in [Threads -> Unlocked \cup CasSteps \cup PlainSteps \cup {"copy"}]
      /\ call' \in [Threads -> CallArgs \cup {NoCall}]
      /\ snapshot' \in [Threads -> Seq(Entry)]
      /\ outcome' \in [Threads -> Outcomes]
  BY DEF TypeOK, Return, Unlocked
<1>2. attempts' \in [Threads -> 0..(MaxAttempts - 1)]
  BY ManagerAssumption DEF TypeOK, Return
<1>3. \A u \in Threads : pc'[u] # "idle" => call'[u] \in CallArgs
  BY DEF TypeOK, Return
<1>4. unseen' \subseteq Threads
  BY DEF TypeOK, Return
<1> QED
  BY <1>1, <1>2, <1>3, <1>4 DEF TypeOK, store

LEMMA InitIInv == Init => IInv
<1> SUFFICES ASSUME Init PROVE IInv
  OBVIOUS
<1>1. PICK s \in [Keys -> InitialStores] :
        /\ history = [k \in Keys |-> s[k].history]
        /\ current = [k \in Keys |-> s[k].current]
        /\ readable = [k \in Keys |-> s[k].readable]
  BY DEF Init
<1>2. \A k \in Keys : s[k] \in [history: Seq(Entry), current: Copy, readable: BOOLEAN]
  BY ManagerAssumption
<1>3. TypeOK
  BY <1>1, <1>2, ManagerAssumption DEF Init, TypeOK, Unlocked, Outcomes
<1>4. Chained
  BY <1>1, InheritedAssumption DEF Chained
<1>5. \A t \in Threads : InCall(t) /\ AboutToCommit(t)
  BY DEF Init, InCall, AboutToCommit, PlainSteps
<1> QED
  BY <1>3, <1>4, <1>5 DEF IInv

LEMMA NextIInv == IInv /\ [Next]_vars => IInv'
<1> SUFFICES ASSUME IInv, [Next]_vars PROVE IInv'
  OBVIOUS
<1>0. kind' = kind
  BY StoreKindFixed
<1> USE ManagerAssumption, <1>0
<1>1. ASSUME NEW t \in Threads, Call(t) PROVE IInv'
  <2>1. TypeOK'
    <3>1. calls' \in [Threads -> 0..MaxCalls]
      BY <1>1 DEF IInv, TypeOK, Call
    <3>2. /\ pc' \in [Threads -> Unlocked \cup CasSteps \cup PlainSteps \cup {"copy"}]
          /\ outcome' \in [Threads -> Outcomes]
      BY <1>1 DEF IInv, TypeOK, Call, Goto, Unlocked, Outcomes
    <3>3. \A k \in Keys, r \in Requests : [key |-> k, req |-> r] \in CallArgs
      BY DEF CallArgs
    <3>4. /\ call' \in [Threads -> CallArgs \cup {NoCall}]
          /\ \A u \in Threads : pc'[u] # "idle" => call'[u] \in CallArgs
      <4>1. PICK k \in Keys, r \in Requests :
              \/ /\ pc' = [pc EXCEPT ![t] = "lock"]
                 /\ call' = [call EXCEPT ![t] = [key |-> k, req |-> r]]
              \/ UNCHANGED <<pc, call>>
        BY <1>1 DEF Call, Goto
      <4>2. [key |-> k, req |-> r] \in CallArgs
        BY <3>3
      <4> QED
        BY <4>1, <4>2, ZenonT(30) DEF IInv, TypeOK
    <3> QED
      BY <1>1, <3>1, <3>2, <3>4 DEF IInv, TypeOK, Call, store
  <2>2. Chained'
    BY <1>1 DEF IInv, Chained, Call, store
  <2>3. \A u \in Threads : InCall(u)'
    BY <1>1 DEF IInv, TypeOK, InCall, Call, Goto, CallArgs
  <2>4. \A u \in Threads : AboutToCommit(u)'
    BY <1>1 DEF IInv, TypeOK, AboutToCommit, Call, Goto, PlainSteps, Stale
  <2> QED
    BY <2>1, <2>2, <2>3, <2>4 DEF IInv
<1>2. ASSUME NEW t \in Threads, Lock(t) PROVE IInv'
  <2>1. TypeOK'
    BY <1>2 DEF IInv, TypeOK, Lock, Goto, store, Unlocked, CasSteps, PlainSteps
  <2>2. Chained'
    BY <1>2 DEF IInv, Chained, Lock, store
  <2>3. \A u \in Threads : InCall(u)' /\ AboutToCommit(u)'
    BY <1>2 DEF IInv, TypeOK, InCall, AboutToCommit, Lock, Goto, PlainSteps, Stale
  <2> QED
    BY <2>1, <2>2, <2>3 DEF IInv
<1>3. ASSUME NEW t \in Threads, ReadHistory(t) PROVE IInv'
  <2>1. TypeOK'
    <3>1. CASE Return(t, "unreadable") \/ Return(t, "stale")
      BY <1>3, <3>1, ReturnTyped DEF IInv, TypeOK, ReadHistory, Outcomes
    <3>2. CASE ~(Return(t, "unreadable") \/ Return(t, "stale"))
      <4>1. call[t].key \in Keys /\ history[call[t].key] \in Seq(Entry) /\ pc[t] # "idle"
        BY <1>3 DEF IInv, TypeOK, ReadHistory, CallArgs
      <4>2. snapshot' \in [Threads -> Seq(Entry)]
        BY <1>3, <3>2, <4>1 DEF IInv, TypeOK, ReadHistory
      <4>3. PICK step \in CasSteps : Goto(t, step)
        BY <1>3, <3>2 DEF ReadHistory, CasSteps
      <4> QED
        BY <1>3, <3>2, <4>1, <4>2, <4>3 DEF IInv, TypeOK, ReadHistory, Goto, store, CasSteps
    <3> QED
      BY <3>1, <3>2
  <2>2. Chained'
    BY <1>3 DEF IInv, Chained, ReadHistory, store
  <2>3. \A u \in Threads : InCall(u)'
    BY <1>3 DEF IInv, TypeOK, InCall, ReadHistory, Return, Goto
  <2>4. \A u \in Threads : AboutToCommit(u)'
    <3> DEFINE log == history[call[t].key]
    <3>1. CASE Return(t, "unreadable") \/ Return(t, "stale")
      BY <1>3, <3>1 DEF IInv, TypeOK, AboutToCommit, ReadHistory, Return, PlainSteps, Stale
    <3>2. CASE ~(Return(t, "unreadable") \/ Return(t, "stale"))
      <4>1. /\ pc' = [pc EXCEPT ![t] = IF Known(log) THEN "commit" ELSE "legacy"]
            /\ snapshot' = [snapshot EXCEPT ![t] = log]
            /\ Known(log) => ~Stale(t, log[Len(log)])
            /\ call' = call
        BY <1>3, <3>2 DEF ReadHistory, Goto
      <4>2. /\ pc'[t] = IF Known(log) THEN "commit" ELSE "legacy"
            /\ snapshot'[t] = log
        BY <4>1 DEF IInv, TypeOK
      <4>3. AboutToCommit(t)'
        BY <4>1, <4>2 DEF AboutToCommit, PlainSteps, Stale, Known
      <4>4. \A u \in Threads \ {t} : AboutToCommit(u)'
        BY <4>1 DEF IInv, TypeOK, AboutToCommit, Stale
      <4> QED
        BY <4>3, <4>4
    <3> QED
      BY <3>1, <3>2
  <2> QED
    BY <2>1, <2>2, <2>3, <2>4 DEF IInv
<1>4. ASSUME NEW t \in Threads, ReadLegacy(t) PROVE IInv'
  <2>1. TypeOK'
    <3>1. CASE Return(t, "stale")
      BY <1>4, <3>1, ReturnTyped DEF IInv, TypeOK, ReadLegacy, Outcomes
    <3>2. CASE ~(Return(t, "stale"))
      BY <1>4, <3>2 DEF IInv, TypeOK, ReadLegacy, Goto, store, CasSteps
    <3> QED
      BY <3>1, <3>2
  <2>2. Chained'
    BY <1>4 DEF IInv, Chained, ReadLegacy, store
  <2>3. \A u \in Threads : InCall(u)'
    BY <1>4 DEF IInv, TypeOK, InCall, ReadLegacy, Return, Goto
  <2>4. ASSUME NEW u \in Threads PROVE AboutToCommit(u)'
    <3>1. CASE u # t
      <4>1. pc'[u] = pc[u] /\ call'[u] = call[u] /\ snapshot'[u] = snapshot[u] /\ kind' = kind
        BY <1>4, <3>1 DEF IInv, TypeOK, ReadLegacy, Return, Goto, store
      <4> QED
        BY <4>1 DEF IInv, AboutToCommit, Stale
    <3>2. CASE u = t /\ Return(t, "stale")
      BY <3>2 DEF IInv, TypeOK, AboutToCommit, Return, PlainSteps
    <3>3. CASE u = t /\ ~Return(t, "stale")
      BY <1>4, <3>3 DEF IInv, TypeOK, AboutToCommit, ReadLegacy, Goto, PlainSteps, store
    <3> QED
      BY <3>1, <3>2, <3>3
  <2> QED
    BY <2>1, <2>2, <2>3, <2>4 DEF IInv
<1>5. ASSUME NEW t \in Threads, Commit(t) PROVE IInv'
  <2> DEFINE k == call[t].key
  <2>1. NewRecord(t) \in Record /\ k \in Keys
    BY <1>5, NewRecordLegal DEF IInv, Commit
  <2>2. history[k] \in Seq(Entry) /\ snapshot[t] = history[k]
    BY <1>5, <2>1 DEF IInv, TypeOK, Commit, Unchanged
  <2>3. Append(history[k], NewRecord(t)) \in Seq(Entry)
    BY <2>1, <2>2, AppendProperties DEF Entry
  <2>4. history' = [history EXCEPT ![k] = Append(history[k], NewRecord(t))]
    BY <1>5, <2>2 DEF Commit
  <2>5. TypeOK'
    BY <1>5, <2>1, <2>3, <2>4 DEF IInv, TypeOK, Commit, Goto
  <2>6. Chained'
    <3> SUFFICES ASSUME kind = "cas", NEW l \in Keys PROVE Breaks(history[l])' = {}
      BY DEF Chained
    <3>1. CASE l # k
      BY <2>1, <2>4, <3>1 DEF IInv, TypeOK, Chained, Breaks
    <3>2. CASE l = k
      <4>1. Known(history[k]) => ~Stale(t, history[k][Len(history[k])])
        BY <1>5, <2>2 DEF IInv, AboutToCommit, Commit
      <4>2. NewRecord(t).from = call[t].req.from
        BY DEF NewRecord
      <4>3. Breaks(Append(history[k], NewRecord(t))) = {}
        BY <2>1, <2>2, <4>1, <4>2, AppendKeepsChain DEF IInv, Chained, Stale
      <4>4. history'[k] = Append(history[k], NewRecord(t))
        BY <2>1, <2>4 DEF IInv, TypeOK
      <4> QED
        BY <3>2, <4>3, <4>4 DEF Breaks
    <3> QED
      BY <3>1, <3>2
  <2>7. \A u \in Threads : InCall(u)' /\ AboutToCommit(u)'
    BY <1>5 DEF IInv, TypeOK, InCall, AboutToCommit, Commit, Goto, PlainSteps, Stale
  <2> QED
    BY <2>5, <2>6, <2>7 DEF IInv
<1>6. ASSUME NEW t \in Threads, LoseRace(t) PROVE IInv'
  <2>1. TypeOK'
    <3>1. CASE Return(t, "contended")
      BY <1>6, <3>1, ReturnTyped DEF IInv, TypeOK, LoseRace, Outcomes
    <3>2. CASE ~(Return(t, "contended"))
      <4>1. attempts' \in [Threads -> 0..(MaxAttempts - 1)]
        <5>1. /\ attempts[t] + 1 < MaxAttempts
              /\ attempts' = [attempts EXCEPT ![t] = attempts[t] + 1]
          BY <1>6, <3>2 DEF LoseRace
        <5>2. attempts[t] + 1 \in 0..(MaxAttempts - 1)
          BY <5>1 DEF IInv, TypeOK
        <5> QED
          BY <5>1, <5>2 DEF IInv, TypeOK
      <4>2. pc' = [pc EXCEPT ![t] = "read"] /\ pc[t] # "idle"
        BY <1>6, <3>2 DEF LoseRace, Goto
      <4> QED
        BY <1>6, <3>2, <4>1, <4>2 DEF IInv, TypeOK, LoseRace, store, CasSteps
    <3> QED
      BY <3>1, <3>2
  <2>2. Chained'
    BY <1>6 DEF IInv, Chained, LoseRace, store
  <2>3. \A u \in Threads : InCall(u)' /\ AboutToCommit(u)'
    BY <1>6, ZenonT(30)
       DEF IInv, TypeOK, InCall, AboutToCommit, LoseRace, Return, Goto, PlainSteps, Stale
  <2> QED
    BY <2>1, <2>2, <2>3 DEF IInv
<1>7. ASSUME NEW t \in Threads, CheckCurrent(t) PROVE IInv'
  <2>1. TypeOK'
    <3>1. CASE Return(t, "stale")
      BY <1>7, <3>1, ReturnTyped DEF IInv, TypeOK, CheckCurrent, Outcomes
    <3>2. CASE ~(Return(t, "stale"))
      BY <1>7, <3>2 DEF IInv, TypeOK, CheckCurrent, Goto, store, PlainSteps
    <3> QED
      BY <3>1, <3>2
  <2>2. Chained'
    BY <1>7 DEF IInv, Chained, CheckCurrent, store
  <2>3. \A u \in Threads : InCall(u)' /\ AboutToCommit(u)'
    BY <1>7 DEF IInv, TypeOK, InCall, AboutToCommit, CheckCurrent, Return, Goto, PlainSteps, Stale
  <2> QED
    BY <2>1, <2>2, <2>3 DEF IInv
<1>8. ASSUME NEW t \in Threads, LoadHistory(t) PROVE IInv'
  <2>1. TypeOK'
    <3>1. CASE Return(t, "unreadable")
      BY <1>8, <3>1, ReturnTyped DEF IInv, TypeOK, LoadHistory, Outcomes
    <3>2. CASE ~(Return(t, "unreadable"))
      <4>1. call[t].key \in Keys /\ history[call[t].key] \in Seq(Entry) /\ pc[t] # "idle"
        BY <1>8 DEF IInv, TypeOK, LoadHistory, CallArgs
      <4>2. snapshot' \in [Threads -> Seq(Entry)]
        BY <1>8, <3>2, <4>1 DEF IInv, TypeOK, LoadHistory
      <4>3. PICK step \in PlainSteps : Goto(t, step)
        BY <1>8, <3>2 DEF LoadHistory, PlainSteps
      <4> QED
        BY <1>8, <3>2, <4>1, <4>2, <4>3 DEF IInv, TypeOK, LoadHistory, Goto, store, PlainSteps
    <3> QED
      BY <3>1, <3>2
  <2>2. Chained'
    BY <1>8 DEF IInv, Chained, LoadHistory, store
  <2>3. \A u \in Threads : InCall(u)' /\ AboutToCommit(u)'
    BY <1>8 DEF IInv, TypeOK, InCall, AboutToCommit, LoadHistory, Return, Goto, PlainSteps, Stale
  <2> QED
    BY <2>1, <2>2, <2>3 DEF IInv
<1>9. ASSUME NEW t \in Threads, StoreHistory(t) PROVE IInv'
  <2> DEFINE k == call[t].key
  <2>1. NewRecord(t) \in Record /\ k \in Keys /\ kind # "cas"
    BY <1>9, NewRecordLegal DEF IInv, StoreHistory, AboutToCommit, PlainSteps
  <2>2. Append(snapshot[t], NewRecord(t)) \in Seq(Entry)
    BY <2>1, AppendProperties DEF IInv, TypeOK, Entry
  <2>3. TypeOK'
    BY <1>9, <2>1, <2>2 DEF IInv, TypeOK, StoreHistory, Goto
  <2>4. Chained'
    BY <2>1 DEF Chained
  <2>5. \A u \in Threads : InCall(u)' /\ AboutToCommit(u)'
    BY <1>9, <2>1 DEF IInv, TypeOK, InCall, AboutToCommit, StoreHistory, Goto
  <2> QED
    BY <2>3, <2>4, <2>5 DEF IInv
<1>10. ASSUME NEW t \in Threads, WriteCurrent(t) PROVE IInv'
  <2>1. NewRecord(t) \in Record /\ call[t].key \in Keys
    BY <1>10, NewRecordLegal DEF IInv, WriteCurrent
  <2>2. Id(t) \in Threads \X (1..MaxCalls)
    BY <1>10 DEF IInv, TypeOK, InCall, WriteCurrent, Id
  <2>3. TypeOK'
    BY <1>10, <2>1, <2>2, SMTT(30) DEF IInv, TypeOK, WriteCurrent, Return, Unlocked, Copy, Outcomes
  <2>4. Chained'
    BY <1>10 DEF IInv, Chained, WriteCurrent
  <2>5. \A u \in Threads : InCall(u)' /\ AboutToCommit(u)'
    BY <1>10 DEF IInv, TypeOK, InCall, AboutToCommit, WriteCurrent, Return, PlainSteps, Stale
  <2> QED
    BY <2>3, <2>4, <2>5 DEF IInv
<1>11. ASSUME NEW t \in Threads, StoreFault(t) PROVE IInv'
  <2>1. TypeOK'
    BY <1>11, SMTT(30) DEF IInv, TypeOK, StoreFault, Return, store, Unlocked, Outcomes
  <2>2. Chained'
    BY <1>11 DEF IInv, Chained, StoreFault, store
  <2>3. \A u \in Threads : InCall(u)' /\ AboutToCommit(u)'
    BY <1>11 DEF IInv, TypeOK, InCall, AboutToCommit, StoreFault, Return, PlainSteps, Stale
  <2> QED
    BY <2>1, <2>2, <2>3 DEF IInv
<1>14. ASSUME NEW t \in Threads, ReadSwallowed(t) PROVE IInv'
  <2>1. PICK step \in {"commit", "load"} :
          /\ Goto(t, step)
          /\ step = IF pc[t] = "legacy" THEN "commit" ELSE "load"
    BY <1>14 DEF ReadSwallowed
  <2>2. TypeOK'
    <3>1. failures' \in 0..MaxFailures
      BY <1>14 DEF IInv, TypeOK, ReadSwallowed
    <3>2. unseen' \subseteq Threads
      BY <1>14 DEF IInv, TypeOK, ReadSwallowed
    <3>3. /\ pc' \in [Threads -> Unlocked \cup CasSteps \cup PlainSteps \cup {"copy"}]
          /\ \A u \in Threads : pc'[u] # "idle" => call[u] \in CallArgs
      BY <1>14, <2>1 DEF IInv, TypeOK, ReadSwallowed, Goto, CasSteps, PlainSteps
    <3> QED
      BY <1>14, <3>1, <3>2, <3>3 DEF IInv, TypeOK, ReadSwallowed, store
  <2>3. Chained'
    BY <1>14 DEF IInv, Chained, ReadSwallowed, store
  <2>4. \A u \in Threads : InCall(u)'
    BY <1>14, <2>1 DEF IInv, TypeOK, InCall, ReadSwallowed, Goto
  <2>5. ASSUME NEW u \in Threads PROVE AboutToCommit(u)'
    <3>1. CASE u # t
      <4>1. pc'[u] = pc[u] /\ call' = call /\ snapshot' = snapshot
        BY <1>14, <2>1, <3>1 DEF IInv, TypeOK, ReadSwallowed, Goto
      <4> QED
        BY <4>1 DEF IInv, AboutToCommit, Stale
    <3>2. CASE u = t
      BY <1>14, <2>1, <3>2 DEF IInv, TypeOK, AboutToCommit, ReadSwallowed, Goto, PlainSteps
    <3> QED
      BY <3>1, <3>2
  <2> QED
    BY <2>2, <2>3, <2>4, <2>5 DEF IInv
<1>12. ASSUME NEW p \in Processes, Crash(p) PROVE IInv'
  <2>1. TypeOK'
    BY <1>12 DEF IInv, TypeOK, Crash, Forget, store, Unlocked, Outcomes
  <2>2. Chained'
    BY <1>12 DEF IInv, Chained, Crash, store
  <2>3. \A u \in Threads : InCall(u)' /\ AboutToCommit(u)'
    BY <1>12 DEF IInv, TypeOK, InCall, AboutToCommit, Crash, Forget, PlainSteps, Stale
  <2> QED
    BY <2>1, <2>2, <2>3 DEF IInv
<1>13. ASSUME UNCHANGED vars PROVE IInv'
  BY <1>13 DEF IInv, TypeOK, Chained, InCall, AboutToCommit, Stale, vars
<1> QED
  BY <1>1, <1>2, <1>3, <1>4, <1>5, <1>6, <1>7, <1>8, <1>9, <1>10, <1>11, <1>12, <1>13, <1>14
     DEF Next, Step, CasStep, PlainStep, Rest
------------------------------------------------------------------------------
(* The per-key lock of a process: with a plain dict all calls run in one
   process, on the unlocked-store path; two threads of a process are never
   inside the locked section of the same key; so what a thread on that path
   read is still there when it writes. *)
OneHome ==
  kind = "dict" => \A t \in Threads : pc[t] # "idle" => ProcessOf[t] = Home /\ pc[t] \notin CasSteps

OnePerKey ==
  \A t, u \in Threads :
    /\ t # u /\ ProcessOf[t] = ProcessOf[u]
    /\ pc[t] \notin Unlocked /\ pc[u] \notin Unlocked
    => call[t].key # call[u].key

ReadHolds == \A t \in Threads : pc[t] = "store" => snapshot[t] = history[call[t].key]

(* Only a thread past the check goes without having seen the state. *)
UnseenPast == \A t \in unseen : pc[t] \in {"commit", "load", "store", "copy"}

Exclusive == OneHome /\ OnePerKey /\ ReadHolds /\ UnseenPast

(* The one way a history changes: the record of a call is appended to the
   history that the call has read. *)
Appends(t) ==
  /\ pc[t] = IF kind = "cas" THEN "commit" ELSE "store"
  /\ snapshot[t] = history[call[t].key]
  /\ pc' = [pc EXCEPT ![t] = "copy"]
  /\ history' = [history EXCEPT ![call[t].key] = Append(history[call[t].key], NewRecord(t))]
  /\ UNCHANGED <<kind, current, readable, call, snapshot, attempts, unseen, calls, outcome, acked, failures>>

LEMMA HistoryGrows ==
  ASSUME IInv, Exclusive, [Next]_vars
  PROVE  UNCHANGED history \/ \E t \in Threads : Appends(t)
<1>1. ASSUME NEW t \in Threads, Commit(t) PROVE Appends(t)
  <2>1. kind = "cas" /\ snapshot[t] = history[call[t].key]
    BY <1>1 DEF Commit, Unchanged, Exclusive, OneHome, CasSteps, IInv, TypeOK
  <2> QED
    BY <1>1, <2>1 DEF Commit, Goto, Appends
<1>2. ASSUME NEW t \in Threads, StoreHistory(t) PROVE Appends(t)
  <2>1. kind # "cas" /\ snapshot[t] = history[call[t].key]
    BY <1>2 DEF StoreHistory, Exclusive, ReadHolds, IInv, AboutToCommit, PlainSteps
  <2> QED
    BY <1>2, <2>1 DEF StoreHistory, Goto, Appends
<1>3. ASSUME NEW t \in Threads,
             Call(t) \/ Lock(t) \/ ReadHistory(t) \/ ReadLegacy(t) \/ LoseRace(t)
               \/ CheckCurrent(t) \/ LoadHistory(t) \/ WriteCurrent(t) \/ StoreFault(t) \/ ReadSwallowed(t)
      PROVE  UNCHANGED history
  BY <1>3 DEF Call, Lock, ReadHistory, ReadLegacy, LoseRace, CheckCurrent, LoadHistory,
     WriteCurrent, StoreFault, ReadSwallowed, store
<1>4. ASSUME NEW p \in Processes, Crash(p) PROVE UNCHANGED history
  BY <1>4 DEF Crash, store
<1>5. UNCHANGED vars => UNCHANGED history
  BY DEF vars
<1> QED
  BY <1>1, <1>2, <1>3, <1>4, <1>5 DEF Next, Step, CasStep, PlainStep, Rest

(* Only Lock enters the locked section, and nobody's key changes inside it. *)
LEMMA OnlyLockEnters ==
  ASSUME IInv, [Next]_vars, ~\E t \in Threads : Lock(t)
  PROVE  \A u \in Threads : pc'[u] \notin Unlocked => pc[u] \notin Unlocked /\ call'[u] = call[u]
<1> SUFFICES ASSUME NEW u \in Threads, pc'[u] \notin Unlocked
             PROVE  pc[u] \notin Unlocked /\ call'[u] = call[u]
  OBVIOUS
<1> USE DEF IInv, TypeOK, Unlocked
<1>1. ASSUME NEW t \in Threads, Call(t) PROVE pc[u] \notin Unlocked /\ call'[u] = call[u]
  BY <1>1 DEF Call, Goto
<1>2. ASSUME NEW t \in Threads,
             ReadHistory(t) \/ ReadLegacy(t) \/ LoseRace(t) \/ CheckCurrent(t) \/ LoadHistory(t)
               \/ StoreFault(t) \/ ReadSwallowed(t)
      PROVE  pc[u] \notin Unlocked /\ call'[u] = call[u]
  BY <1>2 DEF ReadHistory, ReadLegacy, LoseRace, CheckCurrent, LoadHistory, StoreFault, ReadSwallowed, Return, Goto
<1>3. ASSUME NEW t \in Threads, Commit(t) \/ StoreHistory(t) \/ WriteCurrent(t)
      PROVE  pc[u] \notin Unlocked /\ call'[u] = call[u]
  BY <1>3 DEF Commit, StoreHistory, WriteCurrent, Return, Goto
<1>4. ASSUME NEW p \in Processes, Crash(p) PROVE pc[u] \notin Unlocked /\ call'[u] = call[u]
  BY <1>4 DEF Crash, Forget
<1>5. UNCHANGED vars => pc[u] \notin Unlocked /\ call'[u] = call[u]
  BY DEF vars
<1> QED
  BY <1>1, <1>2, <1>3, <1>4, <1>5 DEF Next, Step, CasStep, PlainStep, Rest

LEMMA InitExclusive == Init => Exclusive
  BY DEF Init, Exclusive, OneHome, OnePerKey, ReadHolds, UnseenPast, Unlocked

LEMMA NextExclusive == IInv /\ Exclusive /\ [Next]_vars => Exclusive'
<1> SUFFICES ASSUME IInv, Exclusive, [Next]_vars PROVE Exclusive'
  OBVIOUS
<1>0. kind' = kind
  BY StoreKindFixed
<1>1. OneHome'
  <2> SUFFICES ASSUME kind = "dict", NEW u \in Threads, pc'[u] # "idle"
               PROVE  ProcessOf[u] = Home /\ pc'[u] \notin CasSteps
    BY <1>0 DEF OneHome
  <2> USE DEF IInv, TypeOK, Exclusive, OneHome
  <2>1. ASSUME NEW t \in Threads, Call(t) \/ Lock(t) \/ StoreFault(t) \/ ReadSwallowed(t)
        PROVE  ProcessOf[u] = Home /\ pc'[u] \notin CasSteps
    BY <2>1 DEF Call, Lock, StoreFault, ReadSwallowed, Return, Goto, CasSteps
  <2>2. ASSUME NEW t \in Threads, CasStep(t) PROVE FALSE
    BY <2>2 DEF CasStep, ReadHistory, ReadLegacy, Commit, LoseRace, CasSteps
  <2>3. ASSUME NEW t \in Threads, PlainStep(t) \/ WriteCurrent(t)
        PROVE  ProcessOf[u] = Home /\ pc'[u] \notin CasSteps
    BY <2>3 DEF PlainStep, CheckCurrent, LoadHistory, StoreHistory, WriteCurrent, Return, Goto, CasSteps
  <2>4. ASSUME NEW p \in Processes, Crash(p)
        PROVE  ProcessOf[u] = Home /\ pc'[u] \notin CasSteps
    BY <2>4 DEF Crash, Forget
  <2> QED
    BY <2>1, <2>2, <2>3, <2>4 DEF Next, Step, Rest, vars
<1>2. OnePerKey'
  <2>1. ASSUME NEW t \in Threads, Lock(t) PROVE OnePerKey'
    BY <2>1 DEF Lock, LockFree, Goto, OnePerKey, Exclusive, IInv, TypeOK
  <2>2. CASE ~\E t \in Threads : Lock(t)
    BY <2>2, OnlyLockEnters DEF Exclusive, OnePerKey
  <2> QED
    BY <2>1, <2>2
<1>3. ReadHolds'
  <2> SUFFICES ASSUME NEW u \in Threads, pc'[u] = "store"
               PROVE  snapshot'[u] = history'[call'[u].key]
    BY DEF ReadHolds
  <2> USE DEF IInv, TypeOK
  <2>1. ASSUME NEW t \in Threads, LoadHistory(t), u = t PROVE snapshot'[u] = history'[call'[u].key]
    BY <2>1 DEF LoadHistory, Return, Goto, store
  <2>2. ASSUME pc[u] = "store", UNCHANGED <<snapshot[u], call[u]>>
        PROVE  snapshot'[u] = history'[call'[u].key]
    <3>1. CASE UNCHANGED history
      BY <2>2, <3>1 DEF Exclusive, ReadHolds
    <3>2. ASSUME NEW t \in Threads, Appends(t) PROVE snapshot'[u] = history'[call'[u].key]
      <4>1. t # u
        BY <2>2, <3>2 DEF Appends
      <4>2. kind = "dict" /\ pc[t] = "store" /\ ProcessOf[t] = ProcessOf[u]
        BY <2>2, <3>2 DEF Appends, Exclusive, OneHome, AboutToCommit, PlainSteps
      <4>3. call[t].key # call[u].key
        BY <2>2, <4>1, <4>2 DEF Exclusive, OnePerKey, Unlocked
      <4> QED
        BY <2>2, <3>2, <4>3 DEF Appends, Exclusive, ReadHolds
    <3> QED
      BY <3>1, <3>2, HistoryGrows
  <2>3. ASSUME NEW t \in Threads,
               Call(t) \/ Lock(t) \/ ReadHistory(t) \/ ReadLegacy(t) \/ LoseRace(t) \/ CheckCurrent(t)
                 \/ StoreFault(t) \/ ReadSwallowed(t)
        PROVE  pc[u] = "store" /\ UNCHANGED <<snapshot[u], call[u]>>
    BY <2>3 DEF Call, Lock, ReadHistory, ReadLegacy, LoseRace, CheckCurrent, StoreFault, ReadSwallowed, Return, Goto,
       Unlocked
  <2>4. ASSUME NEW t \in Threads, Commit(t) \/ StoreHistory(t) \/ WriteCurrent(t) \/ (LoadHistory(t) /\ u # t)
        PROVE  pc[u] = "store" /\ UNCHANGED <<snapshot[u], call[u]>>
    BY <2>4 DEF Commit, StoreHistory, WriteCurrent, LoadHistory, Return, Goto
  <2>5. ASSUME NEW p \in Processes, Crash(p)
        PROVE  pc[u] = "store" /\ UNCHANGED <<snapshot[u], call[u]>>
    BY <2>5 DEF Crash, Forget
  <2>6. UNCHANGED vars => pc[u] = "store" /\ UNCHANGED <<snapshot[u], call[u]>>
    BY DEF vars
  <2> QED
    BY <2>1, <2>2, <2>3, <2>4, <2>5, <2>6 DEF Next, Step, CasStep, PlainStep, Rest
<1>4. UnseenPast'
  <2> SUFFICES ASSUME NEW u \in unseen' PROVE pc'[u] \in {"commit", "load", "store", "copy"}
    BY DEF UnseenPast
  <2> USE DEF IInv, TypeOK, Exclusive, UnseenPast
  <2>1. ASSUME NEW t \in Threads, Call(t) \/ Lock(t) \/ StoreFault(t)
        PROVE  pc'[u] \in {"commit", "load", "store", "copy"}
    BY <2>1 DEF Call, Lock, StoreFault, Return, Goto
  <2>2. ASSUME NEW t \in Threads, ReadHistory(t) \/ ReadLegacy(t) \/ Commit(t) \/ LoseRace(t)
        PROVE  pc'[u] \in {"commit", "load", "store", "copy"}
    BY <2>2 DEF ReadHistory, ReadLegacy, Commit, LoseRace, Return, Goto
  <2>3. ASSUME NEW t \in Threads, PlainStep(t) \/ WriteCurrent(t)
        PROVE  pc'[u] \in {"commit", "load", "store", "copy"}
    BY <2>3 DEF PlainStep, CheckCurrent, LoadHistory, StoreHistory, WriteCurrent, Return, Goto
  <2>4. ASSUME NEW t \in Threads, ReadSwallowed(t)
        PROVE  pc'[u] \in {"commit", "load", "store", "copy"}
    BY <2>4 DEF ReadSwallowed, Goto
  <2>5. ASSUME NEW p \in Processes, Crash(p)
        PROVE  pc'[u] \in {"commit", "load", "store", "copy"}
    BY <2>5 DEF Crash, Forget
  <2>6. UNCHANGED vars => pc'[u] \in {"commit", "load", "store", "copy"}
    BY DEF vars
  <2> QED
    BY <2>1, <2>2, <2>3, <2>4, <2>5, <2>6 DEF Next, Step, CasStep, Rest
<1> QED
  BY <1>1, <1>2, <1>3, <1>4 DEF Exclusive
------------------------------------------------------------------------------
(* Who is recorded where.  A thread that has not written yet, or was refused,
   has no record of its call anywhere; one about to write the _current copy
   has exactly one, the last of its key on a plain dict; what was acknowledged
   is there. *)
Unwritten == {"lock"} \cup CasSteps \cup PlainSteps
Refusals == {"invalid", "stale", "unreadable", "contended"}

NoRecordOf(id) == \A k \in Keys : \A i \in DOMAIN history[k] : ~Holds(k, i, id)

Counted ==
  \A k \in Keys : \A i \in DOMAIN history[k] :
    history[k][i] \in Record => history[k][i].id[2] <= calls[history[k][i].id[1]]

OnceEach ==
  \A k, l \in Keys : \A i \in DOMAIN history[k], j \in DOMAIN history[l] :
    /\ history[k][i] \in Record /\ history[l][j] \in Record
    /\ history[k][i].id = history[l][j].id /\ history[k][i].id[2] > 0
    => k = l /\ i = j

NothingYet ==
  \A t \in Threads :
    pc[t] \in Unwritten \/ (pc[t] = "idle" /\ outcome[t] \in Refusals) => NoRecordOf(Id(t))

Copying ==
  \A t \in Threads :
    pc[t] = "copy" =>
      LET log == history[call[t].key]
      IN  /\ Known(log)
          /\ \E i \in DOMAIN log : log[i] = NewRecord(t) /\ (kind = "dict" => i = Len(log))

AckedHeld == \A id \in acked : \E k \in Keys : \E i \in DOMAIN history[k] : Holds(k, i, id)

Trail == Counted /\ OnceEach /\ NothingYet /\ Copying /\ AckedHeld

(* What an append does to the entries of all histories. *)
LEMMA AppendedEntries ==
  ASSUME IInv, NEW t \in Threads, Appends(t), NEW k, k = call[t].key
  PROVE  /\ k \in Keys /\ NewRecord(t) \in Record /\ NewRecord(t)' = NewRecord(t)
         /\ history[k] \in Seq(Entry) /\ history' \in [Keys -> Seq(Entry)]
         /\ history'[k] = Append(history[k], NewRecord(t))
         /\ Len(history'[k]) = Len(history[k]) + 1
         /\ history'[k][Len(history[k]) + 1] = NewRecord(t)
         /\ Known(history[k])'
         /\ \A l \in Keys : l # k => history'[l] = history[l]
         /\ \A l \in Keys : \A j \in DOMAIN history[l] :
              j \in DOMAIN history'[l] /\ history'[l][j] = history[l][j]
         /\ \A l \in Keys : \A j \in DOMAIN history'[l] :
              \/ j \in DOMAIN history[l] /\ history'[l][j] = history[l][j]
              \/ l = k /\ j = Len(history[k]) + 1 /\ history'[l][j] = NewRecord(t)
<1>1. k \in Keys /\ NewRecord(t) \in Record
  BY NewRecordLegal DEF IInv, Appends
<1>2. NewRecord(t)' = NewRecord(t)
  BY DEF Appends, NewRecord, Id
<1>3. history[k] \in Seq(Entry) /\ Len(history[k]) \in Nat /\ NewRecord(t) \in Entry
  BY <1>1 DEF IInv, TypeOK, Entry
<1>4. history'[k] = Append(history[k], NewRecord(t)) /\ \A l \in Keys : l # k => history'[l] = history[l]
  BY <1>1 DEF IInv, TypeOK, Appends
<1>5. /\ Len(history'[k]) = Len(history[k]) + 1
      /\ history'[k][Len(history[k]) + 1] = NewRecord(t)
      /\ \A j \in 1..Len(history[k]) : history'[k][j] = history[k][j]
      /\ DOMAIN history'[k] = 1..(Len(history[k]) + 1)
      /\ history'[k] \in Seq(Entry)
  BY <1>3, <1>4, AppendProperties
<1>6. history' \in [Keys -> Seq(Entry)]
  BY <1>3, <1>4, <1>5 DEF IInv, TypeOK, Appends
<1>7. Known(history[k])'
  <2>1. history'[k][Len(history'[k])] = NewRecord(t) /\ Len(history'[k]) > 0
    BY <1>3, <1>5
  <2>2. NewRecord(t) # Malformed
    BY <1>1, ManagerAssumption
  <2>3. history'[k] # <<>>
    BY <2>1
  <2> QED
    BY <2>1, <2>2, <2>3 DEF Known
<1>8. DOMAIN history[k] = 1..Len(history[k])
  BY <1>3
<1>9. \A l \in Keys : \A j \in DOMAIN history[l] :
        j \in DOMAIN history'[l] /\ history'[l][j] = history[l][j]
  BY <1>3, <1>4, <1>5, <1>8, SMTT(30)
<1>10. \A l \in Keys : \A j \in DOMAIN history'[l] :
         \/ j \in DOMAIN history[l] /\ history'[l][j] = history[l][j]
         \/ l = k /\ j = Len(history[k]) + 1 /\ history'[l][j] = NewRecord(t)
  <2> SUFFICES ASSUME NEW l \in Keys, NEW j \in DOMAIN history'[l]
               PROVE  \/ j \in DOMAIN history[l] /\ history'[l][j] = history[l][j]
                      \/ l = k /\ j = Len(history[k]) + 1 /\ history'[l][j] = NewRecord(t)
    OBVIOUS
  <2>1. CASE l # k
    BY <1>4, <2>1
  <2>2. CASE l = k
    <3>1. j \in 1..Len(history[k]) \/ j = Len(history[k]) + 1
      BY <1>3, <1>5, <2>2, SMTT(30)
    <3> QED
      BY <1>5, <1>8, <2>2, <3>1
  <2> QED
    BY <2>1, <2>2
<1> QED
  BY <1>1, <1>2, <1>3, <1>4, <1>5, <1>6, <1>7, <1>9, <1>10

(* A record that is in a history stays where it is. *)
LEMMA RecordsStay ==
  ASSUME IInv, Exclusive, [Next]_vars
  PROVE  \A k \in Keys : \A i \in DOMAIN history[k] :
           i \in DOMAIN history'[k] /\ history'[k][i] = history[k][i]
<1>1. ASSUME NEW t \in Threads, Appends(t)
      PROVE  \A k \in Keys : \A i \in DOMAIN history[k] :
               i \in DOMAIN history'[k] /\ history'[k][i] = history[k][i]
  BY <1>1, AppendedEntries
<1> QED
  BY <1>1, HistoryGrows

(* What one step does to the call of a thread. *)
LEMMA CallsCounted ==
  ASSUME IInv, [Next]_vars, NEW u \in Threads
  PROVE  /\ calls[u] \in Nat
         /\ calls'[u] = calls[u] \/ (Call(u) /\ calls'[u] = calls[u] + 1)
<1> USE DEF IInv, TypeOK
<1>1. calls[u] \in Nat
  BY ManagerAssumption
<1>2. ASSUME NEW t \in Threads, Call(t) PROVE calls'[u] = calls[u] \/ (t = u /\ calls'[u] = calls[u] + 1)
  BY <1>2 DEF Call
<1>3. ASSUME NEW t \in Threads, Step(t) \/ StoreFault(t) \/ ReadSwallowed(t) PROVE calls'[u] = calls[u]
  BY <1>3 DEF Step, CasStep, PlainStep, Lock, ReadHistory, ReadLegacy, Commit, LoseRace, CheckCurrent,
     LoadHistory, StoreHistory, WriteCurrent, StoreFault, ReadSwallowed
<1>4. ASSUME NEW p \in Processes, Crash(p) PROVE calls'[u] = calls[u]
  BY <1>4 DEF Crash
<1> QED
  BY <1>1, <1>2, <1>3, <1>4 DEF Next, Rest, vars

LEMMA UnwrittenBefore ==
  ASSUME IInv, [Next]_vars, NEW u \in Threads, ~Call(u),
         pc'[u] \in Unwritten \/ (pc'[u] = "idle" /\ outcome'[u] \in Refusals)
  PROVE  pc[u] \in Unwritten \/ (pc[u] = "idle" /\ outcome[u] \in Refusals)
<1> USE DEF IInv, TypeOK, Unwritten, Refusals, CasSteps, PlainSteps
<1>1. ASSUME NEW t \in Threads, Call(t) \/ Lock(t)
      PROVE  pc[u] \in Unwritten \/ (pc[u] = "idle" /\ outcome[u] \in Refusals)
  BY <1>1 DEF Call, Lock, Goto
<1>2. ASSUME NEW t \in Threads, ReadHistory(t) \/ ReadLegacy(t) \/ LoseRace(t)
      PROVE  pc[u] \in Unwritten \/ (pc[u] = "idle" /\ outcome[u] \in Refusals)
  BY <1>2 DEF ReadHistory, ReadLegacy, LoseRace, Return, Goto
<1>3. ASSUME NEW t \in Threads, CheckCurrent(t) \/ LoadHistory(t) \/ Commit(t) \/ StoreHistory(t)
      PROVE  pc[u] \in Unwritten \/ (pc[u] = "idle" /\ outcome[u] \in Refusals)
  BY <1>3 DEF CheckCurrent, LoadHistory, Commit, StoreHistory, Return, Goto
<1>4. ASSUME NEW t \in Threads, WriteCurrent(t) \/ StoreFault(t) \/ ReadSwallowed(t)
      PROVE  pc[u] \in Unwritten \/ (pc[u] = "idle" /\ outcome[u] \in Refusals)
  BY <1>4 DEF WriteCurrent, StoreFault, ReadSwallowed, Return, Goto
<1>5. ASSUME NEW p \in Processes, Crash(p)
      PROVE  pc[u] \in Unwritten \/ (pc[u] = "idle" /\ outcome[u] \in Refusals)
  BY <1>5 DEF Crash, Forget
<1>6. UNCHANGED vars => pc[u] \in Unwritten \/ (pc[u] = "idle" /\ outcome[u] \in Refusals)
  BY DEF vars
<1> QED
  BY <1>1, <1>2, <1>3, <1>4, <1>5, <1>6 DEF Next, Step, CasStep, PlainStep, Rest

LEMMA CopyAfterAppend ==
  ASSUME IInv, Exclusive, [Next]_vars, NEW u \in Threads, pc'[u] = "copy"
  PROVE  Appends(u) \/ (pc[u] = "copy" /\ NewRecord(u)' = NewRecord(u) /\ call'[u] = call[u])
<1> USE DEF IInv, TypeOK
<1>1. CASE Appends(u)
  BY <1>1
<1>2. CASE ~Appends(u)
  <2>1. ~Commit(u) /\ ~StoreHistory(u)
    <3>1. ~Commit(u)
      BY <1>2 DEF Commit, Unchanged, Goto, Appends, Exclusive, OneHome, CasSteps
    <3>2. ~StoreHistory(u)
      BY <1>2 DEF StoreHistory, Goto, Appends, Exclusive, ReadHolds, AboutToCommit, PlainSteps
    <3> QED
      BY <3>1, <3>2
  <2>2. ASSUME NEW t \in Threads, Call(t) \/ Lock(t) \/ StoreFault(t) \/ ReadSwallowed(t)
        PROVE  pc[u] = "copy" /\ call'[u] = call[u] /\ calls'[u] = calls[u]
    BY <2>2 DEF Call, Lock, StoreFault, ReadSwallowed, Return, Goto
  <2>3. ASSUME NEW t \in Threads, CasStep(t)
        PROVE  pc[u] = "copy" /\ call'[u] = call[u] /\ calls'[u] = calls[u]
    BY <2>1, <2>3 DEF CasStep, ReadHistory, ReadLegacy, Commit, LoseRace, Return, Goto
  <2>4. ASSUME NEW t \in Threads, PlainStep(t) \/ WriteCurrent(t)
        PROVE  pc[u] = "copy" /\ call'[u] = call[u] /\ calls'[u] = calls[u]
    BY <2>1, <2>4 DEF PlainStep, CheckCurrent, LoadHistory, StoreHistory, WriteCurrent, Return, Goto
  <2>5. ASSUME NEW p \in Processes, Crash(p)
        PROVE  pc[u] = "copy" /\ call'[u] = call[u] /\ calls'[u] = calls[u]
    BY <2>5 DEF Crash, Forget
  <2>6. UNCHANGED vars => pc[u] = "copy" /\ call'[u] = call[u] /\ calls'[u] = calls[u]
    BY DEF vars
  <2>7. pc[u] = "copy" /\ call'[u] = call[u] /\ calls'[u] = calls[u]
    BY <2>2, <2>3, <2>4, <2>5, <2>6 DEF Next, Step, Rest
  <2> QED
    BY <2>7 DEF NewRecord, Id
<1> QED
  BY <1>1, <1>2

LEMMA AckedAtCopy ==
  ASSUME IInv, [Next]_vars, NEW id \in acked'
  PROVE  id \in acked \/ \E t \in Threads : pc[t] = "copy" /\ id = Id(t)
<1>1. ASSUME NEW t \in Threads, WriteCurrent(t)
      PROVE  id \in acked \/ \E u \in Threads : pc[u] = "copy" /\ id = Id(u)
  BY <1>1 DEF WriteCurrent
<1>2. ASSUME NEW t \in Threads, Call(t) \/ Lock(t) \/ CasStep(t) \/ PlainStep(t) \/ StoreFault(t) \/ ReadSwallowed(t)
      PROVE  id \in acked
  BY <1>2 DEF Call, Lock, CasStep, ReadHistory, ReadLegacy, Commit, LoseRace, PlainStep, CheckCurrent,
     LoadHistory, StoreHistory, StoreFault, ReadSwallowed
<1>3. ASSUME NEW p \in Processes, Crash(p) PROVE id \in acked
  BY <1>3 DEF Crash
<1> QED
  BY <1>1, <1>2, <1>3 DEF Next, Step, Rest, vars

LEMMA InitTrail == Init => Trail
<1> SUFFICES ASSUME Init PROVE Trail
  OBVIOUS
<1>1. PICK s \in [Keys -> InitialStores] : history = [k \in Keys |-> s[k].history]
  BY DEF Init
<1>2. \A k \in Keys : \A i \in DOMAIN history[k] : history[k][i] \in Record => history[k][i].id[2] = 0
  BY <1>1, FreshIdAssumption
<1>3. \A r \in Record : r.id[1] \in Threads
  BY DEF Record
<1>4. Counted
  BY <1>2, <1>3 DEF Init, Counted
<1>5. OnceEach
  BY <1>2 DEF OnceEach
<1>6. NothingYet /\ Copying /\ AckedHeld
  BY DEF Init, NothingYet, Copying, AckedHeld, Unwritten, Refusals, CasSteps, PlainSteps
<1> QED
  BY <1>4, <1>5, <1>6 DEF Trail

LEMMA NextTrail == IInv /\ Exclusive /\ Trail /\ [Next]_vars => Trail'
<1> SUFFICES ASSUME IInv, Exclusive, Trail, [Next]_vars PROVE Trail'
  OBVIOUS
<1>0. \A r \in Record : r.id[1] \in Threads /\ r.id[2] \in Nat
  BY ManagerAssumption DEF Record
<1>1. UNCHANGED history \/ \E t \in Threads : Appends(t)
  BY HistoryGrows
<1>2. Counted'
  <2> SUFFICES ASSUME NEW k \in Keys, NEW i \in DOMAIN history'[k], history'[k][i] \in Record
               PROVE  history'[k][i].id[2] <= calls'[history'[k][i].id[1]]
    BY DEF Counted
  <2>1. \A u \in Threads : calls[u] \in Nat /\ calls'[u] \in Nat /\ calls[u] <= calls'[u]
    BY CallsCounted
  <2>2. CASE i \in DOMAIN history[k] /\ history'[k][i] = history[k][i]
    BY <1>0, <2>1, <2>2 DEF Trail, Counted
  <2>3. ASSUME NEW t \in Threads, Appends(t), history'[k][i] = NewRecord(t)
        PROVE  history'[k][i].id[2] <= calls'[history'[k][i].id[1]]
    BY <2>1, <2>3 DEF NewRecord, Id
  <2> QED
    BY <1>1, <2>2, <2>3, AppendedEntries
<1>3. OnceEach'
  <2>1. CASE UNCHANGED history
    BY <2>1 DEF Trail, OnceEach
  <2>2. ASSUME NEW t \in Threads, Appends(t) PROVE OnceEach'
    <3> DEFINE m == call[t].key
               n == Len(history[m]) + 1
    <3>1. /\ \A l \in Keys : \A j \in DOMAIN history'[l] :
               \/ j \in DOMAIN history[l] /\ history'[l][j] = history[l][j]
               \/ l = m /\ j = n /\ history'[l][j] = NewRecord(t)
      BY <2>2, AppendedEntries
    <3>2. NoRecordOf(Id(t)) /\ NewRecord(t).id = Id(t)
      BY <2>2 DEF Trail, NothingYet, Appends, Unwritten, CasSteps, PlainSteps, NewRecord
    <3> HIDE DEF m, n
    <3> SUFFICES ASSUME NEW k \in Keys, NEW l \in Keys, NEW i \in DOMAIN history'[k], NEW j \in DOMAIN history'[l],
                        history'[k][i] \in Record, history'[l][j] \in Record,
                        history'[k][i].id = history'[l][j].id, history'[k][i].id[2] > 0
                 PROVE  k = l /\ i = j
      BY DEF OnceEach
    <3>3. CASE i \in DOMAIN history[k] /\ history'[k][i] = history[k][i]
      <4>1. CASE j \in DOMAIN history[l] /\ history'[l][j] = history[l][j]
        BY <3>3, <4>1 DEF Trail, OnceEach
      <4>2. CASE history'[l][j] = NewRecord(t)
        BY <3>2, <3>3, <4>2 DEF NoRecordOf, Holds
      <4> QED
        BY <3>1, <4>1, <4>2
    <3>4. CASE k = m /\ i = n /\ history'[k][i] = NewRecord(t)
      <4>1. CASE j \in DOMAIN history[l] /\ history'[l][j] = history[l][j]
        BY <3>2, <3>4, <4>1 DEF NoRecordOf, Holds
      <4>2. CASE l = m /\ j = n
        BY <3>4, <4>2
      <4> QED
        BY <3>1, <4>1, <4>2
    <3> QED
      BY <3>1, <3>3, <3>4
  <2> QED
    BY <1>1, <2>1, <2>2
<1>4. NothingYet'
  <2> SUFFICES ASSUME NEW u \in Threads,
                      pc'[u] \in Unwritten \/ (pc'[u] = "idle" /\ outcome'[u] \in Refusals),
                      NEW k \in Keys, NEW i \in DOMAIN history'[k],
                      history'[k][i] \in Record, history'[k][i].id = Id(u)'
               PROVE  FALSE
    BY DEF NothingYet, NoRecordOf, Holds
  <2>1. ASSUME NEW t \in Threads, Appends(t), history'[k][i] = NewRecord(t)
        PROVE  FALSE
    <3>1. t = u
      BY <2>1 DEF NewRecord, Id
    <3>2. pc'[u] = "copy"
      BY <2>1, <3>1 DEF Appends, IInv, TypeOK
    <3> QED
      BY <3>2 DEF Unwritten, CasSteps, PlainSteps
  <2>2. i \in DOMAIN history[k] /\ history'[k][i] = history[k][i]
    BY <1>1, <2>1, AppendedEntries
  <2>3. CASE Call(u) /\ calls'[u] = calls[u] + 1
    <3>1. history[k][i].id[2] = calls[u] + 1 /\ history[k][i].id[1] = u
      BY <2>2, <2>3 DEF Id
    <3>2. history[k][i].id[2] <= calls[u] /\ calls[u] \in Nat
      BY <2>2, <3>1, CallsCounted DEF Trail, Counted
    <3> QED
      BY <3>1, <3>2
  <2>4. CASE ~Call(u)
    <3>1. NoRecordOf(Id(u))
      BY <2>4, UnwrittenBefore DEF Trail, NothingYet
    <3>2. Id(u)' = Id(u)
      BY <2>4, CallsCounted DEF Id
    <3> QED
      BY <2>2, <3>1, <3>2 DEF NoRecordOf, Holds
  <2>5. calls'[u] = calls[u] \/ (Call(u) /\ calls'[u] = calls[u] + 1)
    BY CallsCounted
  <2>6. Call(u) => calls'[u] = calls[u] + 1
    BY DEF Call, IInv, TypeOK
  <2> QED
    BY <2>3, <2>4, <2>6
<1>5. Copying'
  <2> SUFFICES ASSUME NEW u \in Threads, pc'[u] = "copy"
               PROVE  /\ Known(history[call[u].key])'
                      /\ \E i \in DOMAIN history'[call'[u].key] :
                           /\ history'[call'[u].key][i] = NewRecord(u)'
                           /\ kind' = "dict" => i = Len(history'[call'[u].key])
    BY DEF Copying
  <2>0. kind' = kind
    BY StoreKindFixed
  <2>1. CASE Appends(u)
    <3>1. call' = call
      BY <2>1 DEF Appends
    <3> DEFINE k == call[u].key
               n == Len(history[k]) + 1
    <3>2. /\ NewRecord(u)' = NewRecord(u) /\ Known(history[k])'
          /\ Len(history'[k]) = n /\ history'[k][n] = NewRecord(u)
          /\ k \in Keys /\ history' \in [Keys -> Seq(Entry)] /\ history[k] \in Seq(Entry)
      BY <2>1, <3>1, AppendedEntries
    <3>3. n \in DOMAIN history'[k]
      BY <3>2
    <3> QED
      BY <3>1, <3>2, <3>3 DEF Known
  <2>2. CASE pc[u] = "copy" /\ NewRecord(u)' = NewRecord(u) /\ call'[u] = call[u]
    <3> DEFINE k == call[u].key
    <3>1. /\ Known(history[k])
          /\ \E i \in DOMAIN history[k] : history[k][i] = NewRecord(u) /\ (kind = "dict" => i = Len(history[k]))
      BY <2>2 DEF Trail, Copying
    <3>2. CASE UNCHANGED history
      BY <2>0, <2>2, <3>1, <3>2 DEF Known
    <3>3. ASSUME NEW t \in Threads, Appends(t), call[t].key = k
          PROVE  /\ Known(history[k])'
                 /\ \E i \in DOMAIN history'[k] :
                      /\ history'[k][i] = NewRecord(u)'
                      /\ kind' = "dict" => i = Len(history'[k])
      <4>1. kind # "dict"
        <5> SUFFICES ASSUME kind = "dict" PROVE FALSE
          OBVIOUS
        <5>1. pc[t] = "store" /\ t # u
          BY <2>2, <3>3 DEF Appends
        <5>2. ProcessOf[t] = ProcessOf[u]
          BY <2>2, <5>1 DEF Exclusive, OneHome
        <5> QED
          BY <2>2, <3>3, <5>1, <5>2 DEF Exclusive, OnePerKey, Unlocked
      <4>2. /\ Known(history[k])'
            /\ \A i \in DOMAIN history[k] : i \in DOMAIN history'[k] /\ history'[k][i] = history[k][i]
        BY <2>2, <3>3, AppendedEntries
      <4> QED
        BY <2>0, <2>2, <3>1, <4>1, <4>2
    <3>4. ASSUME NEW t \in Threads, Appends(t), call[t].key # k PROVE history'[k] = history[k]
      <4>1. k \in Keys
        BY <2>2, NewRecordLegal DEF IInv
      <4> QED
        BY <3>4, <4>1, AppendedEntries
    <3>5. CASE history'[k] = history[k]
      BY <2>0, <2>2, <3>1, <3>5 DEF Known
    <3> QED
      BY <1>1, <2>2, <3>2, <3>3, <3>4, <3>5
  <2> QED
    BY <2>1, <2>2, CopyAfterAppend
<1>6. AckedHeld'
  <2> SUFFICES ASSUME NEW id \in acked'
               PROVE  \E k \in Keys : \E i \in DOMAIN history[k] : Holds(k, i, id)
    BY RecordsStay DEF AckedHeld, Holds
  <2>1. ASSUME NEW t \in Threads, pc[t] = "copy", id = Id(t)
        PROVE  \E k \in Keys : \E i \in DOMAIN history[k] : Holds(k, i, id)
    <3>1. NewRecord(t) \in Record /\ call[t].key \in Keys /\ NewRecord(t).id = id
      BY <2>1, NewRecordLegal DEF IInv, NewRecord
    <3> QED
      BY <2>1, <3>1 DEF Trail, Copying, Holds
  <2> QED
    BY <2>1, AckedAtCopy DEF Trail, AckedHeld
<1> QED
  BY <1>2, <1>3, <1>4, <1>5, <1>6 DEF Trail
------------------------------------------------------------------------------
(* What a thread goes by.  The history grows beyond what a thread with
   compare_and_set has read only by records of other threads, one at least for
   each race it lost; the legacy copy it took the state from is still there if
   nobody wrote since; a key whose history cannot be read is never written;
   and what is in a _current entry is in the history. *)
Others(t, log) == {r \in Records(log) : r.id[1] # t /\ r.id[2] > 0}

SnapshotIsPrefix(t) ==
  kind = "cas" /\ pc[t] \in {"legacy", "commit"} =>
    LET log == history[call[t].key]
        read == snapshot[t]
    IN  /\ Len(read) <= Len(log)
        /\ \A i \in 1..Len(read) : log[i] = read[i]
        /\ \A i \in (Len(read) + 1)..Len(log) :
             log[i] \in Record /\ log[i].id[1] # t /\ log[i].id[2] > 0

RacesLost(t) ==
  /\ pc[t] = "idle" => attempts[t] = 0
  /\ pc[t] # "idle" => attempts[t] <= Cardinality(Others(t, history[call[t].key]))
  /\ pc[t] \in {"legacy", "commit"} => attempts[t] <= Cardinality(Others(t, snapshot[t]))

LegacyAgrees(t) ==
  /\ kind = "cas"
  /\ pc[t] = "commit" /\ ~Known(snapshot[t]) /\ history[call[t].key] = snapshot[t]
  /\ t \notin unseen
  => ~Stale(t, current[call[t].key])

CopyAgrees(t) ==
  kind = "dict" /\ pc[t] \in {"load", "store", "copy"} /\ t \notin unseen => ~Stale(t, current[call[t].key])

ReadableOnly(t) ==
  kind = "cas" /\ pc[t] \in {"legacy", "commit", "copy"} => readable[call[t].key]

Reading ==
  /\ \A t \in Threads :
       SnapshotIsPrefix(t) /\ RacesLost(t) /\ LegacyAgrees(t) /\ CopyAgrees(t) /\ ReadableOnly(t)
  /\ LogNeverBehind

LEMMA OthersFinite ==
  ASSUME NEW t, NEW log \in Seq(Entry)
  PROVE  IsFiniteSet(Others(t, log)) /\ Cardinality(Others(t, log)) \in Nat
<1> DEFINE S == {log[i] : i \in DOMAIN log}
<1>1. IsFiniteSet(1..Len(log)) /\ DOMAIN log = 1..Len(log)
  BY FS_Interval, LenProperties
<1>2. log \in Surjection(1..Len(log), S)
  BY <1>1 DEF Surjection
<1>3. IsFiniteSet(S)
  BY <1>1, <1>2, FS_Surjection
<1>4. Others(t, log) \in SUBSET S
  BY DEF Others, Records
<1> QED
  BY <1>3, <1>4, FS_Subset, FS_CardinalityType

(* A log that only grows loses nobody's record ... *)
LEMMA OthersGrow ==
  ASSUME NEW t, NEW log \in Seq(Entry), NEW longer \in Seq(Entry),
         \A i \in DOMAIN log : i \in DOMAIN longer /\ longer[i] = log[i]
  PROVE  Cardinality(Others(t, log)) <= Cardinality(Others(t, longer))
<1>1. Others(t, log) \in SUBSET Others(t, longer)
  BY DEF Others, Records
<1> QED
  BY <1>1, OthersFinite, FS_Subset

(* ... and one that grew by a new record of somebody else gained one. *)
LEMMA OthersGain ==
  ASSUME NEW t, NEW log \in Seq(Entry), NEW longer \in Seq(Entry),
         \A i \in DOMAIN log : i \in DOMAIN longer /\ longer[i] = log[i],
         NEW n \in DOMAIN longer, \A i \in DOMAIN log : longer[i] # longer[n],
         longer[n] \in Record, longer[n].id[1] # t, longer[n].id[2] > 0
  PROVE  Cardinality(Others(t, log)) + 1 <= Cardinality(Others(t, longer))
<1>1. Others(t, log) \cup {longer[n]} \in SUBSET Others(t, longer)
  BY DEF Others, Records
<1>2. longer[n] \notin Others(t, log)
  BY DEF Others, Records
<1>3. Cardinality(Others(t, log) \cup {longer[n]}) = Cardinality(Others(t, log)) + 1
  BY <1>2, OthersFinite, FS_AddElement
<1> QED
  BY <1>1, <1>3, OthersFinite, FS_Subset

(* A thread that does not act stays as it is, or dies. *)
Acts(t) == Call(t) \/ Step(t) \/ StoreFault(t) \/ ReadSwallowed(t)

LEMMA Bystander ==
  ASSUME IInv, [Next]_vars, NEW u \in Threads, ~Acts(u)
  PROVE  \/ UNCHANGED <<pc[u], call[u], snapshot[u], attempts[u]>>
         \/ pc'[u] = "idle" /\ attempts'[u] = 0
<1> USE DEF IInv, TypeOK
<1>1. ASSUME NEW t \in Threads, t # u, Call(t) \/ Lock(t) \/ StoreFault(t) \/ ReadSwallowed(t) \/ WriteCurrent(t)
      PROVE  UNCHANGED <<pc[u], call[u], snapshot[u], attempts[u]>>
  BY <1>1 DEF Call, Lock, StoreFault, ReadSwallowed, WriteCurrent, Return, Goto
<1>2. ASSUME NEW t \in Threads, t # u, CasStep(t)
      PROVE  UNCHANGED <<pc[u], call[u], snapshot[u], attempts[u]>>
  BY <1>2 DEF CasStep, ReadHistory, ReadLegacy, Commit, LoseRace, Return, Goto
<1>3. ASSUME NEW t \in Threads, t # u, PlainStep(t)
      PROVE  UNCHANGED <<pc[u], call[u], snapshot[u], attempts[u]>>
  BY <1>3 DEF PlainStep, CheckCurrent, LoadHistory, StoreHistory, Return, Goto
<1>4. ASSUME NEW p \in Processes, Crash(p)
      PROVE  \/ UNCHANGED <<pc[u], call[u], snapshot[u], attempts[u]>>
             \/ pc'[u] = "idle" /\ attempts'[u] = 0
  BY <1>4 DEF Crash, Forget
<1>5. UNCHANGED vars => UNCHANGED <<pc[u], call[u], snapshot[u], attempts[u]>>
  BY DEF vars
<1> QED
  BY <1>1, <1>2, <1>3, <1>4, <1>5 DEF Next, Step, Rest, Acts

(* A call that has not seen the state keeps going without, until it ends or
   starts over. *)
LEMMA UnseenStays ==
  ASSUME IInv, [Next]_vars, NEW u \in unseen, u \notin unseen'
  PROVE  pc'[u] \in {"idle", "read"}
<1> USE DEF IInv, TypeOK
<1>1. ASSUME NEW t \in Threads, Call(t) \/ Lock(t) \/ StoreFault(t) \/ ReadSwallowed(t) \/ WriteCurrent(t)
      PROVE  pc'[u] \in {"idle", "read"}
  BY <1>1 DEF Call, Lock, StoreFault, ReadSwallowed, WriteCurrent, Return
<1>2. ASSUME NEW t \in Threads, CasStep(t) PROVE pc'[u] \in {"idle", "read"}
  BY <1>2 DEF CasStep, ReadHistory, ReadLegacy, Commit, LoseRace, Return, Goto
<1>3. ASSUME NEW t \in Threads, PlainStep(t) PROVE pc'[u] \in {"idle", "read"}
  BY <1>3 DEF PlainStep, CheckCurrent, LoadHistory, StoreHistory, Return
<1>4. ASSUME NEW p \in Processes, Crash(p) PROVE pc'[u] \in {"idle", "read"}
  BY <1>4 DEF Crash, Forget
<1>5. UNCHANGED vars => FALSE
  BY DEF vars
<1> QED
  BY <1>1, <1>2, <1>3, <1>4, <1>5 DEF Next, Step, Rest

LEMMA CopiesWritten ==
  ASSUME [Next]_vars
  PROVE  UNCHANGED readable /\ (UNCHANGED current \/ \E t \in Threads : WriteCurrent(t))
BY DEF Next, Step, CasStep, PlainStep, Rest, Call, Lock, ReadHistory, ReadLegacy, Commit, LoseRace,
   CheckCurrent, LoadHistory, StoreHistory, WriteCurrent, StoreFault, ReadSwallowed, Crash, store, vars

LEMMA InitReading == Init => Reading
<1> SUFFICES ASSUME Init PROVE Reading
  OBVIOUS
<1>1. \A t \in Threads : SnapshotIsPrefix(t) /\ LegacyAgrees(t) /\ CopyAgrees(t) /\ ReadableOnly(t)
  BY DEF Init, SnapshotIsPrefix, LegacyAgrees, CopyAgrees, ReadableOnly
<1>2. \A t \in Threads : RacesLost(t)
  BY DEF Init, RacesLost
<1>3. LogNeverBehind
  <2>1. PICK s \in [Keys -> InitialStores] : current = [k \in Keys |-> s[k].current]
    BY DEF Init
  <2>2. \A k \in Keys : current[k] \in Record => current[k].id[2] = 0
    BY <2>1, FreshIdAssumption
  <2> QED
    BY <2>2 DEF LogNeverBehind
<1> QED
  BY <1>1, <1>2, <1>3 DEF Reading

(* A thread that has read, or is about to write, was on the same call before. *)
LEMMA WaitsToCommit ==
  ASSUME IInv, [Next]_vars, NEW u \in Threads, pc'[u] \in {"legacy", "commit"}
  PROVE  /\ call'[u] = call[u] /\ attempts'[u] = attempts[u]
         /\ \/ /\ ReadHistory(u) /\ UNCHANGED store
               /\ snapshot'[u] = history[call[u].key] /\ readable[call[u].key]
               /\ pc'[u] = "commit" => Known(snapshot'[u])
            \/ ReadLegacy(u) /\ UNCHANGED store /\ snapshot'[u] = snapshot[u] /\ ~Stale(u, current[call[u].key])
            \/ ReadSwallowed(u) /\ pc[u] = "legacy" /\ UNCHANGED store /\ snapshot'[u] = snapshot[u] /\ u \in unseen'
            \/ pc'[u] = pc[u] /\ snapshot'[u] = snapshot[u]
<1> USE DEF IInv, TypeOK
<1>1. CASE ~Acts(u)
  BY <1>1, Bystander
<1>6. CASE ReadSwallowed(u)
  BY <1>6 DEF ReadSwallowed, Goto
<1>2. CASE Call(u) \/ Lock(u) \/ StoreFault(u) \/ WriteCurrent(u) \/ PlainStep(u)
  BY <1>2 DEF Call, Lock, StoreFault, WriteCurrent, PlainStep, CheckCurrent, LoadHistory, StoreHistory,
     Return, Goto
<1>3. CASE ReadHistory(u)
  BY <1>3 DEF ReadHistory, Return, Goto
<1>4. CASE ReadLegacy(u)
  BY <1>4 DEF ReadLegacy, Return, Goto
<1>5. CASE Commit(u) \/ LoseRace(u)
  BY <1>5 DEF Commit, LoseRace, Return, Goto
<1> QED
  BY <1>1, <1>2, <1>3, <1>4, <1>5, <1>6 DEF Acts, Step, CasStep

LEMMA SnapshotStaysPrefix ==
  ASSUME IInv, Exclusive, Trail, [Next]_vars, NEW u \in Threads, SnapshotIsPrefix(u)
  PROVE  SnapshotIsPrefix(u)'
<1> DEFINE k == call[u].key
<1>0. kind' = kind
  BY StoreKindFixed
<1> SUFFICES ASSUME kind = "cas", pc'[u] \in {"legacy", "commit"}
             PROVE  /\ Len(snapshot'[u]) <= Len(history'[k])
                    /\ \A i \in 1..Len(snapshot'[u]) : history'[k][i] = snapshot'[u][i]
                    /\ \A i \in (Len(snapshot'[u]) + 1)..Len(history'[k]) :
                         history'[k][i] \in Record /\ history'[k][i].id[1] # u /\ history'[k][i].id[2] > 0
  BY <1>0, WaitsToCommit DEF SnapshotIsPrefix
<1>1. CASE ReadHistory(u) /\ UNCHANGED store /\ snapshot'[u] = history[k]
  <2>1. pc[u] # "idle"
    BY <1>1 DEF ReadHistory
  <2>2. k \in Keys
    BY <2>1, NewRecordLegal DEF IInv
  <2>3. Len(history[k]) \in Nat
    BY <2>2 DEF IInv, TypeOK
  <2> QED
    BY <1>1, <2>3 DEF store
<1>2. CASE pc[u] \in {"legacy", "commit"} /\ snapshot'[u] = snapshot[u]
  <2>1. /\ Len(snapshot[u]) <= Len(history[k])
        /\ \A i \in 1..Len(snapshot[u]) : history[k][i] = snapshot[u][i]
        /\ \A i \in (Len(snapshot[u]) + 1)..Len(history[k]) :
             history[k][i] \in Record /\ history[k][i].id[1] # u /\ history[k][i].id[2] > 0
    BY <1>2 DEF SnapshotIsPrefix
  <2>2. CASE history'[k] = history[k]
    BY <1>2, <2>1, <2>2
  <2>3. ASSUME NEW t \in Threads, Appends(t), call[t].key = k
        PROVE  /\ Len(snapshot[u]) <= Len(history'[k])
               /\ \A i \in 1..Len(snapshot[u]) : history'[k][i] = snapshot[u][i]
               /\ \A i \in (Len(snapshot[u]) + 1)..Len(history'[k]) :
                    history'[k][i] \in Record /\ history'[k][i].id[1] # u /\ history'[k][i].id[2] > 0
    <3> DEFINE n == Len(history[k]) + 1
    <3>1. t # u
      BY <2>3 DEF Appends, IInv, TypeOK
    <3>2. /\ Len(history'[k]) = n /\ history'[k][n] = NewRecord(t) /\ NewRecord(t) \in Record
          /\ \A i \in DOMAIN history[k] : history'[k][i] = history[k][i]
          /\ history[k] \in Seq(Entry) /\ k \in Keys
      BY <2>3, AppendedEntries
    <3>3. NewRecord(t).id[1] = t /\ NewRecord(t).id[2] = calls[t] /\ calls[t] \in Nat /\ calls[t] >= 1
      BY <2>3, CallsCounted DEF NewRecord, Id, Appends, IInv, InCall
    <3>4. Len(snapshot[u]) \in Nat /\ Len(history[k]) \in Nat /\ DOMAIN history[k] = 1..Len(history[k])
      BY <3>2 DEF IInv, TypeOK
    <3>5. \A i \in 1..Len(snapshot[u]) : i \in DOMAIN history[k]
      BY <2>1, <3>4
    <3>6. \A i \in (Len(snapshot[u]) + 1)..n : i = n \/ i \in (Len(snapshot[u]) + 1)..Len(history[k])
      BY <3>4
    <3>7. \A i \in (Len(snapshot[u]) + 1)..Len(history[k]) : i \in DOMAIN history[k]
      BY <3>4
    <3>8. Len(snapshot[u]) <= Len(history'[k])
      BY <2>1, <3>2, <3>4
    <3> HIDE DEF n, k
    <3>9. \A i \in (Len(snapshot[u]) + 1)..Len(history'[k]) :
            history'[k][i] \in Record /\ history'[k][i].id[1] # u /\ history'[k][i].id[2] > 0
      BY <2>1, <3>1, <3>2, <3>3, <3>6, <3>7
    <3> QED
      BY <2>1, <3>2, <3>5, <3>8, <3>9
  <2>4. UNCHANGED history \/ \E t \in Threads : Appends(t)
    BY HistoryGrows
  <2>5. k \in Keys
    BY <1>2, NewRecordLegal DEF IInv
  <2>6. ASSUME NEW t \in Threads, Appends(t), call[t].key # k PROVE history'[k] = history[k]
    BY <2>5, <2>6, AppendedEntries
  <2> QED
    BY <1>2, <2>2, <2>3, <2>4, <2>6
<1> QED
  BY <1>1, <1>2, WaitsToCommit DEF ReadLegacy, ReadSwallowed

(* Inside a call only a lost race is counted. *)
LEMMA RacesCounted ==
  ASSUME IInv, [Next]_vars, NEW u \in Threads
  PROVE  /\ pc'[u] = "idle" => attempts'[u] = 0 \/ (pc[u] = "idle" /\ attempts'[u] = attempts[u])
         /\ pc'[u] # "idle" =>
              \/ pc[u] = "idle" /\ attempts'[u] = attempts[u]
              \/ /\ pc[u] # "idle" /\ call'[u] = call[u]
                 /\ \/ attempts'[u] = attempts[u]
                    \/ pc[u] = "commit" /\ ~Unchanged(u) /\ attempts'[u] = attempts[u] + 1
                       /\ UNCHANGED history
<1> USE DEF IInv, TypeOK
<1>1. CASE ~Acts(u)
  BY <1>1, Bystander
<1>2. CASE Call(u)
  BY <1>2 DEF Call, Goto
<1>3. CASE Lock(u) \/ StoreFault(u) \/ ReadSwallowed(u) \/ WriteCurrent(u)
  BY <1>3 DEF Lock, StoreFault, ReadSwallowed, WriteCurrent, Return, Goto, Unlocked
<1>4. CASE PlainStep(u)
  BY <1>4 DEF PlainStep, CheckCurrent, LoadHistory, StoreHistory, Return, Goto
<1>5. CASE ReadHistory(u) \/ ReadLegacy(u) \/ Commit(u)
  BY <1>5 DEF ReadHistory, ReadLegacy, Commit, Return, Goto
<1>6. CASE LoseRace(u)
  BY <1>6 DEF LoseRace, Return, Goto, store
<1> QED
  BY <1>1, <1>2, <1>3, <1>4, <1>5, <1>6 DEF Acts, Step, CasStep

LEMMA RacesStayCounted ==
  ASSUME IInv, Exclusive, Trail, [Next]_vars, NEW u \in Threads, SnapshotIsPrefix(u), RacesLost(u)
  PROVE  RacesLost(u)'
<1> DEFINE k == call[u].key
<1>1. pc'[u] = "idle" => attempts'[u] = 0
  BY RacesCounted DEF RacesLost
<1>2. ASSUME pc[u] # "idle"
      PROVE  /\ k \in Keys /\ history[k] \in Seq(Entry) /\ history'[k] \in Seq(Entry)
             /\ Cardinality(Others(u, history[k])) <= Cardinality(Others(u, history'[k]))
             /\ Cardinality(Others(u, history[k])) \in Nat /\ Cardinality(Others(u, history'[k])) \in Nat
  <2>1. k \in Keys /\ history[k] \in Seq(Entry)
    BY <1>2, NewRecordLegal DEF IInv, TypeOK
  <2>2. history'[k] \in Seq(Entry)
    BY <2>1, NextIInv DEF IInv, TypeOK
  <2>3. Cardinality(Others(u, history[k])) <= Cardinality(Others(u, history'[k]))
    BY <2>1, <2>2, RecordsStay, OthersGrow
  <2> QED
    BY <2>1, <2>2, <2>3, OthersFinite
<1>3. ASSUME pc[u] = "commit", ~Unchanged(u)
      PROVE  attempts[u] + 1 <= Cardinality(Others(u, history[k]))
  <2> DEFINE log == history[k]
             read == snapshot[u]
             n == Len(read) + 1
  <2>1. kind = "cas"
    BY <1>3 DEF Exclusive, OneHome, CasSteps, IInv, TypeOK
  <2>2. log \in Seq(Entry) /\ read \in Seq(Entry) /\ read # log
    BY <1>2, <1>3 DEF IInv, TypeOK, Unchanged
  <2>3. /\ Len(read) <= Len(log)
        /\ \A i \in 1..Len(read) : log[i] = read[i]
        /\ \A i \in (Len(read) + 1)..Len(log) :
             log[i] \in Record /\ log[i].id[1] # u /\ log[i].id[2] > 0
    BY <1>3, <2>1 DEF SnapshotIsPrefix
  <2>4. Len(read) # Len(log)
    BY <2>2, <2>3, SeqEqual
  <2>5. n \in DOMAIN log /\ n \in (Len(read) + 1)..Len(log)
    BY <2>2, <2>3, <2>4
  <2>6. \A i \in DOMAIN read : i \in DOMAIN log /\ log[i] = read[i] /\ i # n
    BY <2>2, <2>3, SMTT(30)
  <2>7. log[n] \in Record /\ log[n].id[1] # u /\ log[n].id[2] > 0
    BY <2>3, <2>5
  <2>8. \A i \in DOMAIN read : read[i] # log[n]
    BY <1>2, <1>3, <2>5, <2>6, <2>7 DEF Trail, OnceEach
  <2>9. Cardinality(Others(u, read)) + 1 <= Cardinality(Others(u, log))
    BY <2>2, <2>5, <2>6, <2>7, <2>8, OthersGain
  <2>10. attempts[u] <= Cardinality(Others(u, read))
    BY <1>3 DEF RacesLost
  <2>11. attempts[u] \in Nat /\ Cardinality(Others(u, read)) \in Nat /\ Cardinality(Others(u, log)) \in Nat
    BY <1>2, <1>3, <2>2, OthersFinite, ManagerAssumption DEF IInv, TypeOK
  <2> QED
    BY <2>9, <2>10, <2>11
<1>4. pc'[u] # "idle" => attempts'[u] <= Cardinality(Others(u, history'[call'[u].key]))
  <2> SUFFICES ASSUME pc'[u] # "idle" PROVE attempts'[u] <= Cardinality(Others(u, history'[call'[u].key]))
    OBVIOUS
  <2>1. CASE pc[u] = "idle" /\ attempts'[u] = attempts[u]
    <3>1. attempts'[u] = 0
      BY <2>1 DEF RacesLost
    <3>2. call'[u].key \in Keys /\ history'[call'[u].key] \in Seq(Entry)
      BY NextIInv DEF IInv, TypeOK, CallArgs
    <3>3. Cardinality(Others(u, history'[call'[u].key])) \in Nat
      BY <3>2, OthersFinite
    <3> QED
      BY <3>1, <3>3
  <2>2. CASE pc[u] # "idle" /\ call'[u] = call[u] /\ attempts'[u] = attempts[u]
    <3>1. attempts[u] <= Cardinality(Others(u, history[k])) /\ attempts[u] \in Nat
      BY <2>2, ManagerAssumption DEF RacesLost, IInv, TypeOK
    <3> QED
      BY <1>2, <2>2, <3>1
  <2>3. CASE pc[u] = "commit" /\ ~Unchanged(u) /\ call'[u] = call[u] /\ attempts'[u] = attempts[u] + 1
             /\ UNCHANGED history
    BY <1>3, <2>3
  <2> QED
    BY <2>1, <2>2, <2>3, RacesCounted
<1>5. ASSUME pc'[u] \in {"legacy", "commit"} PROVE attempts'[u] <= Cardinality(Others(u, snapshot'[u]))
  BY <1>5, WaitsToCommit DEF ReadHistory, ReadLegacy, ReadSwallowed, RacesLost
<1> QED
  BY <1>1, <1>4, <1>5 DEF RacesLost, Others, Records

(* The legacy copy may only be rewritten by a call whose record is already in
   the history, and then the reader's bytes are not the history any more. *)
LEMMA LegacyStaysAgreed ==
  ASSUME IInv, Exclusive, Trail, [Next]_vars, NEW u \in Threads, LegacyAgrees(u)
  PROVE  LegacyAgrees(u)'
<1> DEFINE k == call[u].key
<1>0. kind' = kind
  BY StoreKindFixed
<1> SUFFICES ASSUME kind = "cas", pc'[u] = "commit", ~Known(snapshot'[u]), history'[k] = snapshot'[u],
                    u \notin unseen'
             PROVE  call'[u] = call[u] /\ ~Stale(u, current'[k])
  BY <1>0, WaitsToCommit DEF LegacyAgrees, Known, Stale
<1>1. call'[u] = call[u]
  BY WaitsToCommit
<1>2. CASE ReadLegacy(u) /\ UNCHANGED store /\ ~Stale(u, current[k])
  BY <1>1, <1>2 DEF store
<1>4. u \notin unseen
  BY UnseenStays
<1>3. CASE pc[u] = "commit" /\ snapshot'[u] = snapshot[u]
  <2>1. k \in Keys
    BY <1>3, NewRecordLegal DEF IInv
  <2>2. history[k] = snapshot[u]
    <3>1. ASSUME NEW t \in Threads, Appends(t), call[t].key = k PROVE Known(history'[k])
      BY <3>1, AppendedEntries DEF Known
    <3>2. ASSUME NEW t \in Threads, Appends(t), call[t].key # k PROVE history'[k] = history[k]
      BY <2>1, <3>2, AppendedEntries
    <3> QED
      BY <1>3, <3>1, <3>2, HistoryGrows
  <2>3. ~Stale(u, current[k])
    BY <1>3, <1>4, <2>2 DEF LegacyAgrees
  <2>4. ASSUME NEW t \in Threads, WriteCurrent(t) PROVE current'[k] = current[k]
    <3>1. Known(history[call[t].key])
      BY <2>4 DEF WriteCurrent, Trail, Copying
    <3>2. call[t].key # k
      BY <1>3, <2>2, <3>1
    <3> QED
      BY <2>1, <2>4, <3>2 DEF WriteCurrent, IInv, TypeOK
  <2>5. current'[k] = current[k]
    BY <2>4, CopiesWritten
  <2> QED
    BY <1>1, <2>3, <2>5
<1> QED
  BY <1>1, <1>2, <1>3, WaitsToCommit

(* Between the check and the copy a plain dict is this thread's alone. *)
LEMMA CheckedStaysAgreed ==
  ASSUME IInv, Exclusive, [Next]_vars, NEW u \in Threads, CopyAgrees(u)
  PROVE  CopyAgrees(u)'
<1> DEFINE k == call[u].key
           Checked == {"load", "store", "copy"}
<1>0. kind' = kind
  BY StoreKindFixed
<1> SUFFICES ASSUME kind = "dict", pc'[u] \in Checked, u \notin unseen'
             PROVE  call'[u] = call[u] /\ ~Stale(u, current'[k])
  BY <1>0 DEF CopyAgrees, Stale
<1>1. /\ call'[u] = call[u]
      /\ \/ CheckCurrent(u) /\ UNCHANGED current /\ ~Stale(u, current[k])
         \/ pc[u] \in Checked
  <2> USE DEF IInv, TypeOK
  <2>1. CASE ~Acts(u)
    BY <2>1, Bystander
  <2>2. CASE Call(u) \/ Lock(u) \/ StoreFault(u) \/ ReadSwallowed(u) \/ WriteCurrent(u)
    BY <2>2 DEF Call, Lock, StoreFault, ReadSwallowed, WriteCurrent, Return, Goto
  <2>3. CASE CasStep(u)
    BY <2>3 DEF CasStep, ReadHistory, ReadLegacy, Commit, LoseRace, Exclusive, OneHome, CasSteps
  <2>4. CASE CheckCurrent(u)
    BY <2>4 DEF CheckCurrent, Return, Goto, store
  <2>5. CASE LoadHistory(u) \/ StoreHistory(u)
    BY <2>5 DEF LoadHistory, StoreHistory, Return, Goto
  <2> QED
    BY <2>1, <2>2, <2>3, <2>4, <2>5 DEF Acts, Step, PlainStep
<1>2. CASE pc[u] \in Checked
  <2>1. k \in Keys /\ ~Stale(u, current[k])
    BY <1>2, UnseenStays, NewRecordLegal DEF IInv, CopyAgrees
  <2>2. ASSUME NEW t \in Threads, WriteCurrent(t) PROVE current'[k] = current[k]
    <3>1. t # u
      BY <2>2 DEF WriteCurrent, Return, IInv, TypeOK
    <3>2. ProcessOf[t] = ProcessOf[u]
      BY <1>2, <2>2 DEF WriteCurrent, Exclusive, OneHome
    <3>3. call[t].key # k
      BY <1>2, <2>2, <3>1, <3>2 DEF WriteCurrent, Exclusive, OnePerKey, Unlocked
    <3> QED
      BY <2>1, <2>2, <3>3 DEF WriteCurrent, IInv, TypeOK
  <2> QED
    BY <1>1, <2>1, <2>2, CopiesWritten
<1> QED
  BY <1>1, <1>2

LEMMA ReadableStays ==
  ASSUME IInv, Exclusive, [Next]_vars, NEW u \in Threads, ReadableOnly(u)
  PROVE  ReadableOnly(u)'
<1>0. kind' = kind /\ readable' = readable
  BY StoreKindFixed, CopiesWritten
<1>1. CASE pc'[u] \in {"legacy", "commit"}
  BY <1>0, <1>1, WaitsToCommit DEF ReadLegacy, ReadSwallowed, ReadableOnly
<1>2. CASE pc'[u] = "copy"
  BY <1>0, <1>2, CopyAfterAppend DEF Appends, ReadableOnly
<1> QED
  BY <1>1, <1>2 DEF ReadableOnly

LEMMA NextReading == IInv /\ Exclusive /\ Trail /\ Reading /\ [Next]_vars => Reading'
<1> SUFFICES ASSUME IInv, Exclusive, Trail, Reading, [Next]_vars PROVE Reading'
  OBVIOUS
<1>1. ASSUME NEW u \in Threads
      PROVE  (SnapshotIsPrefix(u) /\ RacesLost(u) /\ LegacyAgrees(u) /\ CopyAgrees(u) /\ ReadableOnly(u))'
  <2>1. SnapshotIsPrefix(u) /\ RacesLost(u) /\ LegacyAgrees(u) /\ CopyAgrees(u) /\ ReadableOnly(u)
    BY DEF Reading
  <2> QED
    BY <2>1, SnapshotStaysPrefix, RacesStayCounted, LegacyStaysAgreed, CheckedStaysAgreed, ReadableStays
<1>2. LogNeverBehind'
  <2> SUFFICES ASSUME NEW k \in Keys, current'[k] \in Record, current'[k].id[2] > 0
               PROVE  \E i \in DOMAIN history'[k] : history'[k][i] = current'[k]
    BY DEF LogNeverBehind, Records
  <2>1. \E i \in DOMAIN history[k] : history[k][i] = current'[k]
    <3>1. CASE current'[k] = current[k]
      BY <3>1 DEF Reading, LogNeverBehind, Records
    <3>2. ASSUME NEW t \in Threads, WriteCurrent(t), current'[k] # current[k]
          PROVE  \E i \in DOMAIN history[k] : history[k][i] = current'[k]
      <4>1. call[t].key = k /\ current'[k] = NewRecord(t) /\ pc[t] = "copy"
        BY <3>2 DEF WriteCurrent, IInv, TypeOK
      <4> QED
        BY <4>1 DEF Trail, Copying
    <3> QED
      BY <3>1, <3>2, CopiesWritten
  <2> QED
    BY <2>1, RecordsStay
<1> QED
  BY <1>1, <1>2 DEF Reading

Inv == IInv /\ Exclusive /\ Trail /\ Reading

LEMMA InvHolds == Spec => []Inv
<1>1. Init => Inv
  BY InitIInv, InitExclusive, InitTrail, InitReading DEF Inv
<1>2. Inv /\ [Next]_vars => Inv'
  BY NextIInv, NextExclusive, NextTrail, NextReading DEF Inv
<1> QED
  BY <1>1, <1>2, PTL DEF Spec
------------------------------------------------------------------------------
(* A plain dict forks the story only after a failure: a call that dies between
   its two writes leaves the _current copy one record behind the log, which
   costs at most one break, paid by the next writer; a call whose read failed
   is not checked, and may break the story itself.  A store is taken over
   with no copy behind; otherwise the break may be paid for an earlier life. *)
InheritedInStep ==
  \A s \in InitialStores : Known(s.history) => s.current = s.history[Len(s.history)]

Copied(k) == \E t \in Threads : pc[t] = "copy" /\ call[t].key = k
Behind(k) == Known(history[k]) /\ current[k] # history[k][Len(history[k])] /\ ~Copied(k)

Unchecked(k) == \E t \in unseen : pc[t] \in {"load", "store"} /\ call[t].key = k

(* The breaks of a key that are there, and those that may still come of what
   has failed so far. *)
Owed(k) == (IF Behind(k) THEN 1 ELSE 0) + (IF Unchecked(k) THEN 1 ELSE 0)

Forks ==
  kind = "dict" =>
    \A k \in Keys : Cardinality(Breaks(history[k])) + Owed(k) <= failures

CopyThere == failures = 0 => \A k \in Keys : Known(history[k]) => current[k] # Absent \/ Copied(k)

InStep == Forks /\ CopyThere

LEMMA BreaksFinite ==
  ASSUME NEW log \in Seq(Entry)
  PROVE  IsFiniteSet(Breaks(log)) /\ Cardinality(Breaks(log)) \in Nat
<1>1. Breaks(log) \in SUBSET (1..(Len(log) - 1)) /\ Len(log) - 1 \in Int
  BY LenProperties DEF Breaks
<1>2. IsFiniteSet(1..(Len(log) - 1))
  BY <1>1, FS_Interval
<1>3. IsFiniteSet(Breaks(log))
  BY <1>1, <1>2, FS_Subset
<1> QED
  BY <1>3, FS_CardinalityType

(* An append adds one break at most, and none if the record continues the log. *)
LEMMA AppendBreaks ==
  ASSUME NEW log \in Seq(Entry), NEW rec \in Record
  PROVE  /\ Cardinality(Breaks(Append(log, rec))) <= Cardinality(Breaks(log)) + 1
         /\ (Known(log) => log[Len(log)] \notin Record \/ log[Len(log)].to = rec.from)
              => Cardinality(Breaks(Append(log, rec))) <= Cardinality(Breaks(log))
<1> DEFINE longer == Append(log, rec)
           n == Len(log)
<1>1. /\ longer \in Seq(Entry) /\ Len(longer) = n + 1 /\ n \in Nat
      /\ longer[n + 1] = rec /\ \A i \in 1..n : longer[i] = log[i]
  BY AppendProperties DEF Entry
<1>2. ASSUME NEW i \in Breaks(longer), i # n PROVE i \in Breaks(log)
  <2>1. i \in 1..n /\ longer[i] \in Record /\ longer[i+1] \in Record /\ longer[i].to # longer[i+1].from
    BY <1>1, <1>2 DEF Breaks
  <2>2. i \in 1..(n - 1) /\ longer[i] = log[i] /\ longer[i+1] = log[i+1]
    BY <1>1, <1>2, <2>1
  <2> QED
    BY <2>1, <2>2 DEF Breaks
<1>3. ASSUME n \in Breaks(longer)
      PROVE  Known(log) /\ log[n] \in Record /\ log[n].to # rec.from
  <2>1. n \in 1..n /\ longer[n] \in Record /\ longer[n].to # longer[n+1].from
    BY <1>1, <1>3 DEF Breaks
  <2>2. longer[n] = log[n] /\ log # <<>>
    BY <1>1, <2>1
  <2> QED
    BY <1>1, <2>1, <2>2, ManagerAssumption DEF Known
<1>4. /\ IsFiniteSet(Breaks(log)) /\ Cardinality(Breaks(log)) \in Nat
      /\ Cardinality(Breaks(longer)) \in Nat
  BY <1>1, BreaksFinite
<1>5. /\ IsFiniteSet(Breaks(log) \cup {n})
      /\ Cardinality(Breaks(log) \cup {n}) <= Cardinality(Breaks(log)) + 1
      /\ Cardinality(Breaks(log) \cup {n}) \in Nat
  <2>1. IsFiniteSet(Breaks(log) \cup {n})
    BY <1>4, FS_AddElement
  <2>2. Cardinality(Breaks(log) \cup {n})
          = IF n \in Breaks(log) THEN Cardinality(Breaks(log)) ELSE Cardinality(Breaks(log)) + 1
    BY <1>4, FS_AddElement
  <2> QED
    BY <1>4, <2>1, <2>2
<1>6. Breaks(longer) \in SUBSET (Breaks(log) \cup {n})
  BY <1>2
<1>7. Cardinality(Breaks(longer)) <= Cardinality(Breaks(log) \cup {n})
  BY <1>5, <1>6, FS_Subset
<1>8. ASSUME Known(log) => log[Len(log)] \notin Record \/ log[Len(log)].to = rec.from
      PROVE  Cardinality(Breaks(longer)) <= Cardinality(Breaks(log))
  <2>1. Breaks(longer) \in SUBSET Breaks(log)
    BY <1>2, <1>3, <1>8
  <2> QED
    BY <1>4, <2>1, FS_Subset
<1> HIDE DEF longer, n
<1> QED
  BY <1>4, <1>5, <1>7, <1>8 DEF longer, n

(* A call that has not written its copy still will, or has failed. *)
LEMMA CopyLeft ==
  ASSUME IInv, [Next]_vars, NEW t \in Threads, pc[t] = "copy"
  PROVE  \/ pc'[t] = "copy" /\ call'[t] = call[t]
         \/ WriteCurrent(t)
         \/ failures' = failures + 1 /\ unseen' \subseteq unseen
<1> USE DEF IInv, TypeOK
<1>1. ASSUME NEW u \in Threads, Call(u) \/ Lock(u) \/ CasStep(u)
      PROVE  pc'[t] = "copy" /\ call'[t] = call[t]
  BY <1>1 DEF Call, Lock, CasStep, ReadHistory, ReadLegacy, Commit, LoseRace, Return, Goto
<1>2. ASSUME NEW u \in Threads, PlainStep(u)
      PROVE  pc'[t] = "copy" /\ call'[t] = call[t]
  BY <1>2 DEF PlainStep, CheckCurrent, LoadHistory, StoreHistory, Return, Goto
<1>3. ASSUME NEW u \in Threads, WriteCurrent(u)
      PROVE  (pc'[t] = "copy" /\ call'[t] = call[t]) \/ WriteCurrent(t)
  BY <1>3 DEF WriteCurrent, Return
<1>4. ASSUME NEW u \in Threads, StoreFault(u) PROVE failures' = failures + 1 /\ unseen' \subseteq unseen
  BY <1>4 DEF StoreFault, Return
<1>5. ASSUME NEW p \in Processes, Crash(p) PROVE failures' = failures + 1 /\ unseen' \subseteq unseen
  BY <1>5 DEF Crash
<1>7. ASSUME NEW u \in Threads, ReadSwallowed(u) PROVE pc'[t] = "copy" /\ call'[t] = call[t]
  BY <1>7 DEF ReadSwallowed, Goto
<1>6. UNCHANGED vars => pc'[t] = "copy" /\ call'[t] = call[t]
  BY DEF vars
<1> QED
  BY <1>1, <1>2, <1>3, <1>4, <1>5, <1>6, <1>7 DEF Next, Step, Rest

(* A call that goes unchecked became so by a failure. *)
LEMMA UncheckedByFailure ==
  ASSUME IInv, Exclusive, [Next]_vars, NEW k, Unchecked(k)'
  PROVE  Unchecked(k) \/ (failures' = failures + 1 /\ ~(unseen' \subseteq unseen))
<1>1. PICK u \in unseen' : pc'[u] \in {"load", "store"} /\ call'[u].key = k
  BY DEF Unchecked
<1> USE DEF IInv, TypeOK, Exclusive, UnseenPast
<1>2. ASSUME NEW t \in Threads, Call(t) \/ Lock(t) \/ StoreFault(t) \/ WriteCurrent(t) PROVE Unchecked(k)
  BY <1>1, <1>2 DEF Call, Lock, StoreFault, WriteCurrent, Return, Goto, Unchecked
<1>3. ASSUME NEW t \in Threads, CasStep(t) PROVE Unchecked(k)
  BY <1>1, <1>3 DEF CasStep, ReadHistory, ReadLegacy, Commit, LoseRace, Return, Goto, Unchecked
<1>4. ASSUME NEW t \in Threads, PlainStep(t) PROVE Unchecked(k)
  BY <1>1, <1>4 DEF PlainStep, CheckCurrent, LoadHistory, StoreHistory, Return, Goto, Unchecked
<1>5. ASSUME NEW t \in Threads, ReadSwallowed(t)
      PROVE  failures' = failures + 1 /\ ~(unseen' \subseteq unseen)
  BY <1>5 DEF ReadSwallowed
<1>6. ASSUME NEW p \in Processes, Crash(p) PROVE Unchecked(k)
  BY <1>1, <1>6 DEF Crash, Forget, Unchecked
<1>7. UNCHANGED vars => Unchecked(k)
  BY <1>1 DEF vars, Unchecked
<1> QED
  BY <1>2, <1>3, <1>4, <1>5, <1>6, <1>7 DEF Next, Step, Rest

LEMMA FailuresCounted ==
  ASSUME IInv, [Next]_vars
  PROVE  /\ failures \in Nat
         /\ UNCHANGED failures \/ (failures' = failures + 1 /\ UNCHANGED store)
<1>1. failures \in Nat
  BY ManagerAssumption DEF IInv, TypeOK
<1>2. UNCHANGED failures \/ (failures' = failures + 1 /\ UNCHANGED store)
  BY DEF Next, Step, CasStep, PlainStep, Rest, Call, Lock, ReadHistory, ReadLegacy, Commit, LoseRace,
     CheckCurrent, LoadHistory, StoreHistory, WriteCurrent, StoreFault, ReadSwallowed, Crash, vars
<1> QED
  BY <1>1, <1>2

LEMMA InitInStep ==
  ASSUME InheritedInStep, Init
  PROVE  InStep
<1>1. PICK s \in [Keys -> InitialStores] :
        history = [k \in Keys |-> s[k].history] /\ current = [k \in Keys |-> s[k].current]
  BY DEF Init
<1>2. ASSUME NEW k \in Keys, Known(history[k])
      PROVE  current[k] = history[k][Len(history[k])] /\ current[k] # Absent
  <2>1. current[k] = history[k][Len(history[k])]
    BY <1>1, <1>2 DEF InheritedInStep, Known
  <2>2. history[k] \in Seq(Entry) /\ history[k] # <<>> /\ history[k][Len(history[k])] # Malformed
    BY <1>2, InitIInv DEF IInv, TypeOK, Known
  <2>3. Len(history[k]) \in 1..Len(history[k])
    BY <2>2, EmptySeq
  <2>4. history[k][Len(history[k])] \in Record
    BY <2>2, <2>3, ElementOfSeq DEF Entry
  <2> QED
    BY <2>1, <2>4, ManagerAssumption
<1>3. Forks
  <2> SUFFICES ASSUME NEW k \in Keys
               PROVE  Cardinality(Breaks(history[k])) + Owed(k) <= failures
    BY DEF Forks
  <2>1. ~Behind(k) /\ ~Unchecked(k)
    BY <1>2 DEF Behind, Init, Unchecked
  <2>2. Breaks(history[k]) = {} /\ failures = 0
    BY <1>1, InheritedAssumption DEF Init
  <2> QED
    BY <2>1, <2>2, FS_EmptySet DEF Owed
<1>4. CopyThere
  BY <1>2 DEF CopyThere
<1> QED
  BY <1>3, <1>4 DEF InStep

(* The history and the copies of the other keys stay as they are. *)
LEMMA NextForks ==
  ASSUME IInv, Exclusive, Trail, Reading, Forks, [Next]_vars
  PROVE  Forks'
<1>0. kind' = kind
  BY StoreKindFixed
<1> SUFFICES ASSUME kind = "dict", NEW k \in Keys
             PROVE  Cardinality(Breaks(history'[k])) + Owed(k)' <= failures'
  BY <1>0 DEF Forks, Breaks
<1> DEFINE b == Cardinality(Breaks(history[k]))
           c == Cardinality(Breaks(history'[k]))
<1>1. /\ b \in Nat /\ c \in Nat /\ failures \in Nat
      /\ b + Owed(k) <= failures
  <2>1. history[k] \in Seq(Entry) /\ history'[k] \in Seq(Entry)
    BY NextIInv DEF IInv, TypeOK
  <2> QED
    BY <2>1, BreaksFinite, FailuresCounted DEF Forks
<1>2. ASSUME NEW t \in Threads, Appends(t), call[t].key = k
      PROVE  c + Owed(k)' <= failures'
  <2>1. pc[t] = "store" /\ UNCHANGED <<current, failures, call>>
    BY <1>2 DEF Appends
  <2>0. ASSUME NEW u \in Threads, u # t, pc[u] \in {"load", "store", "copy"}, call[u].key = k PROVE FALSE
    <3>1. ProcessOf[u] = ProcessOf[t]
      BY <2>0, <2>1 DEF Exclusive, OneHome
    <3> QED
      BY <1>2, <2>0, <2>1, <3>1 DEF Exclusive, OnePerKey, Unlocked
  <2>2. ~Behind(k)' /\ ~Unchecked(k)'
    <3>1. ~Behind(k)'
      BY <1>2, <2>1 DEF Appends, Behind, Copied, IInv, TypeOK
    <3>2. SUFFICES ASSUME NEW u \in unseen', pc'[u] \in {"load", "store"}, call'[u].key = k PROVE FALSE
      BY <3>1 DEF Unchecked
    <3>3. u \in Threads /\ u # t /\ pc[u] = pc'[u] /\ call[u].key = k
      BY <1>2, <3>2 DEF Appends, IInv, TypeOK
    <3> QED
      BY <2>0, <3>2, <3>3
  <2>3. ~Copied(k)
    BY <2>0, <2>1 DEF Copied
  <2>4. /\ NewRecord(t) \in Record /\ history[k] \in Seq(Entry)
        /\ history'[k] = Append(history[k], NewRecord(t))
    BY <1>2, AppendedEntries
  <2>5. CASE Behind(k) \/ t \in unseen
    <3>1. c <= b + 1
      BY <2>4, AppendBreaks
    <3>2. Owed(k) >= 1
      BY <1>2, <2>1, <2>5 DEF Owed, Unchecked
    <3>3. Owed(k)' = 0 /\ Owed(k) \in Nat
      BY <2>2 DEF Owed
    <3> QED
      BY <1>1, <2>1, <3>1, <3>2, <3>3
  <2>6. CASE ~(Behind(k) \/ t \in unseen)
    <3>1. Known(history[k]) => current[k] = history[k][Len(history[k])]
      BY <2>3, <2>6 DEF Behind
    <3>2. ~Stale(t, current[k]) /\ NewRecord(t).from = call[t].req.from
      BY <1>2, <2>1, <2>6 DEF Reading, CopyAgrees, NewRecord
    <3>3. Known(history[k]) =>
            history[k][Len(history[k])] \notin Record \/ history[k][Len(history[k])].to = NewRecord(t).from
      BY <3>1, <3>2 DEF Stale
    <3>4. c <= b
      BY <2>4, <3>3, AppendBreaks
    <3>5. Owed(k)' = 0 /\ Owed(k) \in Nat
      BY <2>2 DEF Owed
    <3> QED
      BY <1>1, <2>1, <3>4, <3>5
  <2> QED
    BY <2>5, <2>6
<1>3. ASSUME NEW t \in Threads, WriteCurrent(t), call[t].key = k
      PROVE  c + Owed(k)' <= failures'
  <2>1. UNCHANGED <<history, failures>> /\ current'[k] = NewRecord(t) /\ pc[t] = "copy"
    BY <1>3 DEF WriteCurrent, IInv, TypeOK
  <2>2. history[k][Len(history[k])] = NewRecord(t)
    BY <1>3, <2>1 DEF Trail, Copying
  <2>3. ~Behind(k)'
    BY <2>1, <2>2 DEF Behind
  <2>4. failures' # failures + 1
    BY <1>1, <2>1
  <2>5. Unchecked(k)' => Unchecked(k)
    BY <2>4, UncheckedByFailure
  <2>6. Owed(k)' <= Owed(k) /\ Owed(k)' \in Nat /\ Owed(k) \in Nat
    BY <2>3, <2>5 DEF Owed
  <2>7. c = b
    BY <2>1
  <2> QED
    BY <1>1, <2>1, <2>6, <2>7
<1>4. ASSUME history'[k] = history[k], current'[k] = current[k],
             ~\E t \in Threads : WriteCurrent(t) /\ call[t].key = k
      PROVE  c + Owed(k)' <= failures'
  <2>0. c = b
    BY <1>4
  <2>1. Behind(k)' => Behind(k) \/ (failures' = failures + 1 /\ unseen' \subseteq unseen)
    <3>1. Copied(k) => Copied(k)' \/ (failures' = failures + 1 /\ unseen' \subseteq unseen)
      BY <1>4, CopyLeft DEF Copied
    <3> QED
      BY <1>4, <3>1 DEF Behind, Known
  <2>2. Unchecked(k)' => Unchecked(k) \/ (failures' = failures + 1 /\ ~(unseen' \subseteq unseen))
    BY UncheckedByFailure
  <2>3. CASE failures' = failures + 1
    <3>1. Owed(k)' <= Owed(k) + 1 /\ Owed(k)' \in Nat /\ Owed(k) \in Nat
      BY <2>1, <2>2 DEF Owed
    <3> QED
      BY <1>1, <2>0, <2>3, <3>1
  <2>4. CASE failures' = failures
    <3>1. failures' # failures + 1
      BY <1>1, <2>4
    <3>2. Owed(k)' <= Owed(k) /\ Owed(k)' \in Nat /\ Owed(k) \in Nat
      BY <2>1, <2>2, <3>1 DEF Owed
    <3> QED
      BY <1>1, <2>0, <2>4, <3>2
  <2> QED
    BY <2>3, <2>4, FailuresCounted
<1>5. ASSUME ~\E t \in Threads : Appends(t) /\ call[t].key = k PROVE history'[k] = history[k]
  BY <1>5, HistoryGrows, AppendedEntries
<1>6. ASSUME ~\E t \in Threads : WriteCurrent(t) /\ call[t].key = k PROVE current'[k] = current[k]
  <2>1. ASSUME NEW t \in Threads, WriteCurrent(t) PROVE current'[k] = current[k]
    BY <1>6, <2>1 DEF WriteCurrent, IInv, TypeOK
  <2> QED
    BY <2>1, CopiesWritten
<1> QED
  BY <1>2, <1>3, <1>4, <1>5, <1>6

LEMMA NextCopyThere ==
  ASSUME IInv, Exclusive, CopyThere, [Next]_vars
  PROVE  CopyThere'
<1> SUFFICES ASSUME failures' = 0, NEW k \in Keys, Known(history'[k])
             PROVE  current'[k] # Absent \/ Copied(k)'
  BY DEF CopyThere, Known
<1>1. failures = 0 /\ failures' # failures + 1
  BY FailuresCounted
<1>2. ASSUME NEW t \in Threads, Appends(t), call[t].key = k PROVE Copied(k)'
  BY <1>2 DEF Appends, Copied, IInv, TypeOK
<1>3. ASSUME NEW t \in Threads, WriteCurrent(t), call[t].key = k PROVE current'[k] # Absent
  <2>1. NewRecord(t) \in Record
    BY <1>3, NewRecordLegal DEF WriteCurrent, IInv
  <2> QED
    BY <1>3, <2>1, ManagerAssumption DEF WriteCurrent, IInv, TypeOK
<1>4. ASSUME history'[k] = history[k], ~\E t \in Threads : WriteCurrent(t) /\ call[t].key = k
      PROVE  current'[k] # Absent \/ Copied(k)'
  <2>1. current[k] # Absent \/ Copied(k)
    BY <1>1, <1>4 DEF CopyThere, Known
  <2>2. Copied(k) => Copied(k)'
    BY <1>1, <1>4, CopyLeft DEF Copied
  <2>3. ASSUME NEW t \in Threads, WriteCurrent(t) PROVE current'[k] = current[k]
    BY <1>4, <2>3 DEF WriteCurrent, IInv, TypeOK
  <2> QED
    BY <2>1, <2>2, <2>3, CopiesWritten
<1>5. ASSUME ~\E t \in Threads : Appends(t) /\ call[t].key = k PROVE history'[k] = history[k]
  BY <1>5, HistoryGrows, AppendedEntries
<1> QED
  BY <1>2, <1>3, <1>4, <1>5

LEMMA InStepHolds ==
  ASSUME InheritedInStep
  PROVE  Spec => []InStep
<1>1. Init => InStep
  BY InitInStep
<1>2. Inv /\ InStep /\ [Next]_vars => InStep'
  BY NextForks, NextCopyThere DEF Inv, InStep
<1> QED
  BY <1>1, <1>2, InvHolds, PTL DEF Spec
------------------------------------------------------------------------------
(* Every variable stays in its range. *)
THEOREM TypeCorrect == Spec => []TypeOK
<1>1. IInv => TypeOK
  BY DEF IInv
<1> QED
  BY <1>1, InitIInv, NextIInv, PTL DEF Spec

(* With compare_and_set the audit trail of every key tells one story. *)
THEOREM ChainHolds == Spec => [](kind = "cas" => HistoryChained)
<1>1. IInv => (kind = "cas" => HistoryChained)
  BY FS_EmptySet DEF IInv, Chained, HistoryChained
<1> QED
  BY <1>1, InitIInv, NextIInv, PTL DEF Spec

(* The audit trail agrees with what callers were told. *)
THEOREM OutcomesHold == Spec => []OutcomesMatchTheTrail
<1>1. Inv => OutcomesMatchTheTrail
  <2> SUFFICES ASSUME Inv PROVE OutcomesMatchTheTrail
    OBVIOUS
  <2>1. ASSUME NEW id \in acked
        PROVE  \E k \in Keys : \E i \in DOMAIN history[k] :
                 /\ Holds(k, i, id)
                 /\ \A l \in Keys : \A j \in DOMAIN history[l] : Holds(l, j, id) => l = k /\ j = i
    <3>1. PICK k \in Keys : \E i \in DOMAIN history[k] : Holds(k, i, id)
      BY DEF Inv, Trail, AckedHeld
    <3>2. PICK i \in DOMAIN history[k] : Holds(k, i, id)
      BY <3>1
    <3>3. id[2] > 0
      BY ManagerAssumption DEF Inv, IInv, TypeOK
    <3>4. \A l \in Keys : \A j \in DOMAIN history[l] : Holds(l, j, id) => l = k /\ j = i
      BY <3>2, <3>3 DEF Inv, Trail, OnceEach, Holds
    <3> QED
      BY <3>2, <3>4
  <2>2. ASSUME NEW t \in Threads, outcome[t] \in Refusals, pc[t] = "idle",
               NEW k \in Keys, NEW r \in Records(history[k])
        PROVE  r.id # Id(t)
    BY <2>2 DEF Inv, Trail, NothingYet, NoRecordOf, Holds, Records
  <2> QED
    BY <2>1, <2>2 DEF OutcomesMatchTheTrail, Refusals
<1> QED
  BY <1>1, InvHolds, PTL

(* A _current entry written by a manager is also in the history. *)
THEOREM LogHolds == Spec => []LogNeverBehind
<1>1. Inv => LogNeverBehind
  BY DEF Inv, Reading
<1> QED
  BY <1>1, InvHolds, PTL

(* A lost race is another writer's record. *)
THEOREM ProgressHolds == Spec => []LostRaceMeansProgress
<1>1. Inv => LostRaceMeansProgress
  <2> SUFFICES ASSUME Inv, NEW t \in Threads, attempts[t] > 0
               PROVE  attempts[t] <= Cardinality({r \in Records(history[call[t].key]) : r.id[1] # t /\ r.id[2] > 0})
    BY DEF LostRaceMeansProgress
  <2>1. RacesLost(t)
    BY DEF Inv, Reading
  <2>2. pc[t] # "idle"
    BY <2>1 DEF RacesLost
  <2> QED
    BY <2>1, <2>2 DEF RacesLost, Others
<1> QED
  BY <1>1, InvHolds, PTL

(* What get_current_state answers moves along the transition tables only,
   unless a call moves it whose read of the state raised and was swallowed. *)
THEOREM StateMoves == Spec => CurrentStateMovesLegally
<1> DEFINE Legal(k) ==
      CurrentState(k) # "unknown" /\ CurrentState(k)' # CurrentState(k)
        => \/ CurrentState(k)' \in Forward[CurrentState(k)] \cup Backward[CurrentState(k)]
           \/ \E t \in Threads : MovesUnseen(t, k)
<1>1. Inv /\ [Next]_vars => \A k \in Keys : Legal(k)
  <2> SUFFICES ASSUME Inv, [Next]_vars, NEW k \in Keys PROVE Legal(k)
    OBVIOUS
  <2> USE DEF Inv
  <2>0. kind' = kind /\ readable' = readable
    BY StoreKindFixed, CopiesWritten
  <2>1. CASE UNCHANGED <<history[k], current[k]>>
    BY <2>0, <2>1 DEF CurrentState, Known, StateIn
  <2>2. ASSUME NEW t \in Threads, Appends(t), call[t].key = k, kind = "cas" PROVE Legal(k)
    <3> DEFINE rec == NewRecord(t)
               log == history[k]
    <3>1. pc[t] = "commit" /\ UNCHANGED current
      BY <2>2 DEF Appends
    <3>2. rec \in Record /\ LegalRecord(rec) /\ rec.from = call[t].req.from
      BY <3>1, NewRecordLegal DEF IInv
    <3>3. readable[k]
      BY <2>2, <3>1 DEF Reading, ReadableOnly
    <3>4. Known(history'[k]) /\ history'[k][Len(history'[k])] = rec
      BY <2>2, AppendedEntries DEF Known
    <3>5. CurrentState(k)' = rec.to
      BY <2>0, <2>2, <3>2, <3>3, <3>4 DEF CurrentState, Known, StateIn
    <3>8. CASE t \in unseen
      <4>1. pc'[t] # pc[t] /\ rec.to = call[t].req.to
        BY <2>2, <3>1 DEF Appends, NewRecord, IInv, TypeOK
      <4> QED
        BY <2>2, <3>5, <3>8, <4>1 DEF MovesUnseen
    <3>6. CurrentState(k) = "unknown" \/ CurrentState(k) = rec.from \/ t \in unseen
      <4>1. snapshot[t] = log
        BY <2>2 DEF Appends
      <4>2. CASE Known(log)
        BY <2>2, <3>1, <3>2, <3>3, <4>1, <4>2 DEF IInv, AboutToCommit, CurrentState, StateIn, Stale
      <4>3. CASE ~Known(log)
        BY <2>2, <3>1, <3>2, <4>1, <4>3 DEF Reading, LegacyAgrees, CurrentState, StateIn, Stale
      <4> QED
        BY <4>2, <4>3
    <3>7. rec.to \in Forward[rec.from] \cup Backward[rec.from]
      BY <3>2 DEF LegalRecord, IsForward
    <3> QED
      BY <3>5, <3>6, <3>7, <3>8
  <2>3. ASSUME NEW t \in Threads, Appends(t), kind # "cas" PROVE Legal(k)
    BY <2>0, <2>3 DEF Appends, CurrentState, StateIn
  <2>4. ASSUME NEW t \in Threads, Appends(t), call[t].key # k PROVE Legal(k)
    BY <2>1, <2>4, AppendedEntries DEF Appends
  <2>5. ASSUME NEW t \in Threads, WriteCurrent(t), kind = "cas" PROVE Legal(k)
    <3>1. CASE call[t].key = k
      <4>1. Known(history[k]) /\ readable[k] /\ history' = history
        BY <2>5, <3>1 DEF WriteCurrent, Trail, Copying, Reading, ReadableOnly
      <4>2. CurrentState(k) = StateIn(history[k][Len(history[k])])
        BY <2>5, <4>1 DEF CurrentState
      <4>3. CurrentState(k)' = StateIn(history[k][Len(history[k])])
        BY <2>0, <2>5, <4>1 DEF CurrentState, Known, StateIn
      <4> QED
        BY <4>2, <4>3
    <3>2. CASE call[t].key # k
      BY <2>1, <2>5, <3>2 DEF WriteCurrent, IInv, TypeOK
    <3> QED
      BY <3>1, <3>2
  <2>6. ASSUME NEW t \in Threads, WriteCurrent(t), kind = "dict" PROVE Legal(k)
    <3>1. CASE call[t].key = k
      <4> DEFINE rec == NewRecord(t)
      <4>1. rec \in Record /\ LegalRecord(rec) /\ rec.from = call[t].req.from
        BY <2>6, NewRecordLegal DEF IInv, WriteCurrent
      <4>2. CurrentState(k)' = rec.to
        BY <2>0, <2>6, <3>1, <4>1 DEF WriteCurrent, CurrentState, StateIn, IInv, TypeOK
      <4>4. CASE t \in unseen
        <5>1. pc'[t] # pc[t] /\ rec.to = call[t].req.to
          BY <2>6 DEF WriteCurrent, Return, NewRecord, IInv, TypeOK
        <5> QED
          BY <3>1, <4>2, <4>4, <5>1 DEF MovesUnseen
      <4>3. CurrentState(k) = "unknown" \/ CurrentState(k) = rec.from \/ t \in unseen
        BY <2>6, <3>1, <4>1 DEF WriteCurrent, Reading, CopyAgrees, Stale, CurrentState, StateIn
      <4> QED
        BY <4>1, <4>2, <4>3, <4>4 DEF LegalRecord, IsForward
    <3>2. CASE call[t].key # k
      BY <2>1, <2>6, <3>2 DEF WriteCurrent, IInv, TypeOK
    <3> QED
      BY <3>1, <3>2
  <2>7. kind \in {"cas", "dict"}
    BY DEF IInv, TypeOK
  <2>8. ASSUME NEW t \in Threads, Appends(t) PROVE Legal(k)
    BY <2>2, <2>3, <2>4, <2>8
  <2>9. ASSUME NEW t \in Threads, WriteCurrent(t) PROVE Legal(k)
    BY <2>5, <2>6, <2>7, <2>9
  <2> QED
    BY <2>1, <2>8, <2>9, HistoryGrows, CopiesWritten
<1> QED
  BY <1>1, InvHolds, PTL DEF Spec, CurrentStateMovesLegally

(* The audit trail of a key tells one story with compare_and_set, and on a
   plain dict has at most one break for each failure, if the store was taken
   over in step. *)
THEOREM TrailBreaksOnlyByFailure ==
  ASSUME InheritedInStep
  PROVE  Spec => []HistoryChained
<1>1. Inv /\ InStep => HistoryChained
  <2> SUFFICES ASSUME Inv, InStep, NEW k \in Keys
               PROVE  Cardinality(Breaks(history[k])) <= IF kind = "cas" THEN 0 ELSE failures
    BY DEF HistoryChained
  <2>1. CASE kind = "cas"
    BY <2>1, FS_EmptySet DEF Inv, IInv, Chained
  <2>2. CASE kind = "dict"
    <3>1. history[k] \in Seq(Entry) /\ failures \in Nat
      BY ManagerAssumption DEF Inv, IInv, TypeOK
    <3>2. Cardinality(Breaks(history[k])) \in Nat
      BY <3>1, BreaksFinite
    <3>3. Cardinality(Breaks(history[k])) + Owed(k) <= failures
      BY <2>2 DEF InStep, Forks
    <3>4. Owed(k) \in Nat
      BY DEF Owed
    <3> QED
      BY <2>2, <3>1, <3>2, <3>3, <3>4
  <2> QED
    BY <2>1, <2>2 DEF Inv, IInv, TypeOK
<1> QED
  BY <1>1, InvHolds, InStepHolds, PTL

(* Nothing is left behind while nothing fails: the copy of a plain dict is the
   last record, and the scans list every key whose state is known. *)
THEOREM QuietInStep ==
  ASSUME InheritedInStep
  PROVE  Spec => []QuietStoreIsInStep
<1>1. Inv /\ InStep => QuietStoreIsInStep
  <2> SUFFICES ASSUME Inv, InStep, Quiet, failures = 0, NEW k \in Keys
               PROVE  /\ kind = "dict" /\ Known(history[k]) /\ history[k][Len(history[k])].id[2] > 0
                           => current[k] = history[k][Len(history[k])]
                      /\ CurrentState(k) # "unknown"
                           => /\ k \in KeysByState(CurrentState(k))
                              /\ CurrentState(k) = "CLASSICAL_ONLY" => k \in NeedsMigration
    BY DEF QuietStoreIsInStep
  <2>1. ~Copied(k)
    BY DEF Copied, Quiet
  <2>2. kind = "dict" => ~Behind(k)
    <3>1. history[k] \in Seq(Entry)
      BY DEF Inv, IInv, TypeOK
    <3>2. Cardinality(Breaks(history[k])) \in Nat
      BY <3>1, BreaksFinite
    <3> QED
      BY <3>2 DEF InStep, Forks, Owed
  <2>3. ASSUME CurrentState(k) # "unknown" PROVE current[k] # Absent
    <3>1. CASE kind = "cas" /\ Known(history[k])
      BY <2>1, <3>1 DEF InStep, CopyThere
    <3>2. CASE ~(kind = "cas" /\ Known(history[k]))
      BY <2>3, <3>2, ManagerAssumption DEF CurrentState, StateIn
    <3> QED
      BY <3>1, <3>2
  <2> QED
    BY <2>1, <2>2, <2>3 DEF Behind, KeysByState, NeedsMigration, ScannedKeys
<1> QED
  BY <1>1, InvHolds, InStepHolds, PTL

(* With compare_and_set every step of every manager, including a crash, is one
   legal append to one ledger, or leaves all ledgers alone. *)
THEOREM LedgerRefined == Spec => RefinesLedger
<1> USE ManagerAssumption
<1> DEFINE Ledgers == {s.history : s \in InitialStores} \cup {<<>>}
<1>1. Init => Ledger!Init
  <2> SUFFICES ASSUME Init PROVE Committed \in [Keys -> Ledgers]
    BY DEF Ledger!Init
  <2>1. PICK s \in [Keys -> InitialStores] : history = [k \in Keys |-> s[k].history]
    BY DEF Init
  <2> QED
    BY <2>1 DEF Committed
<1>2. IInv /\ [Next]_vars => [Ledger!Next]_Committed
  <2> SUFFICES ASSUME IInv, [Next]_vars PROVE Ledger!Next \/ UNCHANGED Committed
    OBVIOUS
  <2>0. kind' = kind
    BY StoreKindFixed
  <2>1. ASSUME NEW t \in Threads, Commit(t), kind = "cas" PROVE Ledger!Next
    <3> DEFINE k == call[t].key
               rec == NewRecord(t)
    <3>1. /\ rec \in Record /\ LegalRecord(rec) /\ k \in Keys
          /\ rec.from = call[t].req.from
      BY <2>1, NewRecordLegal DEF IInv, Commit
    <3>2. snapshot[t] = history[k]
      BY <2>1 DEF Commit, Unchanged
    <3>3. history' = [history EXCEPT ![k] = Append(@, rec)]
      BY <2>1, <3>2 DEF Commit
    <3>4. Known(history[k]) => ~Stale(t, history[k][Len(history[k])])
      BY <2>1, <3>2 DEF IInv, AboutToCommit, Commit
    <3>5. Ledger!Continues(history[k], rec)
      BY <3>1, <3>4 DEF Ledger!Continues, Known, Stale
    <3>6. Committed = history /\ Committed' = history'
      <4>1. history \in [Keys -> Seq(Entry)] /\ DOMAIN history' = Keys
        BY <3>3 DEF IInv, TypeOK
      <4>2. Committed = [l \in Keys |-> history[l]] /\ Committed' = [l \in Keys |-> history'[l]]
        BY <2>0, <2>1 DEF Committed
      <4>3. history' = [l \in Keys |-> history'[l]]
        BY <3>3, <4>1
      <4> QED
        BY <4>1, <4>2, <4>3
    <3> QED
      BY <3>1, <3>3, <3>5, <3>6 DEF Ledger!Next, Ledger!Extend, Ledger!LegalRecord, Ledger!IsForward,
         Ledger!Forward, Ledger!Backward, LegalRecord, IsForward, Forward, Backward
  <2>2. ASSUME NEW t \in Threads, StoreHistory(t) PROVE kind # "cas"
    BY <2>2 DEF IInv, AboutToCommit, StoreHistory, PlainSteps
  <2>3. ASSUME NEW t \in Threads,
               Call(t) \/ Lock(t) \/ ReadHistory(t) \/ ReadLegacy(t) \/ LoseRace(t)
                 \/ CheckCurrent(t) \/ LoadHistory(t) \/ WriteCurrent(t) \/ StoreFault(t) \/ ReadSwallowed(t)
        PROVE  UNCHANGED history
    BY <2>3 DEF Call, Lock, ReadHistory, ReadLegacy, LoseRace, CheckCurrent, LoadHistory,
       WriteCurrent, StoreFault, ReadSwallowed, store
  <2>4. ASSUME NEW p \in Processes, Crash(p) PROVE UNCHANGED history
    BY <2>4 DEF Crash, store
  <2>5. kind # "cas" => UNCHANGED Committed
    BY <2>0 DEF Committed
  <2>6. UNCHANGED history => UNCHANGED Committed
    BY <2>0 DEF Committed
  <2>7. ASSUME NEW t \in Threads, Commit(t) PROVE Ledger!Next \/ UNCHANGED Committed
    BY <2>1, <2>5, <2>7
  <2>8. ASSUME NEW t \in Threads, StoreHistory(t) PROVE UNCHANGED Committed
    BY <2>2, <2>5, <2>8
  <2>9. ASSUME NEW t \in Threads, Call(t) \/ Step(t) \/ StoreFault(t) \/ ReadSwallowed(t)
        PROVE  Ledger!Next \/ UNCHANGED Committed
    BY <2>3, <2>6, <2>7, <2>8, <2>9 DEF Step, CasStep, PlainStep
  <2>10. UNCHANGED vars => UNCHANGED Committed
    BY <2>6 DEF vars
  <2> QED
    BY <2>4, <2>6, <2>9, <2>10 DEF Next, Rest
<1> QED
  BY <1>1, <1>2, InitIInv, NextIInv, PTL DEF Spec, RefinesLedger, Ledger!Spec
===============================================================================
