--------------------------- MODULE MigrationManager ---------------------------
(***************************************************************************)
(* MigrationStateManager (migrate/state.py): managers in several processes *)
(* record state transitions of keys in one shared store.  Each key has two *)
(* store entries, <key>_history and <key>_current.  With a store that has  *)
(* compare_and_set the history entry is committed atomically; with a plain *)
(* dict only a per-key lock inside each process protects the               *)
(* read-check-write.  Which kind of store it is, is drawn in Init.  Every  *)
(* store access is a step of its own.                                      *)
(***************************************************************************)
EXTENDS Integers, Sequences, FiniteSets, MigrationStates

CONSTANTS
  Keys,
  Threads,         \* threads that call transition()
  Processes,       \* one MigrationStateManager in each
  ProcessOf,       \* [Threads -> Processes]
  Requests,        \* the arguments callers pass
  InitialStores,   \* what the two entries of a key may hold at the start
  Home,            \* the one process that uses a store without compare_and_set
  MaxAttempts,     \* _MAX_CAS_ATTEMPTS (20 in the code)
  MaxCalls,        \* bound: calls of transition() per thread
  MaxFailures,     \* bound: process crashes and store exceptions together
  NoCall,
  Absent,          \* the entry is not in the store
  Malformed        \* present, but not readable as a record

(* A record's id stands for the uuid drawn by the call that made it; number
   0 is for records inherited from an earlier life of the store. *)
Record == [id: Threads \X (0..MaxCalls), from: States, to: States, reason: BOOLEAN]
Entry == Record \cup {Malformed}
Copy == Record \cup {Malformed, Absent}
Request == [from: States, to: States, allowBackward: BOOLEAN, reason: BOOLEAN]
CallArgs == [key: Keys, req: Request]

(* Positions of a history where a record does not start in the state the
   record before it ended in. *)
Breaks(log) ==
  {i \in 1..(Len(log) - 1) :
     log[i] \in Record /\ log[i+1] \in Record /\ log[i].to # log[i+1].from}

ASSUME ManagerAssumption ==
  /\ ProcessOf \in [Threads -> Processes]
  /\ Requests \subseteq Request
  /\ InitialStores \subseteq [history: Seq(Entry), current: Copy, readable: BOOLEAN]
  /\ Home \in Processes
  /\ MaxAttempts \in Nat \ {0}
  /\ MaxCalls \in Nat
  /\ MaxFailures \in Nat
  /\ Malformed \notin Record /\ Absent \notin Record /\ NoCall \notin CallArgs

(* The histories inherited from an earlier life of the store tell one story. *)
ASSUME InheritedAssumption == \A s \in InitialStores : Breaks(s.history) = {}

(* No call draws the uuid of a record that was there before it. *)
ASSUME FreshIdAssumption ==
  \A s \in InitialStores :
    /\ \A i \in DOMAIN s.history : s.history[i] \in Record => s.history[i].id[2] = 0
    /\ s.current \in Record => s.current.id[2] = 0

VARIABLES
  kind,        \* what the store is: "cas" when it has compare_and_set, else "dict"
  history,     \* [Keys -> Seq(Entry)]: the <key>_history entry, absent when <<>>
  current,     \* [Keys -> Copy]: the <key>_current entry
  readable,    \* [Keys -> BOOLEAN]: the history bytes decode to a list
  pc,          \* where each thread is in transition()
  call,        \* its arguments
  snapshot,    \* the history bytes it read
  attempts,    \* lost compare-and-set races of the current call
  unseen,      \* threads whose call takes the state as unknown, its read having failed
  calls,       \* calls made so far
  outcome,     \* how its last call ended
  acked,       \* ids of the records whose call returned normally
  failures

store == <<kind, history, current, readable>>
volatile == <<pc, call, snapshot, attempts, unseen>>
vars == <<kind, history, current, readable, pc, call, snapshot, attempts, unseen, calls, outcome, acked, failures>>

Unlocked == {"idle", "lock"}
CasSteps == {"read", "legacy", "commit"}
PlainSteps == {"check", "load", "store"}
Outcomes == {"none", "ok", "invalid", "stale", "unreadable", "contended", "error", "crashed"}
------------------------------------------------------------------------------
Init ==
  /\ kind \in {"cas", "dict"}
  /\ \E s \in [Keys -> InitialStores] :
       /\ history = [k \in Keys |-> s[k].history]
       /\ current = [k \in Keys |-> s[k].current]
       /\ readable = [k \in Keys |-> s[k].readable]
  /\ pc = [t \in Threads |-> "idle"]
  /\ call = [t \in Threads |-> NoCall]
  /\ snapshot = [t \in Threads |-> <<>>]
  /\ attempts = [t \in Threads |-> 0]
  /\ unseen = {}
  /\ calls = [t \in Threads |-> 0]
  /\ outcome = [t \in Threads |-> "none"]
  /\ acked = {}
  /\ failures = 0

Id(t) == <<t, calls[t]>>

(* _new_record: the record of t's call. *)
NewRecord(t) ==
  [id |-> Id(t), from |-> call[t].req.from, to |-> call[t].req.to, reason |-> call[t].req.reason]

(* _state_from's first half: the history says which state the key is in. *)
Known(log) == log # <<>> /\ log[Len(log)] # Malformed

(* Fault variants, defined before the operator they stand in for: each is a
   plausible slip in the code, with the property that must notice it. *)
NeverStale(t, rec) == FALSE

(* The state a record leaves the key in contradicts the caller's from_state. *)
Stale(t, rec) == rec \in Record /\ rec.to # call[t].req.from

(* Leaving the locked section, by return or by exception. *)
Return(t, result) ==
  /\ pc' = [pc EXCEPT ![t] = "idle"]
  /\ call' = [call EXCEPT ![t] = NoCall]
  /\ snapshot' = [snapshot EXCEPT ![t] = <<>>]
  /\ attempts' = [attempts EXCEPT ![t] = 0]
  /\ unseen' = unseen \ {t}
  /\ outcome' = [outcome EXCEPT ![t] = result]

Goto(t, step) == pc' = [pc EXCEPT ![t] = step]

(* transition(): the arguments are validated before any lock or store access.
   A plain dict lives in the memory of one process. *)
Call(t) ==
  /\ pc[t] = "idle"
  /\ kind = "cas" \/ ProcessOf[t] = Home
  /\ calls[t] < MaxCalls
  /\ calls' = [calls EXCEPT ![t] = @ + 1]
  /\ \E k \in Keys, r \in Requests :
       \/ /\ Accepted(r)
          /\ Goto(t, "lock")
          /\ call' = [call EXCEPT ![t] = [key |-> k, req |-> r]]
          /\ outcome' = [outcome EXCEPT ![t] = "none"]
       \/ /\ ~Accepted(r)
          /\ outcome' = [outcome EXCEPT ![t] = "invalid"]
          /\ UNCHANGED <<pc, call>>
  /\ UNCHANGED <<store, snapshot, attempts, unseen, acked, failures>>

(* Fault variant of LockFree: no per-key lock. *)
AnyLock(t) == TRUE

(* with self._lock_for(key_id): one thread of a process per key. *)
LockFree(t) ==
  \A u \in Threads \ {t} :
    ProcessOf[u] = ProcessOf[t] /\ pc[u] \notin Unlocked => call[u].key # call[t].key

Lock(t) ==
  /\ pc[t] = "lock"
  /\ LockFree(t)
  /\ Goto(t, IF kind = "cas" THEN "read" ELSE "check")
  /\ UNCHANGED <<store, call, snapshot, attempts, unseen, calls, outcome, acked, failures>>
------------------------------------------------------------------------------
(* _transition_cas: read the history entry and take the state from its last
   record; without one, fall back to the _current entry, read separately. *)
ReadHistory(t) ==
  LET log == history[call[t].key]
  IN
  /\ pc[t] = "read"
  /\ \/ ~readable[call[t].key] /\ Return(t, "unreadable")
     \/ readable[call[t].key] /\ Known(log) /\ Stale(t, log[Len(log)]) /\ Return(t, "stale")
     \/ /\ readable[call[t].key]
        /\ Known(log) => ~Stale(t, log[Len(log)])
        /\ Goto(t, IF Known(log) THEN "commit" ELSE "legacy")
        /\ snapshot' = [snapshot EXCEPT ![t] = log]
        /\ UNCHANGED <<call, attempts, unseen, outcome>>
  /\ UNCHANGED <<store, calls, acked, failures>>

ReadLegacy(t) ==
  /\ pc[t] = "legacy"
  /\ \/ Stale(t, current[call[t].key]) /\ Return(t, "stale")
     \/ /\ ~Stale(t, current[call[t].key])
        /\ Goto(t, "commit")
        /\ UNCHANGED <<call, snapshot, attempts, unseen, outcome>>
  /\ UNCHANGED <<store, calls, acked, failures>>

(* Fault variants of Unchanged: a blind write; a store that mistakes
   expected=None for "changed". *)
BlindCompare(t) == TRUE
AbsentIsChanged(t) == history[call[t].key] = snapshot[t] /\ snapshot[t] # <<>>

(* The atomic commit: the entry still holds exactly the bytes that were read. *)
Unchanged(t) == history[call[t].key] = snapshot[t]

(* Fault variant of Commit: the write takes effect but is reported as lost. *)
UnreportedCommit(t) ==
  /\ pc[t] = "commit"
  /\ Unchanged(t)
  /\ history' = [history EXCEPT ![call[t].key] = Append(snapshot[t], NewRecord(t))]
  /\ Goto(t, "read")
  /\ UNCHANGED <<kind, current, readable, call, snapshot, attempts, unseen, calls, outcome, acked, failures>>

Commit(t) ==
  /\ pc[t] = "commit"
  /\ Unchanged(t)
  /\ history' = [history EXCEPT ![call[t].key] = Append(snapshot[t], NewRecord(t))]
  /\ Goto(t, "copy")
  /\ UNCHANGED <<kind, current, readable, call, snapshot, attempts, unseen, calls, outcome, acked, failures>>

(* Fault variant of LoseRace: retrying with the bytes that already lost. *)
LoseRaceWithoutReading(t) == pc[t] = "commit" /\ ~Unchanged(t) /\ UNCHANGED vars

LoseRace(t) ==
  /\ pc[t] = "commit"
  /\ ~Unchanged(t)
  /\ \/ attempts[t] + 1 = MaxAttempts /\ Return(t, "contended")
     \/ /\ attempts[t] + 1 < MaxAttempts
        /\ attempts' = [attempts EXCEPT ![t] = @ + 1]
        /\ unseen' = unseen \ {t}
        /\ Goto(t, "read")
        /\ UNCHANGED <<call, snapshot, outcome>>
  /\ UNCHANGED <<store, calls, acked, failures>>
------------------------------------------------------------------------------
(* Without compare_and_set: get_current_state, then the history, then both
   entries are written, history first. *)
CheckCurrent(t) ==
  /\ pc[t] = "check"
  /\ \/ Stale(t, current[call[t].key]) /\ Return(t, "stale")
     \/ /\ ~Stale(t, current[call[t].key])
        /\ Goto(t, "load")
        /\ UNCHANGED <<call, snapshot, attempts, unseen, outcome>>
  /\ UNCHANGED <<store, calls, acked, failures>>

LoadHistory(t) ==
  /\ pc[t] = "load"
  /\ \/ ~readable[call[t].key] /\ Return(t, "unreadable")
     \/ /\ readable[call[t].key]
        /\ Goto(t, "store")
        /\ snapshot' = [snapshot EXCEPT ![t] = history[call[t].key]]
        /\ UNCHANGED <<call, attempts, unseen, outcome>>
  /\ UNCHANGED <<store, calls, acked, failures>>

(* Fault variant of StoreHistory: appends to [] instead of what is stored. *)
StartHistoryOver(t) ==
  /\ pc[t] = "store"
  /\ history' = [history EXCEPT ![call[t].key] = <<NewRecord(t)>>]
  /\ Goto(t, "copy")
  /\ UNCHANGED <<kind, current, readable, call, snapshot, attempts, unseen, calls, outcome, acked, failures>>

StoreHistory(t) ==
  /\ pc[t] = "store"
  /\ history' = [history EXCEPT ![call[t].key] = Append(snapshot[t], NewRecord(t))]
  /\ Goto(t, "copy")
  /\ UNCHANGED <<kind, current, readable, call, snapshot, attempts, unseen, calls, outcome, acked, failures>>
------------------------------------------------------------------------------
(* Fault variant of WriteCurrent: only a copy that is there is kept. *)
RefreshCurrent(t) ==
  /\ pc[t] = "copy"
  /\ current' = [current EXCEPT ![call[t].key] = IF @ = Absent THEN @ ELSE NewRecord(t)]
  /\ acked' = acked \cup {Id(t)}
  /\ Return(t, "ok")
  /\ UNCHANGED <<kind, history, readable, calls, failures>>

(* Both modes end by writing the _current entry. *)
WriteCurrent(t) ==
  /\ pc[t] = "copy"
  /\ current' = [current EXCEPT ![call[t].key] = NewRecord(t)]
  /\ acked' = acked \cup {Id(t)}
  /\ Return(t, "ok")
  /\ UNCHANGED <<kind, history, readable, calls, failures>>

(* A store access raises: a lock timeout, a lost lock, a broken connection.
   Nothing was written by that access; the exception leaves transition(),
   unless it comes from the one read that swallows it. *)
StoreFault(t) ==
  /\ failures < MaxFailures
  /\ pc[t] \notin Unlocked
  /\ failures' = failures + 1
  /\ Return(t, "error")
  /\ UNCHANGED <<store, calls, acked>>

(* _legacy_current: the read of an entry that is there raises, the exception
   is swallowed and the state is taken as unknown, so the check against the
   caller's from_state is skipped. *)
ReadSwallowed(t) ==
  /\ failures < MaxFailures
  /\ pc[t] \in {"legacy", "check"}
  /\ current[call[t].key] # Absent
  /\ failures' = failures + 1
  /\ unseen' = unseen \cup {t}
  /\ Goto(t, IF pc[t] = "legacy" THEN "commit" ELSE "load")
  /\ UNCHANGED <<store, call, snapshot, attempts, calls, outcome, acked>>

(* A process dies, with all its threads and locks, and is started again. *)
Died(p) == {t \in Threads : ProcessOf[t] = p /\ pc[t] # "idle"}
Forget(p, f, empty) == [t \in Threads |-> IF t \in Died(p) THEN empty ELSE f[t]]

Crash(p) ==
  /\ failures < MaxFailures
  /\ Died(p) # {}
  /\ failures' = failures + 1
  /\ pc' = Forget(p, pc, "idle")
  /\ call' = Forget(p, call, NoCall)
  /\ snapshot' = Forget(p, snapshot, <<>>)
  /\ attempts' = Forget(p, attempts, 0)
  /\ unseen' = unseen \ Died(p)
  /\ outcome' = Forget(p, outcome, "crashed")
  /\ UNCHANGED <<store, calls, acked>>

Quiet == \A t \in Threads : pc[t] = "idle"

(* Callers may stop calling; nobody may stop inside a call. *)
Rest == Quiet /\ UNCHANGED vars

CasStep(t) == ReadHistory(t) \/ ReadLegacy(t) \/ Commit(t) \/ LoseRace(t)
PlainStep(t) == CheckCurrent(t) \/ LoadHistory(t) \/ StoreHistory(t)
Step(t) == Lock(t) \/ CasStep(t) \/ PlainStep(t) \/ WriteCurrent(t)

Next ==
  \/ \E t \in Threads : Call(t) \/ Step(t) \/ StoreFault(t) \/ ReadSwallowed(t)
  \/ \E p \in Processes : Crash(p)
  \/ Rest

Spec == Init /\ [][Next]_vars

(* A thread inside a call keeps running; callers need not call, and nothing
   need fail. *)
FairSpec == Spec /\ \A t \in Threads : WF_vars(Step(t))
------------------------------------------------------------------------------
(* The read-only operations. *)
StateIn(rec) == IF rec \in Record THEN rec.to ELSE "unknown"

(* get_current_state / get_current_record *)
CurrentState(k) ==
  IF kind = "cas" /\ readable[k] /\ Known(history[k])
  THEN StateIn(history[k][Len(history[k])])
  ELSE StateIn(current[k])

(* The scans enumerate the _current entries. *)
ScannedKeys == {k \in Keys : current[k] # Absent}
KeysByState(s) == {k \in ScannedKeys : CurrentState(k) = s}
NeedsMigration == {k \in ScannedKeys : CurrentState(k) \in {"CLASSICAL_ONLY", "unknown"}}
------------------------------------------------------------------------------
(* The ledgers compare_and_set promises; a store without it promises none. *)
Committed == [k \in Keys |-> IF kind = "cas" THEN history[k] ELSE <<>>]

Ledger == INSTANCE MigrationLedger WITH
            ledger <- Committed,
            InitialLedgers <- {s.history : s \in InitialStores} \cup {<<>>}

Records(log) == {log[i] : i \in DOMAIN log} \cap Record

TypeOK ==
  /\ kind \in {"cas", "dict"}
  /\ history \in [Keys -> Seq(Entry)]
  /\ current \in [Keys -> Copy]
  /\ readable \in [Keys -> BOOLEAN]
  /\ pc \in [Threads -> Unlocked \cup CasSteps \cup PlainSteps \cup {"copy"}]
  /\ call \in [Threads -> CallArgs \cup {NoCall}]
  /\ \A t \in Threads : pc[t] # "idle" => call[t] \in CallArgs
  /\ snapshot \in [Threads -> Seq(Entry)]
  /\ attempts \in [Threads -> 0..(MaxAttempts - 1)]
  /\ unseen \subseteq Threads
  /\ calls \in [Threads -> 0..MaxCalls]
  /\ outcome \in [Threads -> Outcomes]
  /\ acked \subseteq Threads \X (1..MaxCalls)
  /\ failures \in 0..MaxFailures

(* The audit trail tells one story: with compare_and_set every record starts
   where the one before it ended, whoever committed them (transition()
   promises that exactly one concurrent writer wins).  A plain dict may fork
   the story, but only once per crash or store error: the caller after it is
   checked against a _current entry that is one record behind the log, or a
   caller whose read failed is not checked at all. *)
HistoryChained ==
  \A k \in Keys : Cardinality(Breaks(history[k])) <= IF kind = "cas" THEN 0 ELSE failures

Holds(k, i, id) == i \in DOMAIN history[k] /\ history[k][i] \in Record /\ history[k][i].id = id

(* The audit trail agrees with what callers were told: a transition that
   returned normally is in the history of exactly one key, exactly once, and
   stays there whatever other writers do later; one that raised ValueError
   left no record, however many races it lost before it gave up. *)
OutcomesMatchTheTrail ==
  /\ \A id \in acked :
       \E k \in Keys : \E i \in DOMAIN history[k] :
         /\ Holds(k, i, id)
         /\ \A l \in Keys : \A j \in DOMAIN history[l] : Holds(l, j, id) => l = k /\ j = i
  /\ \A t \in Threads :
       outcome[t] \in {"invalid", "stale", "unreadable", "contended"} /\ pc[t] = "idle"
         => \A k \in Keys : \A r \in Records(history[k]) : r.id # Id(t)

(* Losing a race means somebody else's record went in: the compare-and-set
   loop never spins on its own, so "too contended" is never spurious. *)
LostRaceMeansProgress ==
  \A t \in Threads :
    attempts[t] > 0 =>
      attempts[t] <= Cardinality({r \in Records(history[call[t].key]) : r.id[1] # t /\ r.id[2] > 0})

(* t's call moves key k to the state it asked for without having seen the one
   the key was in. *)
MovesUnseen(t, k) ==
  /\ t \in unseen /\ pc'[t] # pc[t]
  /\ call[t].key = k /\ CurrentState(k)' = call[t].req.to

(* What get_current_state answers only ever moves along the transition
   tables, in either mode, whatever fails in between: racing writers, crashes
   between two writes, errors that end a call.  The one exception is a call
   whose read of the _current entry raised and was swallowed: it goes on
   without the check, and where no readable history stands in its way it may
   move the key anywhere its own request leads. *)
CurrentStateMovesLegally ==
  [][\A k \in Keys :
       LET before == CurrentState(k)
       IN  before # "unknown" /\ CurrentState(k)' # before
             => \/ CurrentState(k)' \in Forward[before] \cup Backward[before]
                \/ \E t \in Threads : MovesUnseen(t, k)]_vars

(* The audit log is never behind the state: a _current entry written by a
   manager is also in the history (the stated reason for writing the history
   first). *)
LogNeverBehind ==
  \A k \in Keys :
    current[k] \in Record /\ current[k].id[2] > 0 => current[k] \in Records(history[k])

(* With nobody inside a call and no failure so far, nothing is left behind: on
   a plain dict, where only the per-key lock makes it so, the _current copy is
   the last record of the history; and keys_by_state and needs_migration (and
   the percentage made from them) list every key whose state get_current_state
   knows.  A call that dies or fails after its commit may leave the copy behind. *)
QuietStoreIsInStep ==
  Quiet /\ failures = 0 =>
    \A k \in Keys :
      /\ kind = "dict" /\ Known(history[k]) /\ history[k][Len(history[k])].id[2] > 0
           => current[k] = history[k][Len(history[k])]
      /\ readable[k] /\ Breaks(history[k]) = {} /\ CurrentState(k) # "unknown"
           => /\ k \in KeysByState(CurrentState(k))
              /\ CurrentState(k) = "CLASSICAL_ONLY" => k \in NeedsMigration

(* The committed history is the ledger: each step of any manager is one legal
   append or leaves the ledger alone. *)
RefinesLedger == Ledger!Spec

(* Every call of transition() returns or raises: a lost race is retried at
   most MaxAttempts times and the per-key lock is always released. *)
CallsReturn == \A t \in Threads : pc[t] # "idle" ~> pc[t] = "idle"
==============================================================================
