------------------------------- MODULE LmsSigner -------------------------------
(***************************************************************************)
(* LmsSigner (signatures/stateful.py): one LMS key of Capacity one-time    *)
(* keys.  Signer objects hold the next index q in memory; callers save     *)
(* serialised keys and load any of them again; a state store keeps the     *)
(* high-water mark.  sign() reserves an index in the store before it signs *)
(* and takes no lock: threads may share a signer, and signers may share    *)
(* the key, and their steps interleave in any way.                         *)
(*                                                                         *)
(* The store is the application's.  Three kinds are modelled:              *)
(*   "database"  reserve() compares with the mark and raises it in one     *)
(*               transaction, and outlives every process;                  *)
(*   "lenient"   reserve() records whatever it is given, durably: all that *)
(*               the LmsStateStore protocol asks for;                      *)
(*   "memory"    InMemoryLmsStateStore: reserve() gets the mark, compares  *)
(*               and sets it without a lock, and the mark is gone with the *)
(*               process.                                                  *)
(* Only the first of them keeps calls apart that overlap; Serialised says  *)
(* when the others are used within their means.                            *)
(***************************************************************************)
EXTENDS Naturals

CONSTANTS
  Signers,       \* signer objects
  Threads,
  SignerOf,      \* [Threads -> Signers]
  Capacity,      \* maxSignatures()
  Stores,        \* \subseteq {"database", "lenient", "memory"}
  MaxCrashes,    \* bound: process deaths
  MaxFaults      \* bound: reservations at which the store raises

ASSUME SignerAssumption ==
  /\ SignerOf \in [Threads -> Signers]
  /\ Capacity \in Nat \ {0}
  /\ Stores \subseteq {"database", "lenient", "memory"}
  /\ MaxCrashes \in Nat /\ MaxFaults \in Nat

VARIABLES
  store,        \* which kind of store it is; never changes
  mark,         \* the store's high-water mark
  saved,        \* the indices of the serialised keys that exist outside
  live,         \* the signer objects that exist
  q,            \* [Signers -> the next index of the private key in memory]
  pc,           \* where each thread is in sign()
  seenMark,     \* [Threads -> the mark _verify_not_rewound read]
  index,        \* [Threads -> current_index]
  signatures,   \* [0..Capacity-1 -> how many were made at each index]
  overlapped,   \* history: a call of sign() began while another was going on
  crashes,
  faults

vars ==
  <<store, mark, saved, live, q, pc, seenMark, index, signatures, overlapped, crashes, faults>>
Steps == {"idle", "mark", "compare", "index", "reserve", "record", "sign", "advance"}
------------------------------------------------------------------------------
(* generate() made the key and its first signer; its bytes may be saved. *)
Init ==
  /\ store \in Stores
  /\ mark = 0
  /\ saved = {0}
  /\ live \in {{s} : s \in Signers}
  /\ q = [s \in Signers |-> 0]
  /\ pc = [t \in Threads |-> "idle"]
  /\ seenMark = [t \in Threads |-> 0]
  /\ index = [t \in Threads |-> 0]
  /\ signatures = [i \in 0..(Capacity - 1) |-> 0]
  /\ overlapped = FALSE
  /\ crashes = 0
  /\ faults = 0

(* _verify_not_rewound: the key may be used. *)
NotRewound(next, m) == next >= m

(* load() of any saved key, the newest or a backup; a rewound one raises. *)
Load(s) ==
  /\ s \notin live
  /\ \E next \in saved :
       /\ NotRewound(next, mark)
       /\ q' = [q EXCEPT ![s] = next]
  /\ live' = live \cup {s}
  /\ UNCHANGED
       <<store, mark, saved, pc, seenMark, index, signatures, overlapped, crashes, faults>>

(* serialize(), and the caller keeps the bytes. *)
Save(s) ==
  /\ s \in live
  /\ saved' = saved \cup {q[s]}
  /\ UNCHANGED
       <<store, mark, live, q, pc, seenMark, index, signatures, overlapped, crashes, faults>>
------------------------------------------------------------------------------
Goto(t, step) == pc' = [pc EXCEPT ![t] = step]

Quiet == \A t \in Threads : pc[t] = "idle"

(* sign(): KeyExhaustedError unless indices remain ... *)
CheckExhausted(t) ==
  /\ pc[t] = "idle"
  /\ SignerOf[t] \in live
  /\ q[SignerOf[t]] < Capacity
  /\ Goto(t, "mark")
  /\ overlapped' = (overlapped \/ ~Quiet)
  /\ UNCHANGED <<store, mark, saved, live, q, seenMark, index, signatures, crashes, faults>>

(* ... IndexReuseError if the key is behind the mark: the mark is read first,
   then the index ... *)
ReadMark(t) ==
  /\ pc[t] = "mark"
  /\ seenMark' = [seenMark EXCEPT ![t] = mark]
  /\ Goto(t, "compare")
  /\ UNCHANGED <<store, mark, saved, live, q, index, signatures, overlapped, crashes, faults>>

Compare(t) ==
  /\ pc[t] = "compare"
  /\ Goto(t, IF NotRewound(q[SignerOf[t]], seenMark[t]) THEN "index" ELSE "idle")
  /\ seenMark' = [seenMark EXCEPT ![t] = 0]
  /\ UNCHANGED <<store, mark, saved, live, q, index, signatures, overlapped, crashes, faults>>

(* ... and the index is read again for the reservation. *)
ReadIndex(t) ==
  /\ pc[t] = "index"
  /\ index' = [index EXCEPT ![t] = q[SignerOf[t]]]
  /\ Goto(t, "reserve")
  /\ UNCHANGED
       <<store, mark, saved, live, q, seenMark, signatures, overlapped, crashes, faults>>

(* Fault variants of MayReserve: a store that lets the mark stay; one that
   records whatever it is given. *)
MayReserveAgain(t) == index[t] + 1 >= mark
AlwaysReserve(t) == TRUE

(* reserve(): a store that compares refuses what does not raise the mark. *)
MayReserve(t) == store = "lenient" \/ index[t] + 1 > mark

(* Fault variant of Reserve: sign first, reserve afterwards. *)
SignWithoutReserving(t) ==
  /\ pc[t] = "reserve"
  /\ store # "memory"
  /\ \/ MayReserve(t) /\ Goto(t, "sign")
     \/ ~MayReserve(t) /\ Goto(t, "idle")
  /\ UNCHANGED
       <<store, mark, saved, live, q, seenMark, index, signatures, overlapped, crashes, faults>>

(* An application's store: one transaction, or one write of what it is given. *)
Reserve(t) ==
  /\ pc[t] = "reserve"
  /\ store # "memory"
  /\ \/ MayReserve(t) /\ mark' = index[t] + 1 /\ Goto(t, "sign")
     \/ ~MayReserve(t) /\ Goto(t, "idle") /\ UNCHANGED mark
  /\ UNCHANGED
       <<store, saved, live, q, seenMark, index, signatures, overlapped, crashes, faults>>

(* InMemoryLmsStateStore gets the mark and compares, raising if it would not
   go up ... *)
LookAtMark(t) ==
  /\ pc[t] = "reserve"
  /\ store = "memory"
  /\ Goto(t, IF MayReserve(t) THEN "record" ELSE "idle")
  /\ UNCHANGED
       <<store, mark, saved, live, q, seenMark, index, signatures, overlapped, crashes, faults>>

(* ... and then sets it, whatever it is by now. *)
RecordMark(t) ==
  /\ pc[t] = "record"
  /\ mark' = index[t] + 1
  /\ Goto(t, "sign")
  /\ UNCHANGED
       <<store, saved, live, q, seenMark, index, signatures, overlapped, crashes, faults>>

(* An application's store raises, with or without having recorded the mark:
   StatePersistenceError, and nothing is signed. *)
ReserveFails(t) ==
  /\ faults < MaxFaults
  /\ pc[t] = "reserve"
  /\ store # "memory"
  /\ faults' = faults + 1
  /\ \/ UNCHANGED mark
     \/ MayReserve(t) /\ mark' = index[t] + 1
  /\ Goto(t, "idle")
  /\ UNCHANGED <<store, saved, live, q, seenMark, index, signatures, overlapped, crashes>>

(* The library signs at the index its own object holds ... *)
Sign(t) ==
  LET s == SignerOf[t]
  IN
  /\ pc[t] = "sign"
  /\ q[s] < Capacity
  /\ signatures' = [signatures EXCEPT ![q[s]] = @ + 1]
  /\ Goto(t, "advance")
  /\ UNCHANGED <<store, mark, saved, live, q, seenMark, index, overlapped, crashes, faults>>

(* ... and then advances it. *)
Advance(t) ==
  /\ pc[t] = "advance"
  /\ q' = [q EXCEPT ![SignerOf[t]] = @ + 1]
  /\ Goto(t, "idle")
  /\ UNCHANGED
       <<store, mark, saved, live, seenMark, index, signatures, overlapped, crashes, faults>>

(* Another thread took the last index after CheckExhausted: the reservation
   went past the end, and the library itself refuses. *)
SignExhausted(t) ==
  /\ pc[t] = "sign"
  /\ q[SignerOf[t]] >= Capacity
  /\ Goto(t, "idle")
  /\ UNCHANGED
       <<store, mark, saved, live, q, seenMark, index, signatures, overlapped, crashes, faults>>

(* A process dies, at any step of any of its threads: each signer has one of
   its own, but those of a store in memory share the store's, and the mark
   goes with it. *)
Dead(s) == IF store = "memory" THEN live ELSE {s}

Crash(s) ==
  /\ crashes < MaxCrashes
  /\ s \in live
  /\ crashes' = crashes + 1
  /\ live' = live \ Dead(s)
  /\ pc' = [t \in Threads |-> IF SignerOf[t] \in Dead(s) THEN "idle" ELSE pc[t]]
  /\ mark' = IF store = "memory" THEN 0 ELSE mark
  /\ UNCHANGED <<store, saved, q, seenMark, index, signatures, overlapped, faults>>

Rest == Quiet /\ UNCHANGED vars

Next ==
  \/ \E s \in Signers : Load(s) \/ Save(s) \/ Crash(s)
  \/ \E t \in Threads :
       \/ CheckExhausted(t) \/ ReadMark(t) \/ Compare(t) \/ ReadIndex(t)
       \/ Reserve(t) \/ LookAtMark(t) \/ RecordMark(t) \/ ReserveFails(t)
       \/ Sign(t) \/ Advance(t) \/ SignExhausted(t)
  \/ Rest

Spec == Init /\ [][Next]_vars
------------------------------------------------------------------------------
TypeOK ==
  /\ store \in Stores
  /\ mark \in Nat
  /\ saved \subseteq Nat
  /\ live \subseteq Signers
  /\ q \in [Signers -> Nat]
  /\ pc \in [Threads -> Steps]
  /\ seenMark \in [Threads -> Nat]
  /\ index \in [Threads -> Nat]
  /\ signatures \in [0..(Capacity - 1) -> Nat]
  /\ overlapped \in BOOLEAN
  /\ crashes \in 0..MaxCrashes
  /\ faults \in 0..MaxFaults

(* The store serialises the calls, as the documentation wants it to; or they
   came one after another, and the mark was never lost.  sign() itself keeps
   nobody apart: outside of this, two threads of one signer do sign at one
   index. *)
Serialised ==
  \/ store = "database"
  \/ ~overlapped /\ (store = "lenient" \/ crashes = 0)

(* No one-time key ever signs twice, whatever is copied, restored, crashed or,
   with a store that serialises, run concurrently. *)
NoIndexReuse == Serialised => \A i \in DOMAIN signatures : signatures[i] <= 1

(* An index that signed is below the mark: the store already knew it when the
   signature came into being. *)
MarkCoversIssued ==
  Serialised => \A i \in DOMAIN signatures : signatures[i] > 0 => i < mark

(* What the library is about to sign at is exactly what sign() reserved: the
   index was read before the reservation and q is read again after it. *)
SignsWhatItReserved ==
  Serialised => \A t \in Threads : pc[t] = "sign" => q[SignerOf[t]] = index[t]

(* Only one thread is ever between its reservation and the end of its
   signature: the library, which is not thread safe, needs no lock. *)
OneSigning ==
  Serialised => \A t, u \in Threads : {pc[t], pc[u]} \subseteq {"sign", "advance"} => t = u

(* A death or a failed reservation costs at most the index that was reserved:
   while indices remain, some key, in memory or saved, is still usable. *)
FailureCostsOneIndex ==
  Quiet /\ mark < Capacity =>
    \E next \in {q[s] : s \in live} \cup saved : NotRewound(next, mark)
==============================================================================
