---------------------------- MODULE SignatureProofs ----------------------------
(***************************************************************************)
(* The two components that sign.  The LMS signer: no one-time key signs    *)
(* twice as long as calls of sign() do not overlap, nor ever with a store  *)
(* whose reserve() is atomic, for every number of signers, threads, saved  *)
(* keys, deaths and store errors, and every capacity.  The traffic signed  *)
(* with one key pair: a document carries the key it was written from,      *)
(* whatever is sent is accepted exactly when it should be, and two         *)
(* artefacts that share a primitive signature say the same or are of the   *)
(* kinds the code does not keep apart, whatever bytes applications pass as *)
(* messages and contexts, all claims and lifetimes, and any number of      *)
(* artefacts.                                                              *)
(***************************************************************************)
EXTENDS LmsSigner, SignedTraffic, FiniteSetTheorems, TLAPS

(* As long as no call began during another, at most one is going on. *)
OneByOne ==
  ~overlapped => \A t, u \in Threads : pc[t] # "idle" /\ pc[u] # "idle" => t = u

(* No key that exists is ahead of the mark, and none has passed an index that
   was reserved and did not sign: that index is dead, and the key with it. *)
KeysBehindMark ==
  /\ \A s \in live : q[s] <= mark
  /\ \A next \in saved : next <= mark

(* No key is past the end of the tree. *)
InTree ==
  /\ \A s \in Signers : q[s] <= Capacity
  /\ \A next \in saved : next <= Capacity
  /\ \A t \in Threads : index[t] <= Capacity

(* An index that was reserved and did not sign, or has signed in a key that
   did not yet move on, is out of every key's reach. *)
DeadIndex ==
  /\ mark \in 1..Capacity
  /\ signatures[mark - 1] = 0 \/ \E t \in Threads : pc[t] = "advance"
  =>
    /\ \A s \in live : q[s] < mark
    /\ \A next \in saved : next < mark

(* What a thread inside sign() knows. *)
InSign(t) ==
  /\ pc[t] # "idle" => SignerOf[t] \in live
  /\ pc[t] \in {"reserve", "record"} => index[t] <= q[SignerOf[t]]
  /\ pc[t] \in {"sign", "advance"} => q[SignerOf[t]] = index[t] /\ mark = index[t] + 1
  /\ pc[t] = "sign" /\ index[t] < Capacity => signatures[index[t]] = 0
  /\ pc[t] = "advance" => index[t] < Capacity /\ signatures[index[t]] = 1

(* With any other store one thread at a time is inside sign(), so the mark it
   read is still the mark. *)
Exclusive ==
  store # "database" =>
    /\ \A t, u \in Threads : pc[t] # "idle" /\ pc[u] # "idle" => t = u
    /\ \A t \in Threads : /\ pc[t] = "compare" => seenMark[t] = mark
                          /\ pc[t] = "index" => q[SignerOf[t]] >= mark
                          /\ pc[t] \in {"reserve", "record"} => index[t] >= mark

(* Only LookAtMark leads to "record". *)
OnlyInMemory == \A t \in Threads : pc[t] = "record" => store = "memory"

Apart ==
  \A t, u \in Threads : pc[t] \in {"sign", "advance"} /\ pc[u] \in {"sign", "advance"} => t = u
Once == \A i \in DOMAIN signatures : signatures[i] <= 1
Covered == \A i \in DOMAIN signatures : signatures[i] > 0 => i < mark

(* What holds as long as the calls are serialised ... *)
Orderly ==
  /\ KeysBehindMark
  /\ InTree
  /\ DeadIndex
  /\ \A t \in Threads : InSign(t)
  /\ Exclusive
  /\ Apart
  /\ Once
  /\ Covered

(* ... and with it the inductive invariant of the LMS signer. *)
IInv == TypeOK /\ OneByOne /\ OnlyInMemory /\ (Serialised => Orderly)
------------------------------------------------------------------------------
(* Nothing has signed at the start. *)
LEMMA InitIInv == Init => IInv
<1> SUFFICES ASSUME Init PROVE IInv
  OBVIOUS
<1> USE SignerAssumption
<1>1. TypeOK
  <2>1. /\ live \subseteq Signers
        /\ saved \subseteq Nat
        /\ store \in Stores
        /\ overlapped \in BOOLEAN
    <3>1. saved \subseteq Nat
      BY DEF Init
    <3>2. live \subseteq Signers
      BY DEF Init
    <3> QED
      BY <3>1, <3>2, Zenon DEF Init
  <2>2. /\ q \in [Signers -> Nat] /\ seenMark \in [Threads -> Nat]
        /\ index \in [Threads -> Nat] /\ signatures \in [0..(Capacity - 1) -> Nat]
        /\ pc \in [Threads -> Steps]
    BY DEF Init, Steps
  <2>3. mark \in Nat /\ crashes \in 0..MaxCrashes /\ faults \in 0..MaxFaults
    BY DEF Init
  <2> QED
    BY <2>1, <2>2, <2>3 DEF TypeOK
<1>2. OneByOne /\ OnlyInMemory /\ Apart /\ Exclusive /\ \A t \in Threads : InSign(t)
  BY DEF Init, OneByOne, OnlyInMemory, Apart, Exclusive, InSign
<1>3. KeysBehindMark /\ InTree /\ DeadIndex /\ Once /\ Covered
  BY DEF Init, KeysBehindMark, InTree, DeadIndex, Once, Covered
<1> QED
  BY <1>1, <1>2, <1>3 DEF IInv, Orderly

(* Every variable stays in its range, whoever overlaps whom. *)
LEMMA NextTypeOK == TypeOK /\ [Next]_vars => TypeOK'
<1> SUFFICES ASSUME TypeOK, [Next]_vars PROVE TypeOK'
  OBVIOUS
<1> USE SignerAssumption
<1>1. ASSUME NEW s \in Signers, Load(s) \/ Save(s) PROVE TypeOK'
  <2>1. live' \subseteq Signers
    BY <1>1 DEF Load, Save, TypeOK
  <2>2. saved' \subseteq Nat
    <3>1. q[s] \in Nat /\ saved \subseteq Nat
      BY DEF TypeOK
    <3> QED
      BY <1>1, <3>1 DEF Load, Save
  <2>3. q' \in [Signers -> Nat]
    <3>1. saved \subseteq Nat /\ q \in [Signers -> Nat]
      BY DEF TypeOK
    <3>2. q' = q \/ \E next \in saved : q' = [q EXCEPT ![s] = next]
      BY <1>1 DEF Load, Save
    <3> QED
      BY <3>1, <3>2
  <2> QED
    BY <1>1, <2>1, <2>2, <2>3 DEF Load, Save, TypeOK
<1>2. ASSUME NEW s \in Signers, Crash(s) PROVE TypeOK'
  <2>1. mark' \in Nat /\ crashes' \in 0..MaxCrashes /\ live' \subseteq Signers
    BY <1>2 DEF Crash, TypeOK
  <2>2. pc' \in [Threads -> Steps]
    BY <1>2 DEF Crash, TypeOK, Steps
  <2> QED
    BY <1>2, <2>1, <2>2 DEF Crash, TypeOK
<1>3. ASSUME NEW t \in Threads, NEW p \in Steps, pc' = [pc EXCEPT ![t] = p]
      PROVE  pc' \in [Threads -> Steps]
  BY <1>3 DEF TypeOK
<1>4. ASSUME NEW t \in Threads, CheckExhausted(t) PROVE TypeOK'
  <2>1. pc' \in [Threads -> Steps] /\ overlapped' \in BOOLEAN
    BY <1>3, <1>4 DEF CheckExhausted, Goto, Steps
  <2> QED
    BY <1>4, <2>1 DEF CheckExhausted, TypeOK
<1>5. ASSUME NEW t \in Threads, ReadMark(t) \/ Compare(t) \/ ReadIndex(t) PROVE TypeOK'
  <2>1. pc' \in [Threads -> Steps]
    BY <1>3, <1>5 DEF ReadMark, Compare, ReadIndex, Goto, Steps
  <2>2. seenMark' \in [Threads -> Nat] /\ index' \in [Threads -> Nat]
    <3>1. /\ mark \in Nat /\ q[SignerOf[t]] \in Nat
          /\ seenMark \in [Threads -> Nat] /\ index \in [Threads -> Nat]
      BY DEF TypeOK
    <3>2. /\ seenMark' = seenMark \/ \E m \in Nat : seenMark' = [seenMark EXCEPT ![t] = m]
          /\ index' = index \/ \E i \in Nat : index' = [index EXCEPT ![t] = i]
      BY <1>5, <3>1 DEF ReadMark, Compare, ReadIndex
    <3> QED
      BY <3>1, <3>2
  <2> QED
    BY <1>5, <2>1, <2>2 DEF ReadMark, Compare, ReadIndex, TypeOK
<1>6. ASSUME NEW t \in Threads, Reserve(t) \/ ReserveFails(t) \/ LookAtMark(t) \/ RecordMark(t)
      PROVE  TypeOK'
  <2>1. pc' \in [Threads -> Steps]
    BY <1>3, <1>6 DEF Reserve, ReserveFails, LookAtMark, RecordMark, Goto, Steps
  <2>2. mark' \in Nat /\ faults' \in 0..MaxFaults
    BY <1>6 DEF Reserve, ReserveFails, LookAtMark, RecordMark, TypeOK
  <2> QED
    BY <1>6, <2>1, <2>2 DEF Reserve, ReserveFails, LookAtMark, RecordMark, TypeOK
<1>7. ASSUME NEW t \in Threads, Sign(t) \/ Advance(t) \/ SignExhausted(t) PROVE TypeOK'
  <2>1. pc' \in [Threads -> Steps]
    BY <1>3, <1>7 DEF Sign, Advance, SignExhausted, Goto, Steps
  <2>2. q' \in [Signers -> Nat] /\ signatures' \in [0..(Capacity - 1) -> Nat]
    <3>1. /\ q[SignerOf[t]] \in Nat /\ SignerOf[t] \in Signers
          /\ q \in [Signers -> Nat] /\ signatures \in [0..(Capacity - 1) -> Nat]
      BY DEF TypeOK
    <3>2. CASE Sign(t)
      <4>1. q[SignerOf[t]] \in 0..(Capacity - 1)
        BY <3>1, <3>2 DEF Sign
      <4> QED
        BY <3>1, <3>2, <4>1 DEF Sign
    <3>3. CASE Advance(t)
      BY <3>1, <3>3 DEF Advance
    <3>4. CASE SignExhausted(t)
      BY <3>1, <3>4 DEF SignExhausted
    <3> QED
      BY <1>7, <3>2, <3>3, <3>4
  <2> QED
    BY <1>7, <2>1, <2>2 DEF Sign, Advance, SignExhausted, TypeOK
<1>8. ASSUME UNCHANGED vars PROVE TypeOK'
  BY <1>8 DEF vars, TypeOK
<1> QED
  BY <1>1, <1>2, <1>4, <1>5, <1>6, <1>7, <1>8 DEF Next, Rest

(* Calls that never overlapped do not overlap now, and a call that begins
   during another is remembered. *)
LEMMA NextOneByOne == IInv /\ [Next]_vars => OneByOne' /\ OnlyInMemory'
<1> SUFFICES ASSUME IInv, [Next]_vars PROVE OneByOne' /\ OnlyInMemory'
  OBVIOUS
<1> USE SignerAssumption DEF IInv, TypeOK, OneByOne, OnlyInMemory, Goto
<1>1. ASSUME NEW s \in Signers, Load(s) \/ Save(s) \/ Crash(s)
      PROVE  OneByOne' /\ OnlyInMemory'
  BY <1>1 DEF Load, Save, Crash
<1>2. ASSUME NEW t \in Threads, CheckExhausted(t) PROVE OneByOne' /\ OnlyInMemory'
  BY <1>2 DEF CheckExhausted, Quiet
<1>3. ASSUME NEW t \in Threads, pc[t] # "idle", NEW p \in Steps, pc' = [pc EXCEPT ![t] = p],
             p = "record" => store = "memory", UNCHANGED <<store, overlapped>>
      PROVE  OneByOne' /\ OnlyInMemory'
  BY <1>3
<1>4. ASSUME NEW t \in Threads,
             \/ ReadMark(t) \/ Compare(t) \/ ReadIndex(t)
             \/ Reserve(t) \/ ReserveFails(t) \/ LookAtMark(t) \/ RecordMark(t)
             \/ Sign(t) \/ Advance(t) \/ SignExhausted(t)
      PROVE  OneByOne' /\ OnlyInMemory'
  <2>1. /\ pc[t] # "idle" /\ UNCHANGED <<store, overlapped>>
        /\ \E p \in Steps : pc' = [pc EXCEPT ![t] = p] /\ (p = "record" => store = "memory")
    BY <1>4 DEF ReadMark, Compare, ReadIndex, Reserve, ReserveFails, LookAtMark, RecordMark,
       Sign, Advance, SignExhausted, Steps
  <2> QED
    BY <1>3, <2>1
<1>5. ASSUME UNCHANGED vars PROVE OneByOne' /\ OnlyInMemory'
  BY <1>5 DEF vars
<1> QED
  BY <1>1, <1>2, <1>4, <1>5 DEF Next, Rest

(* Calls that are serialised now always were. *)
LEMMA WasSerialised == TypeOK /\ [Next]_vars /\ Serialised' => Serialised
<1> SUFFICES ASSUME TypeOK, [Next]_vars, Serialised' PROVE Serialised
  OBVIOUS
<1>1. CASE UNCHANGED <<store, overlapped, crashes>>
  BY <1>1 DEF Serialised
<1>2. ASSUME NEW t \in Threads, CheckExhausted(t) PROVE Serialised
  BY <1>2, Zenon DEF CheckExhausted, Serialised
<1>3. ASSUME NEW s \in Signers, Crash(s) PROVE Serialised
  BY <1>3, SignerAssumption DEF Crash, Serialised, TypeOK
<1>4. \/ UNCHANGED <<store, overlapped, crashes>>
      \/ \E t \in Threads : CheckExhausted(t)
      \/ \E s \in Signers : Crash(s)
  BY DEF Next, Rest, vars, Load, Save, ReadMark, Compare, ReadIndex, Reserve, ReserveFails,
     LookAtMark, RecordMark, Sign, Advance, SignExhausted
<1> QED
  BY <1>1, <1>2, <1>3, <1>4

(* The heart of the argument: a thread that may reserve is at the mark, so
   nobody else is between its reservation and its signature. *)
LEMMA ReserverAtMark ==
  ASSUME TypeOK, Orderly, NEW t \in Threads,
         \/ pc[t] = "reserve" /\ MayReserve(t)
         \/ pc[t] = "record" /\ store = "memory"
  PROVE  /\ index[t] = mark /\ q[SignerOf[t]] = mark
         /\ \A u \in Threads : pc[u] \notin {"sign", "advance"}
         /\ \A i \in DOMAIN signatures : i >= mark => signatures[i] = 0
<1> USE SignerAssumption DEF TypeOK
<1>1. index[t] <= q[SignerOf[t]] /\ q[SignerOf[t]] <= mark /\ SignerOf[t] \in live
  BY DEF Orderly, InSign, KeysBehindMark
<1>2. index[t] >= mark
  BY DEF Orderly, MayReserve, Exclusive
<1>3. index[t] = mark /\ q[SignerOf[t]] = mark
  BY <1>1, <1>2
<1>4. index[t] <= Capacity
  BY DEF Orderly, InTree
<1>5. ASSUME NEW u \in Threads, pc[u] \in {"sign", "advance"} PROVE FALSE
  <2>1. mark = index[u] + 1
    BY <1>5 DEF Orderly, InSign
  <2>2. mark \in 1..Capacity
    BY <2>1, <1>3, <1>4
  <2>3. signatures[mark - 1] = 0 \/ pc[u] = "advance"
    BY <1>5, <2>1, <2>2 DEF Orderly, InSign
  <2> QED
    BY <1>1, <1>3, <2>2, <2>3 DEF Orderly, DeadIndex
<1>6. \A i \in DOMAIN signatures : i >= mark => signatures[i] = 0
  BY DEF Orderly, Covered
<1> QED
  BY <1>3, <1>5, <1>6

(* Every step of a signer, a thread or the store keeps it. *)
LEMMA NextOrderly == IInv /\ [Next]_vars /\ Serialised' => Orderly'
<1> SUFFICES ASSUME IInv, [Next]_vars, Serialised' PROVE Orderly'
  OBVIOUS
<1> USE SignerAssumption
<1>0. /\ TypeOK /\ OneByOne /\ OnlyInMemory /\ Orderly
      /\ TypeOK' /\ OneByOne' /\ OnlyInMemory' /\ Serialised
  BY WasSerialised, NextTypeOK, NextOneByOne DEF IInv
<1>1. ASSUME NEW s \in Signers, Load(s) PROVE Orderly'
  <2>1. /\ s \notin live /\ live' = live \cup {s}
        /\ UNCHANGED <<store, mark, saved, pc, seenMark, index, signatures>>
    BY <1>1 DEF Load
  <2>2. PICK next \in saved : next >= mark /\ q' = [q EXCEPT ![s] = next]
    BY <1>1 DEF Load, NotRewound
  <2>3. next = mark
    BY <1>0, <2>2 DEF Orderly, KeysBehindMark, TypeOK
  <2>4. (KeysBehindMark /\ InTree /\ DeadIndex)'
    BY <1>0, <2>1, <2>2, <2>3 DEF Orderly, TypeOK, KeysBehindMark, InTree, DeadIndex
  <2>5. \A t \in Threads : InSign(t)'
    BY <1>0, <2>1, <2>2 DEF Orderly, TypeOK, InSign
  <2>6. Exclusive'
    BY <1>0, <2>1, <2>2 DEF Orderly, TypeOK, InSign, Exclusive
  <2>7. (Apart /\ Once /\ Covered)'
    BY <1>0, <2>1 DEF Orderly, Apart, Once, Covered
  <2> QED
    BY <2>4, <2>5, <2>6, <2>7 DEF Orderly
<1>2. ASSUME NEW s \in Signers, Save(s) PROVE Orderly'
  BY <1>0, <1>2 DEF Save, Orderly, TypeOK, KeysBehindMark, InTree, DeadIndex, InSign,
     Exclusive, Apart, Once, Covered
<1>3. ASSUME NEW s \in Signers, Crash(s) PROVE Orderly'
  <2>1. store # "memory"
    BY <1>0, <1>3 DEF Crash, Serialised, TypeOK
  <2>2. /\ live' = live \ {s}
        /\ pc' = [t \in Threads |-> IF SignerOf[t] = s THEN "idle" ELSE pc[t]]
        /\ UNCHANGED <<store, mark, saved, q, seenMark, index, signatures>>
    BY <1>3, <2>1 DEF Crash, Dead
  <2>3. \A t \in Threads : pc'[t] = pc[t] \/ pc'[t] = "idle"
    BY <2>2
  <2>4. \A t \in Threads : pc'[t] # "idle" => SignerOf[t] # s
    BY <2>2
  <2>5. (KeysBehindMark /\ InTree /\ DeadIndex)'
    BY <1>0, <2>2, <2>3 DEF Orderly, KeysBehindMark, InTree, DeadIndex
  <2>6. \A t \in Threads : InSign(t)'
    BY <1>0, <2>2, <2>3, <2>4 DEF Orderly, InSign
  <2>7. (Exclusive /\ Apart /\ Once /\ Covered)'
    BY <1>0, <2>2, <2>3 DEF Orderly, Exclusive, Apart, Once, Covered
  <2> QED
    BY <2>5, <2>6, <2>7 DEF Orderly
<1>4. ASSUME NEW t \in Threads, CheckExhausted(t) PROVE Orderly'
  <2>1. /\ pc[t] = "idle" /\ SignerOf[t] \in live /\ pc' = [pc EXCEPT ![t] = "mark"]
        /\ UNCHANGED <<store, mark, saved, live, q, seenMark, index, signatures>>
    BY <1>4 DEF CheckExhausted, Goto
  <2>2. store # "database" => ~overlapped'
    BY <2>1 DEF Serialised
  <2>3. (KeysBehindMark /\ InTree /\ DeadIndex)'
    BY <1>0, <2>1 DEF Orderly, TypeOK, KeysBehindMark, InTree, DeadIndex
  <2>4. \A u \in Threads : InSign(u)'
    BY <1>0, <2>1 DEF Orderly, TypeOK, InSign
  <2>5. (Exclusive /\ Apart /\ Once /\ Covered)'
    BY <1>0, <2>1, <2>2 DEF Orderly, TypeOK, OneByOne, Exclusive, Apart, Once, Covered
  <2> QED
    BY <2>3, <2>4, <2>5 DEF Orderly
<1>5. ASSUME NEW t \in Threads, ReadMark(t) \/ Compare(t) \/ ReadIndex(t) \/ LookAtMark(t)
      PROVE  Orderly'
  <2>1. /\ pc[t] \in {"mark", "compare", "index", "reserve"}
        /\ UNCHANGED <<store, mark, saved, live, q, signatures>>
        /\ \/ /\ pc' = [pc EXCEPT ![t] = "compare"] /\ UNCHANGED index
              /\ seenMark' = [seenMark EXCEPT ![t] = mark]
           \/ /\ pc[t] = "compare" /\ pc' = [pc EXCEPT ![t] = "index"] /\ UNCHANGED index
              /\ seenMark' = [seenMark EXCEPT ![t] = 0] /\ q[SignerOf[t]] >= seenMark[t]
           \/ /\ pc[t] = "index" /\ pc' = [pc EXCEPT ![t] = "reserve"] /\ UNCHANGED seenMark
              /\ index' = [index EXCEPT ![t] = q[SignerOf[t]]]
           \/ /\ pc[t] = "reserve" /\ pc' = [pc EXCEPT ![t] = "record"]
              /\ UNCHANGED <<seenMark, index>>
           \/ /\ pc' = [pc EXCEPT ![t] = "idle"] /\ UNCHANGED index
              /\ seenMark' = [seenMark EXCEPT ![t] = 0] \/ UNCHANGED seenMark
    BY <1>5 DEF ReadMark, Compare, NotRewound, ReadIndex, LookAtMark, Goto
  <2>0. /\ pc'[t] \notin {"sign", "advance"}
        /\ \A u \in Threads \ {t} : pc'[u] = pc[u]
    BY <1>0, <2>1 DEF TypeOK
  <2>2. (KeysBehindMark /\ InTree)'
    BY <1>0, <2>1 DEF Orderly, TypeOK, KeysBehindMark, InTree
  <2>3. DeadIndex'
    <3>1. \A u \in Threads : pc'[u] = "advance" => pc[u] = "advance"
      BY <2>0
    <3> QED
      BY <1>0, <2>1, <3>1 DEF Orderly, DeadIndex
  <2>4. \A u \in Threads : InSign(u)'
    <3>1. ASSUME NEW u \in Threads, u # t PROVE InSign(u)'
      <4>1. pc'[u] = pc[u] /\ index'[u] = index[u]
        BY <1>0, <2>0, <2>1, <3>1 DEF TypeOK
      <4> QED
        BY <1>0, <2>1, <4>1 DEF Orderly, InSign
    <3>2. InSign(t)'
      <4>1. SignerOf[t] \in live
        BY <1>0, <2>1 DEF Orderly, InSign
      <4>2. pc'[t] \in {"reserve", "record"} => index'[t] <= q[SignerOf[t]]
        BY <1>0, <2>1 DEF Orderly, TypeOK, InSign
      <4> QED
        BY <2>0, <2>1, <4>1, <4>2 DEF InSign
    <3> QED
      BY <3>1, <3>2
  <2>5. Exclusive'
    BY <1>0, <2>1 DEF Orderly, TypeOK, Exclusive
  <2>6. Apart'
    BY <1>0, <2>0 DEF Orderly, Apart
  <2>7. (Once /\ Covered)'
    BY <1>0, <2>1 DEF Orderly, Once, Covered
  <2> QED
    BY <2>2, <2>3, <2>4, <2>5, <2>6, <2>7 DEF Orderly
<1>6. ASSUME NEW t \in Threads, Reserve(t) \/ ReserveFails(t) \/ SignExhausted(t),
             mark' = mark, pc' = [pc EXCEPT ![t] = "idle"]
      PROVE  Orderly'
  <2>1. UNCHANGED <<store, mark, saved, live, q, seenMark, index, signatures>>
    BY <1>6 DEF Reserve, ReserveFails, SignExhausted
  <2>2. (KeysBehindMark /\ InTree /\ DeadIndex)'
    BY <1>0, <1>6, <2>1 DEF Orderly, TypeOK, KeysBehindMark, InTree, DeadIndex
  <2>3. \A u \in Threads : InSign(u)'
    BY <1>0, <1>6, <2>1 DEF Orderly, TypeOK, InSign
  <2>4. (Exclusive /\ Apart /\ Once /\ Covered)'
    BY <1>0, <1>6, <2>1 DEF Orderly, TypeOK, Exclusive, Apart, Once, Covered
  <2> QED
    BY <2>2, <2>3, <2>4 DEF Orderly
<1>7. ASSUME NEW t \in Threads,
             \/ (Reserve(t) \/ ReserveFails(t)) /\ MayReserve(t)
             \/ RecordMark(t),
             mark' = index[t] + 1
      PROVE  Orderly'
  <2>1. /\ \/ pc[t] = "reserve" /\ MayReserve(t)
           \/ pc[t] = "record" /\ store = "memory"
        /\ UNCHANGED <<store, saved, live, q, seenMark, index, signatures>>
        /\ pc' = [pc EXCEPT ![t] = "sign"] \/ pc' = [pc EXCEPT ![t] = "idle"]
    BY <1>0, <1>7 DEF Reserve, ReserveFails, RecordMark, Goto, OnlyInMemory
  <2>2. /\ index[t] = mark /\ q[SignerOf[t]] = mark /\ mark' = mark + 1
        /\ \A u \in Threads : pc[u] \notin {"sign", "advance"}
        /\ \A i \in DOMAIN signatures : i >= mark => signatures[i] = 0
    BY <1>0, <1>7, <2>1, ReserverAtMark
  <2>3. (KeysBehindMark /\ InTree /\ DeadIndex)'
    BY <1>0, <2>1, <2>2 DEF Orderly, TypeOK, KeysBehindMark, InTree, DeadIndex
  <2>4. \A u \in Threads : InSign(u)'
    BY <1>0, <2>1, <2>2 DEF Orderly, TypeOK, InSign
  <2>5. Exclusive'
    <3>1. CASE store = "database"
      BY <2>1, <3>1 DEF Exclusive
    <3>2. CASE store # "database"
      <4>1. \A u \in Threads \ {t} : pc[u] = "idle" /\ pc'[u] = "idle"
        BY <1>0, <2>1, <3>2 DEF Orderly, TypeOK, Exclusive
      <4>2. pc'[t] \in {"idle", "sign"}
        BY <1>0, <2>1 DEF TypeOK
      <4> QED
        BY <4>1, <4>2 DEF Exclusive
    <3> QED
      BY <3>1, <3>2
  <2>6. (Apart /\ Once /\ Covered)'
    BY <1>0, <2>1, <2>2 DEF Orderly, TypeOK, Apart, Once, Covered
  <2> QED
    BY <2>3, <2>4, <2>5, <2>6 DEF Orderly
<1>8. ASSUME NEW t \in Threads, Sign(t) PROVE Orderly'
  <2> DEFINE i == index[t]
  <2>1. /\ pc[t] = "sign" /\ q[SignerOf[t]] = i /\ mark = i + 1
        /\ i \in 0..(Capacity - 1) /\ signatures[i] = 0
    BY <1>0, <1>8 DEF Sign, Orderly, TypeOK, InSign
  <2>2. /\ signatures' = [signatures EXCEPT ![i] = signatures[i] + 1]
        /\ pc' = [pc EXCEPT ![t] = "advance"]
        /\ UNCHANGED <<store, mark, saved, live, q, seenMark, index>>
    <3>1. signatures' = [signatures EXCEPT ![q[SignerOf[t]]] = @ + 1]
      BY <1>8 DEF Sign
    <3>2. signatures' = [signatures EXCEPT ![i] = signatures[i] + 1]
      BY <2>1, <3>1, Zenon
    <3> QED
      BY <1>8, <3>2 DEF Sign, Goto
  <2>3. signatures' = [signatures EXCEPT ![i] = 1]
    <3>1. signatures[i] + 1 = 1
      BY <2>1
    <3> QED
      BY <2>2, <3>1, Zenon
  <2>4. \A u \in Threads \ {t} : pc[u] \notin {"sign", "advance"}
    BY <1>0, <2>1 DEF Orderly, Apart
  <2>5. (KeysBehindMark /\ InTree)'
    BY <1>0, <2>2 DEF Orderly, KeysBehindMark, InTree
  <2>6. DeadIndex'
    <3>1. mark \in 1..Capacity /\ signatures[mark - 1] = 0
      <4>1. mark - 1 = i
        BY <2>1
      <4> QED
        BY <2>1, <4>1
    <3> QED
      BY <1>0, <2>2, <3>1 DEF Orderly, DeadIndex
  <2>7. \A u \in Threads : InSign(u)'
    BY <1>0, <2>1, <2>2, <2>3, <2>4 DEF Orderly, TypeOK, InSign
  <2>8. Exclusive'
    BY <1>0, <2>1, <2>2 DEF Orderly, TypeOK, Exclusive
  <2>9. (Apart /\ Once /\ Covered)'
    BY <1>0, <2>1, <2>2, <2>3, <2>4 DEF Orderly, TypeOK, Apart, Once, Covered
  <2> QED
    BY <2>5, <2>6, <2>7, <2>8, <2>9 DEF Orderly
<1>9. ASSUME NEW t \in Threads, Advance(t) PROVE Orderly'
  <2> DEFINE s == SignerOf[t]
  <2>1. /\ pc[t] = "advance" /\ s \in live /\ s \in Signers /\ q[s] = index[t]
        /\ mark = index[t] + 1 /\ mark \in 1..Capacity /\ signatures[mark - 1] = 1
    BY <1>0, <1>9 DEF Advance, Orderly, TypeOK, InSign
  <2>2. /\ q' = [q EXCEPT ![s] = mark]
        /\ pc' = [pc EXCEPT ![t] = "idle"]
        /\ UNCHANGED <<store, mark, saved, live, seenMark, index, signatures>>
    BY <1>0, <1>9, <2>1 DEF Advance, Goto, TypeOK
  <2>3. \A u \in Threads \ {t} : pc[u] \notin {"sign", "advance"}
    BY <1>0, <2>1 DEF Orderly, Apart
  <2>4. (KeysBehindMark /\ InTree)'
    BY <1>0, <2>1, <2>2 DEF Orderly, TypeOK, KeysBehindMark, InTree
  <2>5. DeadIndex'
    BY <1>0, <2>1, <2>2, <2>3 DEF TypeOK, DeadIndex
  <2>6. \A u \in Threads : InSign(u)'
    BY <1>0, <2>1, <2>2, <2>3 DEF Orderly, TypeOK, InSign
  <2>7. Exclusive'
    BY <1>0, <2>1, <2>2 DEF Orderly, TypeOK, Exclusive
  <2>8. (Apart /\ Once /\ Covered)'
    BY <1>0, <2>2 DEF Orderly, TypeOK, Apart, Once, Covered
  <2> QED
    BY <2>4, <2>5, <2>6, <2>7, <2>8 DEF Orderly
<1>10. ASSUME UNCHANGED vars PROVE Orderly'
  BY <1>0, <1>10 DEF vars, Orderly, KeysBehindMark, InTree, DeadIndex, InSign, Exclusive,
     Apart, Once, Covered
<1>11. ASSUME NEW t \in Threads,
              Reserve(t) \/ ReserveFails(t) \/ RecordMark(t) \/ SignExhausted(t)
       PROVE  Orderly'
  BY <1>6, <1>7, <1>11 DEF Reserve, ReserveFails, RecordMark, SignExhausted, Goto
<1> QED
  BY <1>1, <1>2, <1>3, <1>4, <1>5, <1>8, <1>9, <1>10, <1>11 DEF Next, Rest

LEMMA NextIInv == IInv /\ [Next]_vars => IInv'
  BY NextTypeOK, NextOneByOne, NextOrderly DEF IInv
------------------------------------------------------------------------------
(* Every variable stays in its range, also where the calls are not
   serialised. *)
THEOREM TypeCorrect == Spec => []TypeOK
<1>1. IInv => TypeOK
  BY DEF IInv
<1> QED
  BY <1>1, InitIInv, NextIInv, PTL DEF Spec

(* No one-time key signs twice while the calls are serialised. *)
THEOREM NeverReused == Spec => []NoIndexReuse
<1>1. IInv => NoIndexReuse
  BY DEF IInv, Orderly, Once, NoIndexReuse
<1> QED
  BY <1>1, InitIInv, NextIInv, PTL DEF Spec

(* Whatever signed is below the mark, so no restart can forget it. *)
THEOREM IssuedIsMarked == Spec => []MarkCoversIssued
<1>1. IInv => MarkCoversIssued
  BY DEF IInv, Orderly, Covered, MarkCoversIssued
<1> QED
  BY <1>1, InitIInv, NextIInv, PTL DEF Spec

(* The index that signs is the one that was reserved, and one thread at a time
   is between the two. *)
THEOREM ReservationHolds == Spec => [](SignsWhatItReserved /\ OneSigning)
<1>1. IInv => SignsWhatItReserved /\ OneSigning
  BY DEF IInv, Orderly, InSign, Apart, SignsWhatItReserved, OneSigning
<1> QED
  BY <1>1, InitIInv, NextIInv, PTL DEF Spec

(* With a store whose reserve() is atomic no one-time key signs twice in any
   behaviour, whatever threads and signers do at the same time. *)
THEOREM DatabaseSuffices ==
  ASSUME Stores = {"database"}
  PROVE  Spec => [](\A i \in DOMAIN signatures : signatures[i] <= 1)
<1>1. IInv => \A i \in DOMAIN signatures : signatures[i] <= 1
  BY DEF IInv, Orderly, Once, Serialised, TypeOK
<1> QED
  BY <1>1, InitIInv, NextIInv, PTL DEF Spec
------------------------------------------------------------------------------
(* A handler here makes at most four checks; one of those that apply
   comes first. *)
LEMMA LeastOfFour ==
  ASSUME NEW S, S \subseteq {1, 2, 3, 4}, S # {}
  PROVE  \E i \in S : \A j \in S : i <= j
<1>1. CASE 1 \in S
  BY <1>1
<1>2. CASE 1 \notin S /\ 2 \in S
  BY <1>2
<1>3. CASE 1 \notin S /\ 2 \notin S /\ 3 \in S
  BY <1>3
<1>4. CASE 1 \notin S /\ 2 \notin S /\ 3 \notin S
  <2>1. S = {4}
    BY <1>4
  <2> QED
    BY <2>1
<1> QED
  BY <1>1, <1>2, <1>3, <1>4

(* The outcome of a handler is its last one exactly when no check applies. *)
LEMMA NoneApplies ==
  ASSUME NEW checks, NEW d, NEW x, DOMAIN checks \subseteq {1, 2, 3, 4},
         \A i \in DOMAIN checks : checks[i][2] # x
  PROVE  FirstOf(checks, d) = x <=> (\A i \in DOMAIN checks : ~checks[i][1]) /\ d = x
<1> DEFINE hits == {i \in DOMAIN checks : checks[i][1]}
<1>1. CASE hits = {}
  BY <1>1 DEF FirstOf
<1>2. CASE hits # {}
  <2>1. \E i \in hits : \A j \in hits : i <= j
    BY <1>2, LeastOfFour
  <2>2. \E i \in hits : FirstOf(checks, d) = checks[i][2]
    BY <1>2, <2>1 DEF FirstOf
  <2> QED
    BY <1>2, <2>2
<1> QED
  BY <1>1, <1>2

(* FirstOf, with two, three and four checks: x comes out exactly when
   none applies. *)
LEMMA TwoChecks ==
  ASSUME NEW p \in BOOLEAN, NEW w \in BOOLEAN, NEW a, NEW b, NEW d, NEW x, x \notin {a, b}
  PROVE  FirstOf(<<<<p, a>>, <<w, b>>>>, d) = x <=> ~p /\ ~w /\ d = x
<1> DEFINE checks == <<<<p, a>>, <<w, b>>>>
<1>1. DOMAIN checks = {1, 2}
  OBVIOUS
<1>2. checks[1] = <<p, a>> /\ checks[2] = <<w, b>>
  OBVIOUS
<1>3. \A i \in DOMAIN checks : checks[i][2] # x
  BY <1>1, <1>2
<1> HIDE DEF checks
<1>4. DOMAIN checks \subseteq {1, 2, 3, 4}
  BY <1>1
<1>5. FirstOf(checks, d) = x <=> (\A i \in DOMAIN checks : ~checks[i][1]) /\ d = x
  BY <1>3, <1>4, NoneApplies, Zenon
<1> QED
  BY <1>1, <1>2, <1>5 DEF checks

(* Sign.verify, sign and the builders make three checks. *)
LEMMA ThreeChecks ==
  ASSUME NEW p \in BOOLEAN, NEW w \in BOOLEAN, NEW r \in BOOLEAN, NEW a, NEW b, NEW c, NEW d, NEW x,
         x \notin {a, b, c}
  PROVE  FirstOf(<<<<p, a>>, <<w, b>>, <<r, c>>>>, d) = x <=> ~p /\ ~w /\ ~r /\ d = x
<1> DEFINE checks == <<<<p, a>>, <<w, b>>, <<r, c>>>>
<1>1. DOMAIN checks = {1, 2, 3}
  OBVIOUS
<1>2. checks[1] = <<p, a>> /\ checks[2] = <<w, b>> /\ checks[3] = <<r, c>>
  OBVIOUS
<1>3. \A i \in DOMAIN checks : checks[i][2] # x
  BY <1>1, <1>2
<1> HIDE DEF checks
<1>4. DOMAIN checks \subseteq {1, 2, 3, 4}
  BY <1>1
<1>5. FirstOf(checks, d) = x <=> (\A i \in DOMAIN checks : ~checks[i][1]) /\ d = x
  BY <1>3, <1>4, NoneApplies, ZenonT(40)
<1> QED
  BY <1>1, <1>2, <1>5 DEF checks

(* Four checks, by what each of them says. *)
LEMMA NoneOfFour ==
  ASSUME NEW checks, NEW d, NEW x, DOMAIN checks = {1, 2, 3, 4},
         checks[1][2] # x, checks[2][2] # x, checks[3][2] # x, checks[4][2] # x
  PROVE  FirstOf(checks, d) = x
         <=> ~checks[1][1] /\ ~checks[2][1] /\ ~checks[3][1] /\ ~checks[4][1] /\ d = x
<1>1. FirstOf(checks, d) = x <=> (\A i \in DOMAIN checks : ~checks[i][1]) /\ d = x
  BY NoneApplies
<1> QED
  BY <1>1

(* Four checks written out. *)
LEMMA FourChecks ==
  ASSUME NEW p \in BOOLEAN, NEW w \in BOOLEAN, NEW r \in BOOLEAN, NEW s \in BOOLEAN,
         NEW a, NEW b, NEW c, NEW e, NEW d, NEW x, x \notin {a, b, c, e}
  PROVE  FirstOf(<<<<p, a>>, <<w, b>>, <<r, c>>, <<s, e>>>>, d) = x
         <=> ~p /\ ~w /\ ~r /\ ~s /\ d = x
<1> DEFINE checks == <<<<p, a>>, <<w, b>>, <<r, c>>, <<s, e>>>>
<1>1. DOMAIN checks = {1, 2, 3, 4}
  OBVIOUS
<1>2. checks[1][1] = p /\ checks[2][1] = w /\ checks[3][1] = r /\ checks[4][1] = s
  OBVIOUS
<1>3. checks[1][2] # x /\ checks[2][2] # x /\ checks[3][2] # x /\ checks[4][2] # x
  OBVIOUS
<1> HIDE DEF checks
<1>4. FirstOf(checks, d) = x
      <=> ~checks[1][1] /\ ~checks[2][1] /\ ~checks[3][1] /\ ~checks[4][1] /\ d = x
  BY <1>1, <1>3, NoneOfFour
<1> QED
  BY <1>2, <1>4 DEF checks

(* Whatever comes out of four checks is one of their outcomes or the
   default. *)
LEMMA OutcomeOfFour ==
  ASSUME NEW checks, NEW d, DOMAIN checks = {1, 2, 3, 4}
  PROVE  FirstOf(checks, d) \in {d, checks[1][2], checks[2][2], checks[3][2], checks[4][2]}
<1> DEFINE hits == {i \in DOMAIN checks : checks[i][1]}
<1>1. CASE hits = {}
  BY <1>1 DEF FirstOf
<1>2. CASE hits # {}
  <2>1. \E i \in hits : \A j \in hits : i <= j
    BY <1>2, LeastOfFour
  <2>2. \E i \in hits : FirstOf(checks, d) = checks[i][2]
    BY <1>2, <2>1 DEF FirstOf
  <2> QED
    BY <1>2, <2>2
<1> QED
  BY <1>1, <1>2

(* _parse lets a document pass exactly if its format, version and kind
   are those asked for. *)
LEMMA ParseOutcome ==
  ASSUME NEW doc, NEW format, NEW ktype, doc.v \in Int
  PROVE  /\ ParseRefusal(doc, format, ktype) \in {"read", "refused", "incompatible"}
         /\ ParseRefusal(doc, format, ktype) = "read"
            <=> doc.format = format /\ doc.v = CurrentVersion /\ doc.ktype = ktype
<1> DEFINE checks == <<<<doc.format # format, "refused">>,
            <<doc.v < 1, "refused">>,
            <<doc.v > CurrentVersion, "incompatible">>,
            <<doc.ktype # ktype, "refused">>>>
<1>1. DOMAIN checks = {1, 2, 3, 4}
  OBVIOUS
<1>2. /\ checks[1][2] = "refused" /\ checks[2][2] = "refused"
      /\ checks[3][2] = "incompatible" /\ checks[4][2] = "refused"
  OBVIOUS
<1>3. /\ checks[1][1] <=> doc.format # format
      /\ checks[2][1] <=> doc.v < 1
      /\ checks[3][1] <=> doc.v > CurrentVersion
      /\ checks[4][1] <=> doc.ktype # ktype
  OBVIOUS
<1>4. ParseRefusal(doc, format, ktype) = FirstOf(checks, "read")
  BY DEF ParseRefusal
<1> HIDE DEF checks
<1>5. FirstOf(checks, "read") \in {"read", "refused", "incompatible"}
  BY <1>1, <1>2, OutcomeOfFour
<1>6. FirstOf(checks, "read") = "read"
      <=> ~checks[1][1] /\ ~checks[2][1] /\ ~checks[3][1] /\ ~checks[4][1] /\ "read" = "read"
  BY <1>1, <1>2, NoneOfFour
<1>7. ~(doc.v < 1) /\ ~(doc.v > CurrentVersion) <=> doc.v = CurrentVersion
  BY DEF CurrentVersion
<1> QED
  BY <1>3, <1>4, <1>5, <1>6, <1>7, Zenon

(* Keys and pairs of the sender and of the other; halves of one pair have
   one name. *)
Materials == {Owner, Stranger}
Publics == [material: Materials, algorithm: Suite, state: States]
Secrets == [material: Materials, algorithm: Suite, state: States, form: {"seed", "expanded"}]
Pairs == {p \in [public: Publics, secret: Secrets] : p.public.algorithm = p.secret.algorithm}

(* A PEM or CBOR document of this or of the next version. *)
Filed(format, key, ktype, v) == [KeyMap(format, key, ktype) EXCEPT !.v = v]

(* A map that reads at all reads as the key it was written from, by the
   reader of its format and kind, and is of this version. *)
LEMMA KeyRead ==
  ASSUME NEW key \in Publics \cup Secrets, NEW f, NEW format, NEW ktype, NEW kt, NEW v \in {1, 2},
         KeyFrom(Filed(f, key, ktype, v), format, kt) \notin Refusals
  PROVE  /\ KeyFrom(Filed(f, key, ktype, v), format, kt) = key
         /\ f = format /\ kt = ktype /\ v = CurrentVersion
<1> DEFINE doc == Filed(f, key, ktype, v)
<1>1. /\ doc.v = v /\ doc.format = f /\ doc.ktype = ktype
      /\ doc.algo = key.algorithm /\ doc.ms = key.state /\ doc.key = key
  BY DEF Filed, KeyMap
<1>2. key.state \in States
  BY DEF Publics, Secrets
<1>3. [key EXCEPT !.algorithm = key.algorithm, !.state = key.state] = key
  BY DEF Publics, Secrets
<1> HIDE DEF doc
<1>4. ParseRefusal(doc, format, kt) = "read"
  BY <1>1, ParseOutcome DEF KeyFrom, Refusals, doc
<1> QED
  BY <1>1, <1>2, <1>3, <1>4, ParseOutcome DEF KeyFrom, StateRead, doc

(* Every document that can be written of a pair. *)
Documents(from) ==
  LET docs == PublicDocuments(from) \cup PrivateDocuments(from) IN docs \cup Newer(docs)

(* What an RFC 9964 document holds, of either format, with or without the seed. *)
Standard(f, from, priv) ==
  [format |-> f, algo |-> from.public.algorithm, ms |-> "absent",
   pub |-> from.public.material, priv |-> priv]

(* Every document that Write can hand over has one of five shapes. *)
LEMMA Shapes ==
  ASSUME NEW from \in Pairs, NEW doc \in Documents(from)
  PROVE  \/ \E f \in {"pem", "cbor"}, v \in {1, 2} : doc = Filed(f, from.public, "pub", v)
         \/ \E f \in {"pem", "cbor"}, v \in {1, 2} : doc = Filed(f, from.secret, "sec", v)
         \/ \E v \in {1, 2} : doc = [PublicJwk(from.public) EXCEPT !.v = v]
         \/ /\ JoseAlg(from.public.algorithm)
            /\ \E f \in Standards : \/ doc = Standard(f, from, "absent")
                                   \/ doc = Standard(f, from, from.secret.material)
         \/ doc = Bundle(from)
<1> DEFINE docs == PublicDocuments(from) \cup PrivateDocuments(from)
           Kept(d) ==
             \/ \E f \in {"pem", "cbor"} : d = KeyMap(f, from.public, "pub")
             \/ \E f \in {"pem", "cbor"} : d = KeyMap(f, from.secret, "sec")
             \/ d = PublicJwk(from.public)
           Std(d) ==
             /\ JoseAlg(from.public.algorithm)
             /\ \E f \in Standards : \/ d = Standard(f, from, "absent")
                                   \/ d = Standard(f, from, from.secret.material)
<1>1. ASSUME NEW d \in docs PROVE Kept(d) \/ Std(d) \/ d = Bundle(from)
  <2>1. \A f : StandardPublic(f, from.public) \notin Refusals
               => /\ JoseAlg(from.public.algorithm)
                  /\ StandardPublic(f, from.public) = Standard(f, from, "absent")
    BY DEF StandardPublic, Standard, Refusals
  <2>2. \A f : StandardPrivate(f, from) \notin Refusals
               => /\ JoseAlg(from.public.algorithm)
                  /\ StandardPrivate(f, from) = Standard(f, from, from.secret.material)
    BY DEF StandardPrivate, StandardPublic, Standard, Refusals, Pairs
  <2>3. \/ \E f \in {"pem", "cbor"} : d = KeyMap(f, from.public, "pub")
        \/ \E f \in {"pem", "cbor"} : d = KeyMap(f, from.secret, "sec")
        \/ d = PublicJwk(from.public)
        \/ d = Bundle(from)
        \/ d \notin Refusals /\ \E f \in Standards : d = StandardPublic(f, from.public)
        \/ d \notin Refusals /\ \E f \in Standards : d = StandardPrivate(f, from)
    BY DEF PublicDocuments, PrivateDocuments
  <2> QED
    BY <2>1, <2>2, <2>3, Zenon
<1>2. /\ \A f, k, t : KeyMap(f, k, t) = Filed(f, k, t, 1) /\ [KeyMap(f, k, t) EXCEPT !.v = 2] = Filed(f, k, t, 2)
      /\ PublicJwk(from.public) = [PublicJwk(from.public) EXCEPT !.v = 1]
  BY DEF Filed, KeyMap, PublicJwk, CurrentVersion
<1>3. CASE doc \in docs
  BY <1>1, <1>2, <1>3
<1>4. ASSUME NEW d \in docs, d.format \in Library, doc = [d EXCEPT !.v = 2]
      PROVE  \/ \E f \in {"pem", "cbor"}, v \in {1, 2} : doc = Filed(f, from.public, "pub", v)
             \/ \E f \in {"pem", "cbor"}, v \in {1, 2} : doc = Filed(f, from.secret, "sec", v)
             \/ \E v \in {1, 2} : doc = [PublicJwk(from.public) EXCEPT !.v = v]
  <2>1. ~Std(d) /\ d # Bundle(from)
    BY <1>4 DEF Standard, Bundle, Library, Standards
  <2>2. Kept(d)
    BY <1>1, <2>1
  <2> QED
    BY <1>2, <1>4, <2>2
<1> QED
  BY <1>3, <1>4 DEF Documents, Newer, CurrentVersion

(* A reading of a document, against the public half of the pair it was
   written from. *)
TruePublic(k, doc, from) ==
  /\ k \in Publics
  /\ k.material = from.public.material /\ k.algorithm = from.public.algorithm
  /\ k.state \in {from.public.state, "hybrid_transition"}
  /\ doc.format \in {"pem", "cbor"} => k.state = from.public.state /\ doc.v = CurrentVersion

(* Every reading of such a document as a public key is a true one. *)
LEMMA PublicsTrue ==
  ASSUME NEW from \in Pairs, NEW doc \in Documents(from), NEW k \in PublicReadings(doc)
  PROVE  TruePublic(k, doc, from)
<1>1. from.public \in Publics /\ from.secret \in Secrets /\ from.public.algorithm = from.secret.algorithm
  BY DEF Pairs
<1>2. k \notin Refusals
  BY DEF PublicReadings
<1>3. ASSUME NEW f \in {"pem", "cbor"}, NEW v \in {1, 2}, doc = Filed(f, from.public, "pub", v)
      PROVE  TruePublic(k, doc, from)
  <2>1. doc.format = f /\ doc.v = v
    BY <1>3 DEF Filed, KeyMap
  <2>2. \E g \in {"pem", "cbor"} : k = KeyFrom(doc, g, "pub")
    BY <2>1 DEF PublicReadings, PublicFrom
  <2>3. k = from.public /\ v = CurrentVersion
    BY <1>1, <1>2, <1>3, <2>2, KeyRead
  <2> QED
    BY <1>1, <2>1, <2>3 DEF TruePublic, Publics
<1>4. ASSUME NEW f \in {"pem", "cbor"}, NEW v \in {1, 2}, doc = Filed(f, from.secret, "sec", v)
      PROVE  FALSE
  <2>1. doc.format = f
    BY <1>4 DEF Filed, KeyMap
  <2>2. \E g \in {"pem", "cbor"} : k = KeyFrom(doc, g, "pub")
    BY <2>1 DEF PublicReadings, PublicFrom
  <2>3. "pub" = "sec"
    BY <1>1, <1>2, <1>4, <2>2, KeyRead
  <2> QED
    BY <2>3
<1>5. ASSUME NEW v \in {1, 2}, doc = [PublicJwk(from.public) EXCEPT !.v = v]
      PROVE  TruePublic(k, doc, from)
  <2>1. /\ doc.format = "jwk" /\ doc.pub = from.public.material
        /\ doc.algo = from.public.algorithm /\ doc.ms = from.public.state
    BY <1>5 DEF PublicJwk
  <2>2. k \in {PublicFromJwk(doc), PartsOfJwk(doc)}
    BY <2>1 DEF PublicReadings
  <2>3. \/ k = [material |-> from.public.material, algorithm |-> from.public.algorithm, state |-> from.public.state]
        \/ k = [material |-> from.public.material, algorithm |-> from.public.algorithm, state |-> "hybrid_transition"]
    BY <1>1, <1>2, <2>1, <2>2 DEF PublicFromJwk, PartsOfJwk, StateRead, Refusals, Publics
  <2> QED
    BY <1>1, <2>1, <2>3 DEF TruePublic, Publics, States
<1>6. ASSUME NEW f \in Standards, NEW priv, doc = Standard(f, from, priv)
      PROVE  TruePublic(k, doc, from)
  <2>1. /\ doc.format = f /\ doc.pub = from.public.material
        /\ doc.algo = from.public.algorithm /\ doc.ms = "absent" /\ f \in {"akp", "cose"}
    BY <1>6 DEF Standard, Standards
  <2>2. k \in {PublicFromJwk(doc), PartsOfJwk(doc), PublicFromCose(doc)}
    BY <2>1 DEF PublicReadings
  <2>3. k = [material |-> from.public.material, algorithm |-> from.public.algorithm, state |-> "hybrid_transition"]
    BY <1>2, <2>1, <2>2 DEF PublicFromJwk, PartsOfJwk, PublicFromCose, StateRead, Refusals, States
  <2> QED
    BY <1>1, <2>1, <2>3 DEF TruePublic, Publics, States
<1>7. ASSUME doc = Bundle(from) PROVE FALSE
  <2>1. doc.format = "bundle"
    BY <1>7 DEF Bundle
  <2> QED
    BY <2>1 DEF PublicReadings
<1> QED
  BY <1>3, <1>4, <1>5, <1>6, <1>7, Shapes

(* A reading of a document as a pair, against the pair it was written from. *)
TruePair(p, doc, from) ==
  /\ p \in Pairs
  /\ p.secret.material = from.secret.material /\ p.secret.algorithm = from.secret.algorithm
  /\ p.public.material = from.public.material
  /\ doc.format \in Standards => p.public.material = p.secret.material

(* Every reading of it as a pair is a true one. *)
LEMMA PairsTrue ==
  ASSUME NEW from \in Pairs, NEW doc \in Documents(from), NEW p \in PairReadings(doc)
  PROVE  TruePair(p, doc, from)
<1>1. from.public \in Publics /\ from.secret \in Secrets /\ from.public.algorithm = from.secret.algorithm
  BY DEF Pairs
<1>2. p \notin Refusals
  BY DEF PairReadings
<1>3. ASSUME NEW f \in {"pem", "cbor", "jwk"}, doc.format = f
      PROVE  FALSE
  BY <1>3 DEF PairReadings, Standards
<1>4. ASSUME doc = Bundle(from)
      PROVE  TruePair(p, doc, from)
  <2>1. /\ doc.format = "bundle"
        /\ doc.pub = KeyMap("cbor", from.public, "pub") /\ doc.sec = KeyMap("cbor", from.secret, "sec")
    BY <1>4 DEF Bundle
  <2>2. \A f, k, t : KeyMap(f, k, t) = Filed(f, k, t, 1)
    BY DEF Filed, KeyMap, CurrentVersion
  <2>3. p = PairFromBundle(doc)
    BY <2>1 DEF PairReadings, Standards
  <2> DEFINE pub == KeyFrom(Filed("cbor", from.public, "pub", 1), "cbor", "pub")
             sec == KeyFrom(Filed("cbor", from.secret, "sec", 1), "cbor", "sec")
  <2>4. p = IF pub \in Refusals THEN pub ELSE IF sec \in Refusals THEN sec ELSE Pair(pub, sec)
    BY <2>1, <2>2, <2>3 DEF PairFromBundle, PublicFrom, SecretFrom
  <2> HIDE DEF pub, sec
  <2>5. pub \notin Refusals /\ sec \notin Refusals /\ p = Pair(pub, sec)
    BY <1>2, <2>4
  <2>6. pub = from.public /\ sec = from.secret
    BY <1>1, <2>5, KeyRead DEF pub, sec
  <2>7. p = from
    BY <2>5, <2>6 DEF Pair, Pairs
  <2> QED
    BY <2>1, <2>7 DEF TruePair, Standards
<1>5. ASSUME NEW f \in Standards, NEW priv \in {"absent", from.secret.material},
             JoseAlg(from.public.algorithm), doc = Standard(f, from, priv)
      PROVE  TruePair(p, doc, from)
  <2>1. /\ doc.format = f /\ doc.pub = from.public.material
        /\ doc.algo = from.public.algorithm /\ doc.priv = priv
    BY <1>5 DEF Standard
  <2>2. \E g \in Standards : p = PairFromSeed(doc, g)
    BY <2>1 DEF PairReadings, PairFromJwk, PairFromCose, Standards
  <2> DEFINE m == from.secret.material
             s == from.public.algorithm
             pair == [public |-> Public(m, s), secret |-> Secret(m, s, "seed")]
  <2>3. KeypairFromSeed(m, s) = pair
    BY <1>5 DEF KeypairFromSeed, Generated, Pair, JoseAlg, Public, Secret
  <2>4. pair.public.material = m
    BY DEF Public
  <2>5. p = pair /\ from.public.material \in {"absent", m}
    <3>1. priv # "absent" /\ priv = m
      BY <1>2, <1>5, <2>1, <2>2 DEF PairFromSeed, Refusals
    <3> HIDE DEF pair
    <3> QED
      BY <1>2, <2>1, <2>2, <2>3, <2>4, <3>1 DEF PairFromSeed, Refusals
  <2>6. m \in Materials /\ s \in Suite /\ from.public.material \in Materials /\ StateOf(s) \in States
    BY <1>1 DEF Publics, Secrets, StateOf, States
  <2>7. from.public.material = m
    BY <2>5, <2>6, TrafficAssumption DEF Materials
  <2>8. /\ p.public \in Publics /\ p.secret \in Secrets /\ p \in Pairs
        /\ p.public.algorithm = s /\ p.secret.algorithm = s
        /\ p.public.material = m /\ p.secret.material = m
    BY <2>5, <2>6 DEF Public, Secret, Publics, Secrets, Pairs
  <2> QED
    BY <1>1, <2>7, <2>8 DEF TruePair
<1>6. \/ \E f \in {"pem", "cbor", "jwk"} : doc.format = f
      \/ /\ JoseAlg(from.public.algorithm)
         /\ \E f \in Standards, priv \in {"absent", from.secret.material} : doc = Standard(f, from, priv)
      \/ doc = Bundle(from)
  <2>1. \A f, k, t, v : Filed(f, k, t, v).format = f
    BY DEF Filed, KeyMap
  <2>2. \A v : [PublicJwk(from.public) EXCEPT !.v = v].format = "jwk"
    BY DEF PublicJwk
  <2>3. \A k, t : (\E f \in {"pem", "cbor"}, v \in {1, 2} : doc = Filed(f, k, t, v))
                 => \E f \in {"pem", "cbor", "jwk"} : doc.format = f
    BY <2>1
  <2>4. (\E v \in {1, 2} : doc = [PublicJwk(from.public) EXCEPT !.v = v])
        => \E f \in {"pem", "cbor", "jwk"} : doc.format = f
    BY <2>2
  <2> QED
    BY <2>3, <2>4, Shapes
<1> QED
  BY <1>3, <1>4, <1>5, <1>6, Zenon

(* A document is on its way before anything is sent. *)
MailOk ==
  mail # NoDocument =>
    /\ sent = {}
    /\ \E from \in Pairs : \E doc \in Documents(from) : mail = [doc |-> doc, from |-> from]

(* The pair is a pair, and the receiver's key a key. *)
KeysOk == held \in Pairs /\ known \in Publics /\ MailOk

(* A pair whose two halves are renamed alike is still a pair. *)
LEMMA RenamedPair ==
  ASSUME NEW p \in Pairs, NEW s \in Suite, NEW st \in States
  PROVE  /\ Pair([p.public EXCEPT !.algorithm = s], [p.secret EXCEPT !.algorithm = s])
              = [public |-> [p.public EXCEPT !.algorithm = s], secret |-> [p.secret EXCEPT !.algorithm = s]]
         /\ Pair([p.public EXCEPT !.algorithm = s, !.state = st], [p.secret EXCEPT !.algorithm = s, !.state = st])
              = [public |-> [p.public EXCEPT !.algorithm = s, !.state = st],
                 secret |-> [p.secret EXCEPT !.algorithm = s, !.state = st]]
         /\ [p.public EXCEPT !.algorithm = s] \in Publics /\ [p.secret EXCEPT !.algorithm = s] \in Secrets
         /\ [p.public EXCEPT !.algorithm = s, !.state = st] \in Publics
         /\ [p.secret EXCEPT !.algorithm = s, !.state = st] \in Secrets
<1>1. p.public \in Publics /\ p.secret \in Secrets
  BY DEF Pairs
<1> DEFINE a == p.public
           b == p.secret
<1> HIDE DEF a, b
<1>2. /\ [a EXCEPT !.algorithm = s] \in Publics /\ [a EXCEPT !.algorithm = s, !.state = st] \in Publics
      /\ [a EXCEPT !.algorithm = s].algorithm = s /\ [a EXCEPT !.algorithm = s, !.state = st].algorithm = s
  BY <1>1 DEF Publics, a
<1>3. /\ [b EXCEPT !.algorithm = s] \in Secrets /\ [b EXCEPT !.algorithm = s, !.state = st] \in Secrets
      /\ [b EXCEPT !.algorithm = s].algorithm = s /\ [b EXCEPT !.algorithm = s, !.state = st].algorithm = s
  BY <1>1 DEF Secrets, b
<1> QED
  BY <1>2, <1>3 DEF Pair, a, b

(* What Refile and Strip make of the pair. *)
LEMMA Refiled ==
  ASSUME KeysOk, Refile
  PROVE  /\ held' \in Pairs
         /\ held'.secret = [held.secret EXCEPT !.algorithm = [held.secret.algorithm EXCEPT !.v2 = ~@]]
<1> DEFINE suite == [held.secret.algorithm EXCEPT !.v2 = ~@]
<1>1. suite \in Suite
  BY DEF KeysOk, Pairs, Secrets, Suite
<1>2. held' = Pair([held.public EXCEPT !.algorithm = suite], [held.secret EXCEPT !.algorithm = suite])
  BY DEF Refile
<1> HIDE DEF suite
<1>3. /\ held' = [public |-> [held.public EXCEPT !.algorithm = suite],
                  secret |-> [held.secret EXCEPT !.algorithm = suite]]
      /\ [held.public EXCEPT !.algorithm = suite] \in Publics
      /\ [held.secret EXCEPT !.algorithm = suite] \in Secrets
  BY <1>1, <1>2, RenamedPair DEF KeysOk, States
<1>4. held.public \in Publics /\ held.secret \in Secrets
  BY DEF KeysOk, Pairs
<1>5. [held.public EXCEPT !.algorithm = suite].algorithm = [held.secret EXCEPT !.algorithm = suite].algorithm
  BY <1>4 DEF Publics, Secrets
<1>6. held' \in Pairs
  BY <1>3, <1>5 DEF Pairs
<1> QED
  BY <1>3, <1>6 DEF suite

(* strip_classical_component gives a pair of pure keys of the same
   material. *)
LEMMA Stripped ==
  ASSUME KeysOk, Strip
  PROVE  /\ held' \in Pairs
         /\ held'.secret = [held.secret EXCEPT !.algorithm = [held.secret.algorithm EXCEPT !.classical = "none"],
                                               !.state = "pqc_only"]
<1> DEFINE suite == [held.secret.algorithm EXCEPT !.classical = "none"]
<1>1. suite \in Suite
  BY DEF KeysOk, Pairs, Secrets, Suite, Classicals
<1>2. held' = Pair([held.public EXCEPT !.algorithm = suite, !.state = "pqc_only"],
                   [held.secret EXCEPT !.algorithm = suite, !.state = "pqc_only"])
  BY DEF Strip
<1> HIDE DEF suite
<1>3. /\ held' = [public |-> [held.public EXCEPT !.algorithm = suite, !.state = "pqc_only"],
                  secret |-> [held.secret EXCEPT !.algorithm = suite, !.state = "pqc_only"]]
      /\ [held.public EXCEPT !.algorithm = suite, !.state = "pqc_only"] \in Publics
      /\ [held.secret EXCEPT !.algorithm = suite, !.state = "pqc_only"] \in Secrets
  BY <1>1, <1>2, RenamedPair DEF KeysOk, States
<1>4. held.public \in Publics /\ held.secret \in Secrets
  BY DEF KeysOk, Pairs
<1>5. [held.public EXCEPT !.algorithm = suite, !.state = "pqc_only"].algorithm
      = [held.secret EXCEPT !.algorithm = suite, !.state = "pqc_only"].algorithm
  BY <1>4 DEF Publics, Secrets
<1>6. held' \in Pairs
  BY <1>3, <1>5 DEF Pairs
<1> QED
  BY <1>3, <1>6 DEF suite

(* Whatever is sent leaves the keys alone, and no document is on its way. *)
LEMMA SendAdds ==
  ASSUME Send
  PROVE  mail' = NoDocument /\ UNCHANGED <<held, known, now>> /\ now <= LastIssue
  BY DEF Send, SendMessage, SendRaw, SendJwt, SendStandard, SendCose, SendCertificate, Add

(* A pair as generated, and no document yet. *)
LEMMA InitKeys == TrafficInit => KeysOk
<1> SUFFICES ASSUME TrafficInit PROVE KeysOk
  OBVIOUS
<1>1. PICK s \in Suites, form \in {"seed", "expanded"}, m \in {Owner, Stranger} :
        held = Pair(Public(m, s), Secret(Owner, s, form))
  BY DEF TrafficInit
<1>2. s \in Suite /\ StateOf(s) \in States
  BY TrafficAssumption DEF StateOf, States
<1>3. Public(m, s) \in Publics /\ Secret(Owner, s, form) \in Secrets
  BY <1>2 DEF Public, Secret, Publics, Secrets, Materials
<1>4. Public(m, s).algorithm = s /\ Secret(Owner, s, form).algorithm = s
  BY DEF Public, Secret
<1>5. held \in Pairs /\ held.public = Public(m, s)
  BY <1>1, <1>3, <1>4 DEF Pair, Pairs
<1> QED
  BY <1>3, <1>5 DEF TrafficInit, KeysOk, MailOk

(* No step makes of the keys anything but keys, or of the mail a document
   of something else. *)
LEMMA NextKeys == KeysOk /\ [TrafficNext]_traffic => KeysOk'
<1> SUFFICES ASSUME KeysOk, [TrafficNext]_traffic PROVE KeysOk'
  OBVIOUS
<1>1. CASE Refile
  <2>1. held' \in Pairs
    BY <1>1, Refiled
  <2> QED
    BY <1>1, <2>1 DEF KeysOk, MailOk, Refile
<1>2. CASE Strip
  <2>1. held' \in Pairs
    BY <1>2, Stripped
  <2> QED
    BY <1>2, <2>1 DEF KeysOk, MailOk, Strip
<1>3. CASE Write
  <2>1. \E doc \in Documents(held) : mail' = [doc |-> doc, from |-> held]
    BY <1>3 DEF Write, Documents
  <2> QED
    BY <1>3, <2>1 DEF KeysOk, MailOk, Write
<1>4. CASE Learn
  <2>0. PICK from \in Pairs : \E doc \in Documents(from) : mail = [doc |-> doc, from |-> from]
    BY <1>4 DEF Learn, KeysOk, MailOk
  <2>1. PICK doc \in Documents(from) : mail = [doc |-> doc, from |-> from]
    BY <2>0
  <2>2. known' \in PublicReadings(doc)
    BY <1>4, <2>1 DEF Learn
  <2>3. known' \in Publics
    BY <2>2, PublicsTrue DEF TruePublic
  <2> QED
    BY <1>4, <2>3 DEF KeysOk, MailOk, Learn
<1>5. CASE Restore
  <2>0. PICK from \in Pairs : \E doc \in Documents(from) : mail = [doc |-> doc, from |-> from]
    BY <1>5 DEF Restore, KeysOk, MailOk
  <2>1. PICK doc \in Documents(from) : mail = [doc |-> doc, from |-> from]
    BY <2>0
  <2>2. held' \in PairReadings(doc)
    BY <1>5, <2>1 DEF Restore
  <2>3. held' \in Pairs
    BY <2>2, PairsTrue DEF TruePair
  <2> QED
    BY <1>5, <2>3 DEF KeysOk, MailOk, Restore
<1>6. CASE Send
  BY <1>6, SendAdds DEF KeysOk, MailOk
<1>7. CASE Tick
  BY <1>7 DEF KeysOk, MailOk, Tick
<1>8. CASE UNCHANGED traffic
  BY <1>8 DEF KeysOk, MailOk, traffic
<1> QED
  BY <1>1, <1>2, <1>3, <1>4, <1>5, <1>6, <1>7, <1>8 DEF TrafficNext

(* What a reader makes of a document is the key it was written from, for
   every suite, pair and version. *)
THEOREM DocumentsTrue == TrafficSpec => []DocumentsCarryTheKey
<1>1. KeysOk => DocumentsCarryTheKey
  <2> SUFFICES ASSUME KeysOk, mail # NoDocument PROVE DocumentsCarryTheKey
    BY DEF DocumentsCarryTheKey
  <2>0. PICK from \in Pairs : \E doc \in Documents(from) : mail = [doc |-> doc, from |-> from]
    BY DEF KeysOk, MailOk
  <2>1. PICK doc \in Documents(from) : mail = [doc |-> doc, from |-> from]
    BY <2>0
  <2>2. mail.doc = doc /\ mail.from = from
    BY <2>1
  <2>3. \A k \in PublicReadings(doc) : TruePublic(k, doc, from)
    BY PublicsTrue
  <2>4. \A p \in PairReadings(doc) : TruePair(p, doc, from)
    BY PairsTrue
  <2> QED
    BY <2>2, <2>3, <2>4 DEF DocumentsCarryTheKey, TruePublic, TruePair
<1> QED
  BY <1>1, InitKeys, NextKeys, PTL DEF TrafficSpec
------------------------------------------------------------------------------
(* Everything that is encoded in what is signed. *)
ClaimSets == {FullClaims(c, "any", e, t) : c \in Callers, e \in Lifetimes, t \in Nat}
Certificates == {Certificate("cn", p) : p \in Pairs}
Aads == Contexts \cup {JwtContext, CosigContext, Omitted}
Structures ==
  Suite \cup ClaimSets \cup Certificates \cup Aads
  \cup {JwtHeader(s) : s \in Suite} \cup {StandardHeader(s, "none") : s \in Suite}

(* Bytes that are signed: what applications pass, and what the library puts
   around it. *)
Words ==
  {"jwt", "qs-x509-cosig", "qs-x509-cosig-v1", "no argument", "uantum-safe-sig-v2", "nil"}
Pieces ==
  Alphabet \cup [byte: Nat] \cup [text: Words] \cup [random: Nat]
  \cup [encoded: Structures, at: 1..Width]
Bytes == Seq(Pieces)
Bodies == {b \in Bytes : b # <<>>}
Randoms == Seq([random: Nat])

(* What the library knows of concatenation, at the types it knows it of. *)
LEMMA PutTwice ==
  ASSUME NEW S, NEW s \in Seq(S), NEW t \in Seq(S), NEW u \in Seq(S)
  PROVE  (s \o t) \o u = s \o (t \o u)
  OBVIOUS

(* Sequences of one length with the same elements are one. *)
LEMMA Alike ==
  ASSUME NEW S, NEW s \in Seq(S), NEW t \in Seq(S), Len(s) = Len(t),
         \A k \in 1..Len(s) : s[k] = t[k]
  PROVE  s = t
  OBVIOUS

(* The elements of a concatenation. *)
LEMMA Put ==
  ASSUME NEW S, NEW s \in Seq(S), NEW t \in Seq(S)
  PROVE  /\ Len(s \o t) = Len(s) + Len(t)
         /\ \A k \in 1..Len(s) : (s \o t)[k] = s[k]
         /\ \A k \in 1..Len(t) : (s \o t)[Len(s) + k] = t[k]
  OBVIOUS

(* Two strings of bytes that begin with pieces of the same length. *)
LEMMA TakenApart ==
  ASSUME NEW S, NEW a \in Seq(S), NEW b \in Seq(S), NEW s \in Seq(S), NEW t \in Seq(S)
  PROVE  Len(a) = Len(b) /\ a \o s = b \o t => a = b /\ s = t
<1> DEFINE u == a \o s
           v == b \o t
<1>1. /\ Len(u) = Len(a) + Len(s)
      /\ \A k \in 1..Len(a) : u[k] = a[k]
      /\ \A k \in 1..Len(s) : u[Len(a) + k] = s[k]
  BY Put
<1>2. /\ Len(v) = Len(b) + Len(t)
      /\ \A k \in 1..Len(b) : v[k] = b[k]
      /\ \A k \in 1..Len(t) : v[Len(b) + k] = t[k]
  BY Put
<1>3. Len(a) \in Nat /\ Len(s) \in Nat /\ Len(t) \in Nat
  OBVIOUS
<1> HIDE DEF u, v
<1>4. ASSUME Len(a) = Len(b), u = v PROVE a = b /\ s = t
  <2>1. Len(s) = Len(t)
    BY <1>1, <1>2, <1>3, <1>4
  <2>2. \A k \in 1..Len(a) : a[k] = b[k]
    BY <1>1, <1>2, <1>4
  <2>3. \A k \in 1..Len(s) : s[k] = t[k]
    BY <1>1, <1>2, <1>4, <2>1
  <2> QED
    BY <1>4, <2>1, <2>2, <2>3, Alike
<1> QED
  BY <1>4 DEF u, v

(* Concatenation and length, by what is known of them. *)
Cat(s, t) == s \o t
Size(s) == Len(s)

(* Bytes and bytes are bytes. *)
LEMMA CatTyped ==
  ASSUME NEW s \in Bytes, NEW t \in Bytes
  PROVE  Cat(s, t) \in Bytes
  BY DEF Bytes, Cat

(* Concatenation associates. *)
LEMMA CatTwice ==
  ASSUME NEW s \in Bytes, NEW t \in Bytes, NEW u \in Bytes
  PROVE  Cat(Cat(s, t), u) = Cat(s, Cat(t, u))
  BY PutTwice DEF Bytes, Cat

(* Two strings that are equal and begin with parts of one length have
   equal parts. *)
LEMMA CatApart ==
  ASSUME NEW a \in Bytes, NEW b \in Bytes, NEW s \in Bytes, NEW t \in Bytes
  PROVE  Size(a) = Size(b) /\ Cat(a, s) = Cat(b, t) => a = b /\ s = t
  BY TakenApart DEF Bytes, Cat, Size

(* What there is to put together. *)
LEMMA BytesHave ==
  /\ Seq(Alphabet) \subseteq Bytes /\ Randoms \subseteq Bytes /\ <<>> \in Bytes
  /\ \A n \in Nat : Byte(n) \in Bytes
  /\ \A t \in Words : Str(<<t>>) \in Bytes
  /\ \A x \in Structures : Encoded(x) \in Bytes
  /\ \A b \in Bytes : Len(b) \in Nat
<1>1. \A S, T : S \subseteq T => Seq(S) \subseteq Seq(T)
  OBVIOUS
<1>2. Alphabet \subseteq Pieces /\ [random: Nat] \subseteq Pieces
  BY DEF Pieces
<1>3. Seq(Alphabet) \subseteq Bytes /\ Randoms \subseteq Bytes
  BY <1>1, <1>2 DEF Randoms, Bytes
<1>4. ASSUME NEW n \in Nat PROVE Byte(n) \in Bytes
  <2>1. [byte |-> n] \in Pieces
    BY DEF Pieces
  <2> QED
    BY <2>1 DEF Byte, Bytes
<1>5. ASSUME NEW x \in Structures PROVE Encoded(x) \in Bytes
  <2>1. \A i \in 1..Width : [encoded |-> x, at |-> i] \in Pieces
    BY DEF Pieces
  <2>2. Encoded(x) \in [1..Width -> Pieces]
    BY <2>1 DEF Encoded
  <2>3. Width \in Nat
    BY WidthAssumption
  <2> QED
    BY <2>2, <2>3 DEF Bytes
<1>6. ASSUME NEW t \in Words PROVE Str(<<t>>) \in Bytes
  <2>1. Str(<<t>>) = <<[text |-> t]>>
    BY DEF Str
  <2>2. [text |-> t] \in Pieces
    BY DEF Pieces
  <2>3. <<[text |-> t]>> \in Seq(Pieces)
    BY <2>2
  <2> QED
    BY <2>1, <2>3 DEF Bytes
<1>7. <<>> \in Bytes /\ \A b \in Bytes : Len(b) \in Nat
  BY DEF Bytes
<1> QED
  BY <1>3, <1>4, <1>5, <1>6, <1>7

(* A byte is one piece and every structure as long as any other; both are what
   they hold. *)
LEMMA OnePiece ==
  /\ \A n, m : Size(Byte(n)) = 1 /\ (Byte(n) = Byte(m) => n = m)
  /\ \A x, y : Size(Encoded(x)) = Width /\ (Encoded(x) = Encoded(y) => x = y)
<1>1. ASSUME NEW n, NEW m, Byte(n) = Byte(m) PROVE n = m
  <2>1. Byte(n)[1].byte = n /\ Byte(m)[1].byte = m
    BY DEF Byte
  <2> QED
    BY <1>1, <2>1
<1>2. ASSUME NEW n, NEW m, Encoded(n) = Encoded(m) PROVE n = m
  <2>1. 1 \in 1..Width
    BY WidthAssumption
  <2>2. Encoded(n)[1].encoded = n /\ Encoded(m)[1].encoded = m
    BY <2>1 DEF Encoded
  <2> QED
    BY <1>2, <2>2
<1>3. \A n : Size(Byte(n)) = 1
  BY DEF Byte, Size
<1>4. ASSUME NEW n PROVE Size(Encoded(n)) = Width
  <2>1. Encoded(n) \in [1..Width -> {Encoded(n)[i] : i \in 1..Width}] /\ DOMAIN Encoded(n) = 1..Width
    BY DEF Encoded
  <2>2. Width \in Nat
    BY WidthAssumption
  <2> QED
    BY <2>1, <2>2 DEF Size
<1> QED
  BY <1>1, <1>2, <1>3, <1>4

(* Four pieces, of which the first two have lengths that the ones before fix. *)
LEMMA FourCats ==
  ASSUME NEW a \in Bytes, NEW b \in Bytes, NEW c \in Bytes, NEW d \in Bytes
  PROVE  /\ Cat(Cat(Cat(a, b), c), d) = Cat(a, Cat(b, Cat(c, d)))
         /\ Cat(c, d) \in Bytes /\ Cat(b, Cat(c, d)) \in Bytes
<1>1. Cat(a, b) \in Bytes /\ Cat(c, d) \in Bytes
  BY CatTyped
<1>2. Cat(b, Cat(c, d)) \in Bytes
  BY <1>1, CatTyped
<1>3. Cat(Cat(Cat(a, b), c), d) = Cat(Cat(a, b), Cat(c, d))
  BY <1>1, CatTwice
<1>4. Cat(Cat(a, b), Cat(c, d)) = Cat(a, Cat(b, Cat(c, d)))
  BY <1>1, CatTwice
<1> QED
  BY <1>1, <1>2, <1>3, <1>4

(* The v1 bytes, one part after the other. *)
LEMMA V1Cats ==
  ASSUME NEW c \in Bytes, NEW r \in Bytes, NEW b \in Bytes
  PROVE  /\ V1Input(c, r, b) = Cat(Byte(Len(c)), Cat(c, Cat(r, b)))
         /\ Byte(Len(c)) \in Bytes /\ Cat(r, b) \in Bytes /\ Cat(c, Cat(r, b)) \in Bytes
<1>1. V1Input(c, r, b) = Cat(Cat(Cat(Byte(Len(c)), c), r), b)
  BY Zenon DEF V1Input, Cat
<1>2. Byte(Len(c)) \in Bytes
  BY BytesHave
<1> DEFINE n == Byte(Len(c))
<1> HIDE DEF n
<1> QED
  BY <1>1, <1>2, FourCats DEF n

(* The v2 bytes, one part after the other. *)
LEMMA M2Cats ==
  ASSUME NEW s \in Structures, NEW c \in Bytes, NEW b \in Bytes
  PROVE  /\ M2(s, c, b) = Cat(Encoded(s), Cat(Byte(Len(c)), Cat(c, b)))
         /\ Encoded(s) \in Bytes /\ Byte(Len(c)) \in Bytes
         /\ Cat(c, b) \in Bytes /\ Cat(Byte(Len(c)), Cat(c, b)) \in Bytes
<1>1. M2(s, c, b) = Cat(Cat(Cat(Encoded(s), Byte(Len(c))), c), b)
  BY Zenon DEF M2, Cat
<1>2. Byte(Len(c)) \in Bytes /\ Encoded(s) \in Bytes
  BY BytesHave
<1> DEFINE n == Byte(Len(c))
           e == Encoded(s)
<1> HIDE DEF n, e
<1> QED
  BY <1>1, <1>2, FourCats DEF n, e

(* A sequence of length one has one element. *)
LEMMA FirstPiece ==
  ASSUME NEW S, NEW s \in Seq(S), Len(s) = 1
  PROVE  s[1] \in S
  OBVIOUS

(* Randomness is told from what does not begin with any. *)
LEMMA RandomnessShows ==
  ASSUME NEW r \in Randoms, NEW u \in Randoms, Len(r) = 1, Len(u) = 0,
         NEW b \in Bodies, NEW g \in Bodies, g[1] \notin [random: Nat]
  PROVE  Cat(r, b) # Cat(u, g)
<1>1. r \in Seq(Pieces) /\ u \in Seq(Pieces) /\ b \in Seq(Pieces) /\ g \in Seq(Pieces)
  <2>1. r \in Bytes /\ u \in Bytes
    BY BytesHave
  <2>2. b \in Bytes /\ g \in Bytes
    BY DEF Bodies
  <2> QED
    BY <2>1, <2>2, Zenon DEF Bytes
<1>2. r[1] \in [random: Nat]
  BY FirstPiece DEF Randoms
<1>3. (r \o b)[1] = r[1]
  BY <1>1, Put
<1>4. 1 \in 1..Len(g)
  BY <1>1 DEF Bodies
<1>5. (u \o g)[Len(u) + 1] = g[1]
  BY <1>1, <1>4, Put
<1>6. Len(u) + 1 = 1
  OBVIOUS
<1> QED
  BY <1>2, <1>3, <1>5, <1>6 DEF Cat

(* v1: the length in front ends the context; nothing but the mode of the
   signers ends the randomness. *)
LEMMA V1Framed ==
  ASSUME NEW c \in Bytes, NEW d \in Bytes, NEW r \in Randoms, NEW u \in Randoms,
         NEW b \in Bodies, NEW g \in Bodies, V1Input(c, r, b) = V1Input(d, u, g)
  PROVE  /\ c = d /\ Cat(r, b) = Cat(u, g)
         /\ Len(r) = Len(u) => r = u /\ b = g
<1>1. r \in Bytes /\ u \in Bytes /\ b \in Bytes /\ g \in Bytes
  BY BytesHave DEF Bodies
<1> DEFINE m == Byte(Len(c))
           n == Byte(Len(d))
<1>2. Size(m) = Size(n) /\ (m = n => Size(c) = Size(d))
  BY OnePiece DEF Size
<1>3. /\ V1Input(c, r, b) = Cat(m, Cat(c, Cat(r, b)))
      /\ m \in Bytes /\ Cat(r, b) \in Bytes /\ Cat(c, Cat(r, b)) \in Bytes
  BY <1>1, V1Cats
<1>4. /\ V1Input(d, u, g) = Cat(n, Cat(d, Cat(u, g)))
      /\ n \in Bytes /\ Cat(u, g) \in Bytes /\ Cat(d, Cat(u, g)) \in Bytes
  BY <1>1, V1Cats
<1> HIDE DEF m, n
<1>5. m = n /\ Cat(c, Cat(r, b)) = Cat(d, Cat(u, g))
  <2>1. Cat(m, Cat(c, Cat(r, b))) = Cat(n, Cat(d, Cat(u, g)))
    BY <1>3, <1>4, Zenon
  <2> QED
    BY <1>2, <1>3, <1>4, <2>1, CatApart
<1>6. c = d /\ Cat(r, b) = Cat(u, g)
  BY <1>1, <1>2, <1>3, <1>4, <1>5, CatApart
<1>7. ASSUME Len(r) = Len(u) PROVE r = u /\ b = g
  <2>1. Size(r) = Size(u)
    BY <1>7 DEF Size
  <2> QED
    BY <1>1, <1>6, <2>1, CatApart
<1> QED
  BY <1>6, <1>7

(* v2: the suite and the context are both marked off. *)
LEMMA M2Framed ==
  ASSUME NEW s \in Structures, NEW v \in Structures, NEW c \in Bytes, NEW d \in Bytes,
         NEW b \in Bytes, NEW g \in Bytes, M2(s, c, b) = M2(v, d, g)
  PROVE  s = v /\ c = d /\ b = g
<1>1. c \in Bytes /\ d \in Bytes
  OBVIOUS
<1> DEFINE m == Byte(Len(c))
           n == Byte(Len(d))
           k == Encoded(s)
           l == Encoded(v)
<1>2. /\ Size(m) = Size(n) /\ (m = n => Size(c) = Size(d))
      /\ Size(k) = Size(l) /\ (k = l => s = v)
  BY OnePiece DEF Size
<1>3. /\ M2(s, c, b) = Cat(k, Cat(m, Cat(c, b)))
      /\ k \in Bytes /\ m \in Bytes /\ Cat(c, b) \in Bytes /\ Cat(m, Cat(c, b)) \in Bytes
  BY <1>1, M2Cats
<1>4. /\ M2(v, d, g) = Cat(l, Cat(n, Cat(d, g)))
      /\ l \in Bytes /\ n \in Bytes /\ Cat(d, g) \in Bytes /\ Cat(n, Cat(d, g)) \in Bytes
  BY <1>1, M2Cats
<1> HIDE DEF k, l, m, n
<1>5. k = l /\ Cat(m, Cat(c, b)) = Cat(n, Cat(d, g))
  <2>1. Cat(k, Cat(m, Cat(c, b))) = Cat(l, Cat(n, Cat(d, g)))
    BY <1>3, <1>4, Zenon
  <2> QED
    BY <1>2, <1>3, <1>4, <2>1, CatApart
<1>6. m = n /\ Cat(c, b) = Cat(d, g)
  BY <1>2, <1>3, <1>4, <1>5, CatApart
<1>7. c = d /\ b = g
  BY <1>1, <1>2, <1>6, CatApart
<1> QED
  BY <1>2, <1>5, <1>7
------------------------------------------------------------------------------
(* The wrapped signature of body under context, by the secret and in the mode
   of e. *)
Own(e) == [suite |-> e.by.algorithm, hedged |-> e.hedged]
Wrapped(e, body, context, n) == Signed(Own(e), e.by, body, context, n)
JwtBody(suite, claims) == SigningInput(JwtHeader(suite), claims)

(* The six kinds of artefact, as their signers make them. *)
MessageSent(e) ==
  \E m \in Messages, c \in Contexts, n \in Nat :
    /\ BuildRefusal(Own(e)) = "built" /\ ~TooLong(c) /\ m # <<>>
    /\ e.what = [kind |-> "message", cbor |-> ToCbor(Wrapped(e, m, c, n))]
    /\ e.context = c

JwtSent(e) ==
  \E claims \in ClaimSets, n \in Nat :
    /\ BuildRefusal(Own(e)) = "built"
    /\ e.what = [kind |-> "jwt", alg |-> e.by.algorithm, claims |-> claims,
                 signature |-> Wrapped(e, JwtBody(e.by.algorithm, claims), JwtContext, n).signature]
    /\ e.context = JwtContext

CertificateSent(e) ==
  \E pair \in Pairs, n \in Nat :
    LET cert == Certificate("cn", pair) IN
    /\ BuildRefusal(Own(e)) = "built"
    /\ e.what = [kind |-> "cosig", cert |-> cert, algo |-> e.by.algorithm,
                 signature |-> Wrapped(e, CosigInput(cert), CosigContext, n).signature,
                 context |-> CosigContext, fp |-> Fingerprint(pair.public)]
    /\ e.context = CosigContext

RawSent(e) ==
  \E m \in Messages, c \in Contexts :
    /\ ~IsHybrid(e.by.algorithm) /\ ~TooLong(c)
    /\ e.what = [kind |-> "raw", message |-> m, signature |-> SignRaw(e.by, m, c)]
    /\ e.context = c

StandardSent(e) ==
  \E claims \in ClaimSets :
    /\ JoseAlg(e.by.algorithm)
    /\ e.what = [kind |-> "std", alg |-> e.by.algorithm, kid |-> "none", claims |-> claims,
                 signature |-> SignRaw(e.by, SigningInput(StandardHeader(e.by.algorithm, "none"), claims), <<>>)]

CoseSent(e) ==
  \E m \in Messages, a \in Contexts, detached \in BOOLEAN :
    /\ JoseAlg(e.by.algorithm)
    /\ e.what = Sign1(m, e.by, "none", a, detached)
    /\ e.payload = m /\ e.context = a

(* An artefact is one of the six, by a secret. *)
Genuine(e) ==
  /\ e.by \in Secrets /\ e.hedged \in BOOLEAN
  /\ \/ MessageSent(e) \/ JwtSent(e) \/ CertificateSent(e)
     \/ RawSent(e) \/ StandardSent(e) \/ CoseSent(e)

(* Everything sent is genuine, and by the ML-DSA half that is still held. *)
SentOk ==
  /\ IsFiniteSet(sent) /\ now \in Nat
  /\ \A e \in sent : Genuine(e) /\ e.by.algorithm.pqc = held.secret.algorithm.pqc

(* The inductive invariant of the traffic. *)
TrafficInv == KeysOk /\ SentOk

(* Sign.sign signs with a key of its algorithm a message that is not
   empty, under a context that fits. *)
LEMMA SignedWhen ==
  ASSUME NEW signer, NEW key, NEW message, NEW context
  PROVE  SignRefusal(signer, key, message, context) = "signed"
         <=> key.algorithm = signer.suite /\ ~TooLong(context) /\ message # <<>>
<1> DEFINE p == key.algorithm # signer.suite
           w == TooLong(context)
           r == message = <<>>
<1>1. p \in BOOLEAN /\ w \in BOOLEAN /\ r \in BOOLEAN
  BY DEF TooLong
<1>2. SignRefusal(signer, key, message, context)
      = FirstOf(<<<<p, "unsupported">>, <<w, "invalid">>, <<r, "invalid">>>>, "signed")
  BY DEF SignRefusal
<1> HIDE DEF p, w, r
<1>3. FirstOf(<<<<p, "unsupported">>, <<w, "invalid">>, <<r, "invalid">>>>, "signed") = "signed"
      <=> ~p /\ ~w /\ ~r /\ "signed" = "signed"
  BY <1>1, ThreeChecks
<1> QED
  BY <1>2, <1>3 DEF p, w, r

(* Sign.sign_raw refuses a key of another algorithm and a context that
   does not fit. *)
LEMMA RawSignedWhen ==
  ASSUME NEW signer, NEW key, NEW context
  PROVE  RawSignRefusal(signer, key, context) = "signed" <=> RawKeyFits(signer, key) /\ ~TooLong(context)
<1> DEFINE p == ~RawKeyFits(signer, key)
           w == TooLong(context)
<1>1. p \in BOOLEAN /\ w \in BOOLEAN
  BY DEF TooLong
<1>2. RawSignRefusal(signer, key, context)
      = FirstOf(<<<<p, "unsupported">>, <<w, "invalid">>>>, "signed")
  BY DEF RawSignRefusal
<1> HIDE DEF p, w
<1>3. FirstOf(<<<<p, "unsupported">>, <<w, "invalid">>>>, "signed") = "signed"
      <=> ~p /\ ~w /\ "signed" = "signed"
  BY <1>1, TwoChecks
<1> QED
  BY <1>2, <1>3 DEF p, w

(* Nothing has been sent. *)
LEMMA InitTraffic == TrafficInit => TrafficInv
  BY InitKeys, FS_EmptySet DEF TrafficInit, TrafficInv, SentOk

(* An artefact remembers who signed it and what the caller passed. *)
LEMMA MadeHas ==
  ASSUME NEW what, NEW hedged, NEW context
  PROVE  LET e == Made(what, hedged, context)
         IN  /\ e.what = what /\ e.by = held.secret /\ e.hedged = hedged /\ e.context = context
             /\ \A x : LET f == [e EXCEPT !.lifetime = x]
                       IN  f.what = what /\ f.by = held.secret /\ f.hedged = hedged /\ f.context = context
             /\ \A x : LET f == [e EXCEPT !.payload = x]
                       IN  /\ f.what = what /\ f.by = held.secret /\ f.hedged = hedged /\ f.context = context
                           /\ f.payload = x
  BY DEF Made

(* The claims of a token sent now are among those considered. *)
LEMMA ClaimsMade ==
  ASSUME TrafficInv, NEW c \in Callers, NEW x \in Lifetimes
  PROVE  FullClaims(c, "any", x, now) \in ClaimSets
  BY DEF TrafficInv, SentOk, ClaimSets

(* What is sent is one of the six, by the secret that is held. *)
LEMMA SendGenuine ==
  ASSUME TrafficInv, Send
  PROVE  \E e : sent' = sent \cup {e} /\ e.by = held.secret /\ Genuine(e)
<1>1. held.secret \in Secrets /\ held.public.algorithm = held.secret.algorithm /\ held \in Pairs
  BY DEF TrafficInv, KeysOk, Pairs
<1>2. Nonce \in Nat
  BY FS_CardinalityType DEF TrafficInv, SentOk, Nonce
<1>3. ASSUME NEW h \in Modes, NEW m \in Messages, NEW c \in Contexts, SendMessage(h, m, c)
      PROVE  \E e : sent' = sent \cup {e} /\ e.by = held.secret /\ Genuine(e)
  <2> DEFINE signer == [suite |-> held.secret.algorithm, hedged |-> h]
             what == [kind |-> "message", cbor |-> ToCbor(Signed(signer, held.secret, m, c, Nonce))]
             e == Made(what, h, c)
  <2>1. SignRefusal(signer, held.secret, m, c) = "signed" /\ sent' = sent \cup {e}
    BY <1>3 DEF SendMessage, Add
  <2>2. ~TooLong(c) /\ m # <<>>
    BY <2>1, SignedWhen
  <2>3. BuildRefusal(signer) = "built" /\ h \in BOOLEAN
    BY DEF Modes
  <2>4. e.what = what /\ e.by = held.secret /\ e.hedged = h /\ e.context = c
    BY MadeHas
  <2> HIDE DEF e
  <2>5. MessageSent(e)
    BY <1>2, <2>2, <2>3, <2>4 DEF MessageSent, Wrapped, Own
  <2> QED
    BY <1>1, <2>1, <2>3, <2>4, <2>5 DEF Genuine
<1>4. ASSUME NEW m \in Messages, NEW c \in Contexts, SendRaw(m, c)
      PROVE  \E e : sent' = sent \cup {e} /\ e.by = held.secret /\ Genuine(e)
  <2> DEFINE what == [kind |-> "raw", message |-> m, signature |-> SignRaw(held.secret, m, c)]
             e == Made(what, TRUE, c)
  <2>1. /\ RawSignRefusal([suite |-> held.secret.algorithm, hedged |-> TRUE], held.secret, c) = "signed"
        /\ sent' = sent \cup {e} /\ ~IsHybrid(held.secret.algorithm)
    BY <1>4 DEF SendRaw, Add, Pure
  <2>2. ~TooLong(c)
    BY <2>1, RawSignedWhen
  <2>3. e.what = what /\ e.by = held.secret /\ e.hedged = TRUE /\ e.context = c
    BY DEF Made
  <2> HIDE DEF e
  <2>4. RawSent(e)
    BY <2>1, <2>2, <2>3 DEF RawSent
  <2> QED
    BY <1>1, <2>1, <2>3, <2>4 DEF Genuine
<1>5. ASSUME NEW h \in Modes, NEW c \in Callers, NEW x \in Lifetimes, SendJwt(h, c, x)
      PROVE  \E e : sent' = sent \cup {e} /\ e.by = held.secret /\ Genuine(e)
  <2> DEFINE what == JwtSign(held, h, c, "any", x, JwtContext, now, Nonce)
             made == Made(what, h, JwtContext)
             e == [made EXCEPT !.lifetime = GivenLifetime(c, x > 0)]
             claims == FullClaims(c, "any", x, now)
  <2>1. sent' = sent \cup {e}
    BY <1>5 DEF SendJwt, Add
  <2>2. e.what = what /\ e.by = held.secret /\ e.hedged = h /\ e.context = JwtContext
    BY MadeHas
  <2>3. BuildRefusal([suite |-> held.secret.algorithm, hedged |-> h]) = "built" /\ h \in BOOLEAN
    BY DEF Modes
  <2>4. claims \in ClaimSets
    BY ClaimsMade
  <2> HIDE DEF e
  <2>5. e.what = [kind |-> "jwt", alg |-> e.by.algorithm, claims |-> claims,
                  signature |-> Wrapped(e, JwtBody(e.by.algorithm, claims), JwtContext, Nonce).signature]
    BY <1>1, <2>2 DEF JwtSign, Wrapped, Own, JwtBody
  <2> HIDE DEF claims
  <2>6. JwtSent(e)
    BY <1>2, <2>2, <2>3, <2>4, <2>5 DEF JwtSent, Own
  <2> QED
    BY <1>1, <2>1, <2>2, <2>3, <2>6 DEF Genuine
<1>6. ASSUME NEW c \in Callers, NEW x \in Lifetimes, SendStandard(c, x)
      PROVE  \E e : sent' = sent \cup {e} /\ e.by = held.secret /\ Genuine(e)
  <2> DEFINE what == StandardSign(held.secret, c, "any", x, "none", now)
             made == Made(what, TRUE, <<>>)
             e == [made EXCEPT !.lifetime = GivenLifetime(c, x # 0)]
             claims == FullClaims(c, "any", x, now)
  <2>1. sent' = sent \cup {e} /\ JoseAlg(held.secret.algorithm)
    BY <1>6 DEF SendStandard, Add, StandardSignRefusal
  <2>2. e.what = what /\ e.by = held.secret /\ e.hedged = TRUE
    BY DEF Made
  <2>3. claims \in ClaimSets
    BY ClaimsMade
  <2> HIDE DEF e
  <2>4. StandardSent(e)
    BY <2>1, <2>2, <2>3 DEF StandardSent, StandardSign
  <2> QED
    BY <1>1, <2>1, <2>2, <2>4 DEF Genuine
<1>7. ASSUME NEW m \in Messages, NEW a \in Contexts, NEW d \in BOOLEAN, SendCose(m, a, d)
      PROVE  \E e : sent' = sent \cup {e} /\ e.by = held.secret /\ Genuine(e)
  <2> DEFINE what == Sign1(m, held.secret, "none", a, d)
             made == Made(what, TRUE, a)
             e == [made EXCEPT !.payload = m]
  <2>1. sent' = sent \cup {e} /\ JoseAlg(held.secret.algorithm)
    BY <1>7 DEF SendCose, Add
  <2>2. e.what = what /\ e.by = held.secret /\ e.hedged = TRUE /\ e.payload = m /\ e.context = a
    BY DEF Made
  <2> HIDE DEF e
  <2>3. CoseSent(e)
    BY <2>1, <2>2 DEF CoseSent
  <2> QED
    BY <1>1, <2>1, <2>2, <2>3 DEF Genuine
<1>8. ASSUME NEW h \in Modes, SendCertificate(h)
      PROVE  \E e : sent' = sent \cup {e} /\ e.by = held.secret /\ Genuine(e)
  <2> DEFINE what == Cosign("cn", held, h, Nonce)
             cert == Certificate("cn", held)
             e == Made(what, h, CosigContext)
  <2>1. sent' = sent \cup {e}
    BY <1>8 DEF SendCertificate, Add
  <2>2. e.what = what /\ e.by = held.secret /\ e.hedged = h /\ e.context = CosigContext
    BY MadeHas
  <2>3. BuildRefusal([suite |-> held.secret.algorithm, hedged |-> h]) = "built" /\ h \in BOOLEAN
    BY DEF Modes
  <2> HIDE DEF e
  <2>4. e.what = [kind |-> "cosig", cert |-> cert, algo |-> e.by.algorithm,
                  signature |-> Wrapped(e, CosigInput(cert), CosigContext, Nonce).signature,
                  context |-> CosigContext, fp |-> Fingerprint(held.public)]
    BY <1>1, <2>2 DEF Cosign, Wrapped, Own
  <2>5. BuildRefusal(Own(e)) = "built"
    BY <2>2, <2>3 DEF Own
  <2>6. CertificateSent(e)
    BY <1>1, <1>2, <2>2, <2>4, <2>5, Zenon DEF CertificateSent
  <2> QED
    BY <1>1, <2>1, <2>2, <2>3, <2>6 DEF Genuine
<1> QED
  BY <1>3, <1>4, <1>5, <1>6, <1>7, <1>8 DEF Send

(* The ML-DSA half stays while anything is sent. *)
LEMMA NextTraffic == TrafficInv /\ [TrafficNext]_traffic => TrafficInv'
<1> SUFFICES ASSUME TrafficInv, [TrafficNext]_traffic PROVE SentOk'
  BY NextKeys DEF TrafficInv
<1>1. KeysOk /\ IsFiniteSet(sent) /\ now \in Nat
  BY DEF TrafficInv, SentOk
<1>2. ASSUME sent' = sent, now' \in Nat, held'.secret.algorithm.pqc = held.secret.algorithm.pqc
      PROVE  SentOk'
  BY <1>2 DEF TrafficInv, SentOk
<1>3. held.secret \in Secrets
  BY <1>1 DEF KeysOk, Pairs
<1>4. CASE Refile
  <2>1. held'.secret.algorithm.pqc = held.secret.algorithm.pqc
    BY <1>1, <1>3, <1>4, Refiled DEF Secrets, Suite
  <2> QED
    BY <1>1, <1>2, <1>4, <2>1 DEF Refile
<1>5. CASE Strip
  <2>1. held'.secret.algorithm.pqc = held.secret.algorithm.pqc
    <3> DEFINE k == held.secret
               suite == [k.algorithm EXCEPT !.classical = "none"]
    <3>1. held'.secret = [k EXCEPT !.algorithm = suite, !.state = "pqc_only"]
      BY <1>1, <1>5, Stripped
    <3>2. suite.pqc = k.algorithm.pqc
      BY <1>3 DEF Secrets, Suite
    <3> HIDE DEF suite
    <3>3. [k EXCEPT !.algorithm = suite, !.state = "pqc_only"].algorithm = suite
      BY <1>3 DEF Secrets
    <3> QED
      BY <3>1, <3>2, <3>3
  <2> QED
    BY <1>1, <1>2, <1>5, <2>1 DEF Strip
<1>6. CASE Restore
  <2>1. sent = {} /\ sent' = {} /\ now' = now
    BY <1>1, <1>6 DEF Restore, KeysOk, MailOk
  <2> QED
    BY <1>1, <2>1 DEF SentOk
<1>7. CASE Send
  <2>1. PICK e : sent' = sent \cup {e} /\ e.by = held.secret /\ Genuine(e)
    BY <1>7, SendGenuine
  <2>2. IsFiniteSet(sent')
    BY <1>1, <2>1, FS_AddElement
  <2>3. held' = held /\ now' = now
    BY <1>7, SendAdds
  <2>4. \A d \in sent' : Genuine(d) /\ d.by.algorithm.pqc = held.secret.algorithm.pqc
    BY <2>1 DEF TrafficInv, SentOk
  <2> QED
    BY <1>1, <2>2, <2>3, <2>4 DEF SentOk
<1>8. CASE Write \/ Learn
  BY <1>1, <1>2, <1>8 DEF Write, Learn
<1>9. CASE Tick
  BY <1>1, <1>2, <1>9 DEF Tick
<1>10. CASE UNCHANGED traffic
  BY <1>1, <1>2, <1>10 DEF traffic
<1> QED
  BY <1>4, <1>5, <1>6, <1>7, <1>8, <1>9, <1>10 DEF TrafficNext

(* The invariant holds of every number of artefacts. *)
LEMMA TrafficHolds == TrafficSpec => []TrafficInv
  BY InitTraffic, NextTraffic, PTL DEF TrafficSpec
------------------------------------------------------------------------------
(* A signer or verifier is built for an approved suite, in hedged mode if
   that is v2. *)
LEMMA BuiltWhen ==
  ASSUME NEW signer, signer.suite.v2 \in BOOLEAN, signer.hedged \in BOOLEAN
  PROVE  BuildRefusal(signer) = "built"
         <=> Approved(signer.suite) /\ (signer.suite.v2 => signer.hedged)
<1> DEFINE p == signer.suite.v2 /\ ~Approved(signer.suite)
           w == signer.suite.v2 /\ ~signer.hedged
           r == ~Approved(signer.suite)
<1>1. p \in BOOLEAN /\ w \in BOOLEAN /\ r \in BOOLEAN
  OBVIOUS
<1>2. BuildRefusal(signer)
      = FirstOf(<<<<p, "unsupported">>, <<w, "invalid">>, <<r, "invalid">>>>, "built")
  BY DEF BuildRefusal
<1> HIDE DEF p, w, r
<1>3. FirstOf(<<<<p, "unsupported">>, <<w, "invalid">>, <<r, "invalid">>>>, "built") = "built"
      <=> ~p /\ ~w /\ ~r /\ "built" = "built"
  BY <1>1, ThreeChecks, SMTT(30)
<1> QED
  BY <1>2, <1>3 DEF p, w, r

(* Sign.verify accepts when context and both names agree and the bytes
   verify. *)
LEMMA VerifiesWhen ==
  ASSUME NEW signer, NEW key, NEW received, NEW context
  PROVE  Verify(signer, key, received, context) = "accepted"
         <=> /\ ContextExpected(received, context)
             /\ received.algorithm = signer.suite /\ key.algorithm = signer.suite
             /\ VerifyBytes(signer, key, received.message, received.signature, received.context) = "accepted"
<1> DEFINE p == ~ContextExpected(received, context)
           w == received.algorithm # signer.suite
           r == key.algorithm # signer.suite
           d == VerifyBytes(signer, key, received.message, received.signature, received.context)
<1>1. p \in BOOLEAN /\ w \in BOOLEAN /\ r \in BOOLEAN
  OBVIOUS
<1>2. Verify(signer, key, received, context)
      = FirstOf(<<<<p, "refused">>, <<w, "unsupported">>, <<r, "unsupported">>>>, d)
  BY DEF Verify
<1> HIDE DEF p, w, r, d
<1>3. FirstOf(<<<<p, "refused">>, <<w, "unsupported">>, <<r, "unsupported">>>>, d) = "accepted"
      <=> ~p /\ ~w /\ ~r /\ d = "accepted"
  BY <1>1, ThreeChecks, SMTT(30)
<1> QED
  BY <1>2, <1>3 DEF p, w, r, d

(* Sign.verify_raw accepts when the key fits, the context fits and the
   bytes verify. *)
LEMMA RawVerifiesWhen ==
  ASSUME NEW signer, NEW key, NEW message, NEW sig, NEW context
  PROVE  VerifyRaw(signer, key, message, sig, context) = "accepted"
         <=> /\ RawKeyFits(signer, key) /\ ~TooLong(context)
             /\ RawVerify(Half(key, "pqc"), context, message, sig)
<1> DEFINE p == ~RawKeyFits(signer, key)
           w == TooLong(context)
           d == IF RawVerify(Half(key, "pqc"), context, message, sig) THEN "accepted" ELSE "refused"
<1>1. p \in BOOLEAN /\ w \in BOOLEAN
  BY DEF TooLong
<1>2. VerifyRaw(signer, key, message, sig, context)
      = FirstOf(<<<<p, "unsupported">>, <<w, "refused">>>>, d)
  BY DEF VerifyRaw
<1> HIDE DEF p, w, d
<1>3. FirstOf(<<<<p, "unsupported">>, <<w, "refused">>>>, d) = "accepted"
      <=> ~p /\ ~w /\ d = "accepted"
  BY <1>1, TwoChecks, SMTT(30)
<1> QED
  BY <1>2, <1>3 DEF p, w, d

(* The verifier of a JWT, and what it takes the token for. *)
Reader(suite, hedged) == [suite |-> suite, hedged |-> hedged]
JwtReceived(token, key, context) ==
  [message |-> JwtBody(token.alg, token.claims), context |-> context, algorithm |-> key.algorithm,
   signature |-> token.signature]

(* JWTVerifier.verify accepts when all four of its checks pass. *)
LEMMA JwtVerifiesWhen ==
  ASSUME NEW token, NEW key, NEW hedged, NEW context, NEW expect, NEW t
  PROVE  JwtVerify(token, key, hedged, context, expect, t) = "accepted"
         <=> /\ BuildRefusal(Reader(key.algorithm, hedged)) = "built" /\ token.alg = key.algorithm
             /\ Verify(Reader(key.algorithm, hedged), key, JwtReceived(token, key, context), context)
                = "accepted"
             /\ ClaimsHold(token.claims, expect, t, FALSE)
<1> DEFINE signer == Reader(key.algorithm, hedged)
           received == JwtReceived(token, key, context)
           p == BuildRefusal(signer) # "built"
           w == token.alg # key.algorithm
           r == Verify(signer, key, received, context) # "accepted"
           s == ~ClaimsHold(token.claims, expect, t, FALSE)
<1>1. p \in BOOLEAN /\ w \in BOOLEAN /\ r \in BOOLEAN /\ s \in BOOLEAN
  OBVIOUS
<1>2. JwtVerify(token, key, hedged, context, expect, t)
      = FirstOf(<<<<p, "invalid">>, <<w, "unsupported">>, <<r, "refused">>, <<s, "refused">>>>, "accepted")
  BY DEF JwtVerify, Reader, JwtReceived, JwtBody
<1>3. ASSUME NEW a \in BOOLEAN, NEW b \in BOOLEAN, NEW c \in BOOLEAN, NEW d \in BOOLEAN
      PROVE  FirstOf(<<<<a, "invalid">>, <<b, "unsupported">>, <<c, "refused">>, <<d, "refused">>>>,
                     "accepted") = "accepted" <=> ~a /\ ~b /\ ~c /\ ~d
  BY FourChecks, SMTT(30)
<1> HIDE DEF p, w, r, s
<1>4. FirstOf(<<<<p, "invalid">>, <<w, "unsupported">>, <<r, "refused">>, <<s, "refused">>>>,
                     "accepted") = "accepted" <=> ~p /\ ~w /\ ~r /\ ~s
  BY <1>1, <1>3
<1> QED
  BY <1>2, <1>4, Zenon DEF p, w, r, s

(* StandardJwt.verify accepts when all four of its checks pass. *)
LEMMA StandardVerifiesWhen ==
  ASSUME NEW token, NEW key, NEW expect, NEW t, NEW strict
  PROVE  StandardVerify(token, key, expect, t, strict) = "accepted"
         <=> /\ JoseAlg(key.algorithm) /\ token.alg = key.algorithm
             /\ RawVerify(Half(key, "pqc"), <<>>,
                          SigningInput(StandardHeader(token.alg, token.kid), token.claims), token.signature)
             /\ ClaimsHold(token.claims, expect, t, strict)
<1> DEFINE p == ~JoseAlg(key.algorithm)
           w == token.alg # key.algorithm
           r == ~RawVerify(Half(key, "pqc"), <<>>,
                          SigningInput(StandardHeader(token.alg, token.kid), token.claims), token.signature)
           s == ~ClaimsHold(token.claims, expect, t, strict)
<1>1. p \in BOOLEAN /\ w \in BOOLEAN /\ r \in BOOLEAN /\ s \in BOOLEAN
  OBVIOUS
<1>2. StandardVerify(token, key, expect, t, strict)
      = FirstOf(<<<<p, "unsupported">>, <<w, "unsupported">>, <<r, "refused">>, <<s, "refused">>>>, "accepted")
  BY DEF StandardVerify
<1>3. ASSUME NEW a \in BOOLEAN, NEW b \in BOOLEAN, NEW c \in BOOLEAN, NEW d \in BOOLEAN
      PROVE  FirstOf(<<<<a, "unsupported">>, <<b, "unsupported">>, <<c, "refused">>, <<d, "refused">>>>,
                     "accepted") = "accepted" <=> ~a /\ ~b /\ ~c /\ ~d
  <2> DEFINE checks == <<<<a, "unsupported">>, <<b, "unsupported">>, <<c, "refused">>, <<d, "refused">>>>
  <2>1. DOMAIN checks = {1, 2, 3, 4}
    OBVIOUS
  <2>2. checks[1][1] = a /\ checks[2][1] = b /\ checks[3][1] = c /\ checks[4][1] = d
    OBVIOUS
  <2>3. /\ checks[1][2] # "accepted" /\ checks[2][2] # "accepted"
        /\ checks[3][2] # "accepted" /\ checks[4][2] # "accepted"
    OBVIOUS
  <2> HIDE DEF checks
  <2>4. FirstOf(checks, "accepted") = "accepted"
        <=> ~checks[1][1] /\ ~checks[2][1] /\ ~checks[3][1] /\ ~checks[4][1] /\ "accepted" = "accepted"
    BY <2>1, <2>3, NoneOfFour
  <2> QED
    BY <2>2, <2>4 DEF checks
<1> HIDE DEF p, w, r, s
<1>4. FirstOf(<<<<p, "unsupported">>, <<w, "unsupported">>, <<r, "refused">>, <<s, "refused">>>>,
                     "accepted") = "accepted" <=> ~p /\ ~w /\ ~r /\ ~s
  BY <1>1, <1>3
<1> QED
  BY <1>2, <1>4, Zenon DEF p, w, r, s

(* verify1 accepts when there is one payload, the algorithm is JOSE's and
   the bytes verify. *)
LEMMA CoseVerifiesWhen ==
  ASSUME NEW sign1, NEW key, NEW aad, NEW given
  PROVE  LET payload == IF sign1.payload = Nil THEN given ELSE sign1.payload
             opened == VerifyRaw([suite |-> key.algorithm, hedged |-> TRUE], key,
                                 SigStructure(sign1.protected, payload, aad), sign1.signature, <<>>)
         IN  VerifySign1(sign1, key, aad, given) = "accepted"
             <=> /\ JoseAlg(sign1.protected.alg) /\ key.algorithm = sign1.protected.alg
                 /\ payload # Nil /\ given \in {Nil, payload} /\ opened = "accepted"
<1> DEFINE payload == IF sign1.payload = Nil THEN given ELSE sign1.payload
           opened == VerifyRaw([suite |-> key.algorithm, hedged |-> TRUE], key,
                               SigStructure(sign1.protected, payload, aad), sign1.signature, <<>>)
           p == ~JoseAlg(sign1.protected.alg)
           w == key.algorithm # sign1.protected.alg
           r == payload = Nil
           s == given \notin {Nil, payload}
<1>1. p \in BOOLEAN /\ w \in BOOLEAN /\ r \in BOOLEAN /\ s \in BOOLEAN
  OBVIOUS
<1>2. VerifySign1(sign1, key, aad, given)
      = FirstOf(<<<<p, "invalid">>, <<w, "invalid">>, <<r, "invalid">>, <<s, "refused">>>>, opened)
  BY DEF VerifySign1
<1>3. ASSUME NEW a \in BOOLEAN, NEW b \in BOOLEAN, NEW c \in BOOLEAN, NEW d \in BOOLEAN, NEW o
      PROVE  FirstOf(<<<<a, "invalid">>, <<b, "invalid">>, <<c, "invalid">>, <<d, "refused">>>>, o)
             = "accepted" <=> ~a /\ ~b /\ ~c /\ ~d /\ o = "accepted"
  BY FourChecks, SMTT(30)
<1> HIDE DEF p, w, r, s, opened
<1>4. FirstOf(<<<<p, "invalid">>, <<w, "invalid">>, <<r, "invalid">>, <<s, "refused">>>>, opened)
      = "accepted" <=> ~p /\ ~w /\ ~r /\ ~s /\ opened = "accepted"
  BY <1>1, <1>3
<1> QED
  BY <1>2, <1>4, Zenon DEF p, w, r, s, opened

(* A primitive signature verifies with the half, the context and the
   bytes it was made with. *)
LEMMA SameSignature ==
  \A a, b, n, m, x, y : RawVerify(a, n, x, RawSignature(b, m, y)) <=> a = b /\ n = m /\ x = y
<1> TAKE a, b, n, m, x, y
<1>1. /\ RawSignature(a, n, x).by = a /\ RawSignature(b, m, y).by = b
      /\ RawSignature(a, n, x).native = n /\ RawSignature(b, m, y).native = m
      /\ RawSignature(a, n, x).data = x /\ RawSignature(b, m, y).data = y
  BY DEF RawSignature
<1> QED
  BY <1>1, Zenon DEF RawVerify

(* A half is its key's material under that half of the name. *)
LEMMA SameHalf ==
  ASSUME NEW a, NEW b
  PROVE  /\ Half(a, "pqc") = Half(b, "pqc") <=> a.material = b.material /\ a.algorithm.pqc = b.algorithm.pqc
         /\ Half(a, "classical") = Half(b, "classical")
            <=> a.material = b.material /\ a.algorithm.classical = b.algorithm.classical
         /\ Half(a, "pqc")[2] = a.algorithm.pqc /\ Half(a, "classical")[2] = a.algorithm.classical
  BY DEF Half

(* The library's own texts are one piece each. *)
LEMMA OneText ==
  \A t \in Words : /\ Str(<<t>>) \in Bytes /\ Len(Str(<<t>>)) = 1 /\ Str(<<t>>) # <<>>
                   /\ Str(<<t>>)[1] = [text |-> t]
<1> TAKE t \in Words
<1>1. Str(<<t>>) = <<[text |-> t]>>
  BY DEF Str
<1>2. Len(<<[text |-> t]>>) = 1 /\ <<[text |-> t]>> # <<>> /\ <<[text |-> t]>>[1] = [text |-> t]
  OBVIOUS
<1> QED
  BY <1>1, <1>2, BytesHave

(* Such a label, by name. *)
LEMMA TextHas ==
  ASSUME NEW t \in Words, NEW s, s = Str(<<t>>)
  PROVE  s \in Bytes /\ Len(s) = 1 /\ s # <<>> /\ s[1].text = t
<1>1. s \in Bytes /\ Len(s) = 1 /\ s # <<>> /\ s[1] = [text |-> t]
  BY OneText
<1> QED
  BY <1>1

(* The first pieces of a concatenation. *)
LEMMA FirstOfSeq ==
  ASSUME NEW S, NEW s \in Seq(S), NEW t \in Seq(S), s # <<>>
  PROVE  s \o t # <<>> /\ (s \o t)[1] = s[1]
  OBVIOUS

(* Bytes begin as their first part does. *)
LEMMA FirstStays ==
  ASSUME NEW s \in Bytes, NEW t \in Bytes, s # <<>>
  PROVE  Cat(s, t) # <<>> /\ Cat(s, t)[1] = s[1]
  BY FirstOfSeq DEF Bytes, Cat

(* The first piece of a byte. *)
LEMMA Ones == \A n : Byte(n) # <<>> /\ Byte(n)[1] = [byte |-> n]
  BY DEF Byte

(* A label with a letter in front begins with that letter. *)
LEMMA LabelBegins == Label \in Bytes /\ Label # <<>> /\ Label[1] = [byte |-> 113]
<1> DEFINE first == Byte(113)
           rest == Str(<<"uantum-safe-sig-v2">>)
<1>1. first \in Bytes /\ first # <<>> /\ first[1] = [byte |-> 113]
  BY BytesHave, Ones
<1>2. rest \in Bytes
  <2>1. "uantum-safe-sig-v2" \in Words
    BY DEF Words
  <2> QED
    BY <2>1, BytesHave
<1>3. Label = Cat(first, rest)
  BY DEF Label, Cat
<1> HIDE DEF first, rest
<1> QED
  BY <1>1, <1>2, <1>3, CatTyped, FirstStays

(* The contexts of the library are neither empty nor too long, and differ. *)
LEMMA ContextsDiffer ==
  /\ \A c \in Aads : c \in Bytes
  /\ JwtContext # CosigContext /\ CosigContext # Omitted /\ JwtContext # Omitted
  /\ JwtContext # <<>> /\ CosigContext # <<>> /\ Omitted # <<>> /\ Label # <<>>
  /\ Label \in Bytes /\ <<>> \in Bytes
  /\ Len(JwtContext) = 1 /\ Len(CosigContext) = 1
  /\ ~TooLong(JwtContext) /\ ~TooLong(CosigContext) /\ ~TooLong(<<>>)
<1>1. /\ JwtContext \in Bytes /\ Len(JwtContext) = 1 /\ JwtContext # <<>>
      /\ JwtContext[1].text = "jwt"
  BY TextHas DEF JwtContext, Words
<1>2. /\ CosigContext \in Bytes /\ Len(CosigContext) = 1 /\ CosigContext # <<>>
      /\ CosigContext[1].text = "qs-x509-cosig"
  BY TextHas DEF CosigContext, Words
<1>3. Omitted \in Bytes /\ Omitted # <<>> /\ Omitted[1].text = "no argument"
  BY TextHas DEF Omitted, Words
<1>4. Label \in Bytes /\ Label # <<>>
  BY LabelBegins
<1>5. Len(<<>>) = 0 /\ <<>> \in Bytes
  BY BytesHave
<1>6. JwtContext # CosigContext /\ CosigContext # Omitted /\ JwtContext # Omitted
  <2>1. "jwt" # "qs-x509-cosig" /\ "qs-x509-cosig" # "no argument" /\ "jwt" # "no argument"
    OBVIOUS
  <2> QED
    BY <1>1, <1>2, <1>3, <2>1, Zenon
<1>7. \A c \in Aads : c \in Bytes
  <2>1. Contexts \subseteq Bytes
    BY TrafficAssumption, BytesHave
  <2> QED
    BY <1>1, <1>2, <1>3, <2>1 DEF Aads
<1>8. ~TooLong(JwtContext) /\ ~TooLong(CosigContext) /\ ~TooLong(<<>>)
  BY <1>1, <1>2, <1>5 DEF TooLong
<1> QED
  BY <1>1, <1>2, <1>3, <1>4, <1>5, <1>6, <1>7, <1>8, Zenon

(* What applications pass is among the bytes. *)
LEMMA Passed == Contexts \subseteq Bytes /\ Messages \subseteq Bytes
  BY TrafficAssumption, BytesHave

(* Randomness is one piece in hedged mode and none otherwise. *)
LEMMA Random ==
  ASSUME NEW signer, NEW n \in Nat, signer.hedged \in BOOLEAN
  PROVE  /\ Hedge(signer, n) \in Randoms
         /\ Len(Hedge(signer, n)) = IF signer.hedged THEN 1 ELSE 0
<1>1. <<[random |-> n]>> \in Randoms /\ Len(<<[random |-> n]>>) = 1
  BY DEF Randoms
<1>2. <<>> \in Randoms /\ Len(<<>>) = 0
  BY DEF Randoms
<1>3. CASE signer.hedged
  <2>1. Hedge(signer, n) = <<[random |-> n]>>
    BY <1>3 DEF Hedge
  <2> QED
    BY <1>1, <1>3, <2>1
<1>4. CASE ~signer.hedged
  <2>1. Hedge(signer, n) = <<>>
    BY <1>4 DEF Hedge
  <2> QED
    BY <1>2, <1>4, <2>1
<1> QED
  BY <1>3, <1>4

(* A byte and two structures: what both kinds of token sign. *)
LEMMA TokenInput ==
  ASSUME NEW h \in Structures, NEW c \in Structures
  PROVE  /\ SigningInput(h, c) \in Bodies /\ SigningInput(h, c)[1] = [byte |-> 101]
         /\ \A k, d \in Structures : SigningInput(h, c) = SigningInput(k, d) => h = k /\ c = d
<1> DEFINE start == Byte(101)
<1>1. /\ start \in Bytes /\ start # <<>> /\ start[1] = [byte |-> 101]
      /\ \A x \in Structures : Encoded(x) \in Bytes
  BY BytesHave, Ones
<1>2. ASSUME NEW k \in Structures, NEW d \in Structures
      PROVE  /\ SigningInput(k, d) = Cat(start, Cat(Encoded(k), Encoded(d)))
             /\ Cat(Encoded(k), Encoded(d)) \in Bytes
  <2> DEFINE x == Encoded(k)
             y == Encoded(d)
  <2>1. x \in Bytes /\ y \in Bytes
    BY <1>1
  <2>2. SigningInput(k, d) = Cat(Cat(start, x), y)
    BY Zenon DEF SigningInput, Cat
  <2> HIDE DEF start, x, y
  <2>3. SigningInput(k, d) = Cat(start, Cat(x, y)) /\ Cat(x, y) \in Bytes
    BY <1>1, <2>1, <2>2, CatTwice, CatTyped
  <2> QED
    BY <2>3 DEF x, y
<1> HIDE DEF start
<1>3. SigningInput(h, c) \in Bodies /\ SigningInput(h, c)[1] = [byte |-> 101]
  <2> DEFINE rest == Cat(Encoded(h), Encoded(c))
  <2>1. SigningInput(h, c) = Cat(start, rest) /\ rest \in Bytes
    BY <1>2
  <2> HIDE DEF rest
  <2> QED
    BY <1>1, <2>1, CatTyped, FirstStays DEF Bodies
<1>4. ASSUME NEW k \in Structures, NEW d \in Structures, SigningInput(h, c) = SigningInput(k, d)
      PROVE  h = k /\ c = d
  <2> DEFINE a == Encoded(h)
             b == Encoded(k)
             e == Encoded(c)
             f == Encoded(d)
  <2>1. Size(a) = Size(b) /\ (a = b => h = k) /\ (e = f => c = d)
    BY OnePiece
  <2>2. a \in Bytes /\ b \in Bytes /\ e \in Bytes /\ f \in Bytes
    BY <1>1
  <2>3. /\ Cat(start, Cat(a, e)) = Cat(start, Cat(b, f))
        /\ Cat(a, e) \in Bytes /\ Cat(b, f) \in Bytes
    BY <1>2, <1>4
  <2> HIDE DEF a, b, e, f
  <2>4. Cat(a, e) = Cat(b, f)
    BY <1>1, <2>3, CatApart
  <2> QED
    BY <2>1, <2>2, <2>4, CatApart
<1> QED
  BY <1>3, <1>4

(* The body of a JWT fixes its algorithm and claims. *)
LEMMA JwtBodies ==
  ASSUME NEW s \in Suite, NEW claims \in ClaimSets
  PROVE  /\ JwtBody(s, claims) \in Bodies /\ JwtBody(s, claims)[1] \notin [random: Nat]
         /\ \A v \in Suite, g \in ClaimSets : JwtBody(s, claims) = JwtBody(v, g) => s = v /\ claims = g
<1>1. claims \in Structures /\ \A v \in Suite : JwtHeader(v) \in Structures
  BY DEF Structures
<1>2. \A v : JwtHeader(v).alg = v
  BY DEF JwtHeader
<1> DEFINE h == JwtHeader(s)
<1>3. JwtBody(s, claims) = SigningInput(h, claims) /\ h \in Structures
  BY <1>1 DEF JwtBody
<1> HIDE DEF h
<1>4. /\ SigningInput(h, claims) \in Bodies /\ SigningInput(h, claims)[1] = [byte |-> 101]
      /\ \A x, y \in Structures : SigningInput(h, claims) = SigningInput(x, y) => h = x /\ claims = y
  BY <1>1, <1>3, TokenInput
<1>5. JwtBody(s, claims) \in Bodies /\ JwtBody(s, claims)[1] \notin [random: Nat]
  <2>1. [byte |-> 101] \notin [random: Nat]
    OBVIOUS
  <2> QED
    BY <1>3, <1>4, <2>1
<1>6. ASSUME NEW v \in Suite, NEW g \in ClaimSets, JwtBody(s, claims) = JwtBody(v, g)
      PROVE  s = v /\ claims = g
  <2> DEFINE k == JwtHeader(v)
  <2>1. SigningInput(h, claims) = SigningInput(k, g) /\ k \in Structures /\ g \in Structures
    BY <1>1, <1>3, <1>6 DEF JwtBody, Structures
  <2> HIDE DEF k
  <2>2. h = k /\ claims = g
    BY <1>4, <2>1
  <2> QED
    BY <1>2, <2>2 DEF h, k
<1> QED
  BY <1>5, <1>6

(* The body of a co-signature fixes its certificate. *)
LEMMA CosigBodies ==
  ASSUME NEW cert \in Certificates
  PROVE  /\ CosigInput(cert) \in Bodies /\ CosigInput(cert)[1] \notin [random: Nat]
         /\ \A g \in Certificates : CosigInput(cert) = CosigInput(g) => cert = g
<1> DEFINE t == Str(<<"qs-x509-cosig-v1">>)
<1>1. t \in Bytes /\ t # <<>> /\ t[1] = [text |-> "qs-x509-cosig-v1"]
  <2>1. "qs-x509-cosig-v1" \in Words
    BY DEF Words
  <2> QED
    BY <2>1, OneText
<1>2. \A c : CosigInput(c) = Cat(t, Encoded(c))
  BY DEF CosigInput, Cat
<1>3. \A c \in Certificates : Encoded(c) \in Bytes
  BY BytesHave DEF Structures
<1> HIDE DEF t
<1>4. CosigInput(cert) \in Bytes /\ CosigInput(cert) # <<>> /\ CosigInput(cert)[1] = t[1]
  BY <1>1, <1>2, <1>3, CatTyped, FirstStays
<1>5. CosigInput(cert)[1] \notin [random: Nat]
  BY <1>1, <1>4
<1>6. ASSUME NEW g \in Certificates, CosigInput(cert) = CosigInput(g) PROVE cert = g
  <2>1. Encoded(cert) = Encoded(g)
    BY <1>1, <1>2, <1>3, <1>6, CatApart
  <2> QED
    BY <2>1, OnePiece
<1> QED
  BY <1>4, <1>5, <1>6 DEF Bodies

(* What COSE signs: a byte, two structures and the payload. *)
LEMMA CoseInput ==
  ASSUME NEW p \in Structures, NEW a \in Aads, NEW m \in Bytes
  PROVE  /\ SigStructure(p, m, a)[1] = [byte |-> 132]
         /\ \A w \in Structures, b \in Aads, n \in Bytes :
              SigStructure(p, m, a) = SigStructure(w, n, b) => p = w /\ a = b /\ m = n
<1> DEFINE start == Byte(132)
<1>1. /\ start \in Bytes /\ start # <<>> /\ start[1] = [byte |-> 132]
      /\ \A x \in Structures : Encoded(x) \in Bytes
      /\ Aads \subseteq Structures
  BY BytesHave, Ones DEF Structures
<1>2. \A w, n, b : SigStructure(w, n, b) = Cat(Cat(Cat(start, Encoded(w)), Encoded(b)), n)
  BY Zenon DEF SigStructure, Cat
<1> HIDE DEF start
<1>3. ASSUME NEW w \in Structures, NEW n \in Bytes, NEW b \in Aads
      PROVE  /\ SigStructure(w, n, b) = Cat(start, Cat(Encoded(w), Cat(Encoded(b), n)))
             /\ Cat(Encoded(b), n) \in Bytes
             /\ Cat(Encoded(w), Cat(Encoded(b), n)) \in Bytes
  <2> DEFINE x == Encoded(w)
             y == Encoded(b)
  <2>1. x \in Bytes /\ y \in Bytes
    BY <1>1
  <2>2. SigStructure(w, n, b) = Cat(Cat(Cat(start, x), y), n)
    BY <1>2
  <2> HIDE DEF x, y
  <2>3. /\ SigStructure(w, n, b) = Cat(start, Cat(x, Cat(y, n)))
        /\ Cat(y, n) \in Bytes /\ Cat(x, Cat(y, n)) \in Bytes
    BY <1>1, <2>1, <2>2, FourCats
  <2> QED
    BY <2>3 DEF x, y
<1> DEFINE x == Encoded(p)
           y == Encoded(a)
<1>4. /\ SigStructure(p, m, a) = Cat(start, Cat(x, Cat(y, m)))
      /\ Cat(y, m) \in Bytes /\ Cat(x, Cat(y, m)) \in Bytes
  BY <1>3
<1>5. /\ x \in Bytes /\ y \in Bytes /\ Size(x) = Width /\ Size(y) = Width
      /\ \A w : x = Encoded(w) => p = w
      /\ \A w : y = Encoded(w) => a = w
  BY <1>1, OnePiece
<1> HIDE DEF x, y
<1>6. SigStructure(p, m, a)[1] = [byte |-> 132]
  <2> DEFINE rest == Cat(x, Cat(y, m))
  <2>1. SigStructure(p, m, a) = Cat(start, rest) /\ rest \in Bytes
    BY <1>4
  <2> HIDE DEF rest
  <2> QED
    BY <1>1, <2>1, FirstStays
<1>7. ASSUME NEW w \in Structures, NEW b \in Aads, NEW n \in Bytes,
             SigStructure(p, m, a) = SigStructure(w, n, b)
      PROVE  p = w /\ a = b /\ m = n
  <2> DEFINE u == Encoded(w)
             v == Encoded(b)
  <2>1. /\ u \in Bytes /\ v \in Bytes
        /\ Size(u) = Width /\ Size(v) = Width /\ (x = u => p = w) /\ (y = v => a = b)
    BY <1>1, <1>5, OnePiece
  <2>2. /\ SigStructure(w, n, b) = Cat(start, Cat(u, Cat(v, n)))
        /\ Cat(v, n) \in Bytes /\ Cat(u, Cat(v, n)) \in Bytes
    BY <1>3
  <2> HIDE DEF u, v
  <2>3. Cat(x, Cat(y, m)) = Cat(u, Cat(v, n))
    BY <1>1, <1>4, <1>7, <2>2, CatApart, ZenonT(40)
  <2>4. x = u /\ Cat(y, m) = Cat(v, n)
    BY <1>4, <1>5, <2>1, <2>2, <2>3, CatApart
  <2>5. y = v /\ m = n
    BY <1>4, <1>5, <2>1, <2>2, <2>4, CatApart
  <2> QED
    BY <2>1, <2>4, <2>5
<1> QED
  BY <1>6, <1>7
------------------------------------------------------------------------------
(* The v2 bytes fix the suite, the context and the message. *)
LEMMA SameM2 ==
  ASSUME NEW s \in Suite, NEW v \in Suite, NEW c \in Bytes, NEW d \in Bytes,
         NEW b \in Bodies, NEW g \in Bodies
  PROVE  M2(s, c, b) = M2(v, d, g) <=> s = v /\ c = d /\ b = g
<1>1. s \in Structures /\ v \in Structures /\ b \in Bytes /\ g \in Bytes
  BY DEF Structures, Bodies
<1>2. ASSUME M2(s, c, b) = M2(v, d, g) PROVE s = v /\ c = d /\ b = g
  BY <1>1, <1>2, M2Framed
<1> QED
  BY <1>2

(* What a verifier of either format makes of a blob of its own format. *)
LEMMA V1Checks ==
  ASSUME NEW by, NEW k, k.algorithm = by.algorithm, k.algorithm \in Suite,
         NEW g \in BOOLEAN, NEW h \in BOOLEAN, NEW body, NEW c, NEW d, NEW rand
  PROVE  LET own == [suite |-> by.algorithm, hedged |-> g]
             signer == [suite |-> k.algorithm, hedged |-> h]
         IN  V1Accepts(signer, k, body, V1Blob(own, by, body, c, rand), d)
             <=> /\ Len(rand) = IF h THEN 1 ELSE 0
                 /\ k.material = by.material
                 /\ V1Input(d, rand, body) = V1Input(c, rand, body)
<1> DEFINE own == [suite |-> by.algorithm, hedged |-> g]
           signer == [suite |-> k.algorithm, hedged |-> h]
           data == V1Input(c, rand, body)
           mine == V1Input(d, rand, body)
           cls == RawSignature(Half(by, "classical"), <<>>, data)
           pqc == RawSignature(Half(by, "pqc"), <<>>, data)
           blob == V1Blob(own, by, body, c, rand)
           hybrid == IsHybrid(by.algorithm)
<1>1. signer.suite = by.algorithm /\ own.suite = by.algorithm /\ signer.hedged = h
  OBVIOUS
<1>2. blob = [version |-> 1, rand |-> rand,
              parts |-> IF hybrid
                        THEN [classical |-> cls, pqc |-> pqc,
                              names |-> <<by.algorithm.classical, by.algorithm.pqc>>]
                        ELSE [pqc |-> pqc]]
  BY <1>1, Zenon DEF V1Blob
<1>3. /\ RawVerify(Half(k, "classical"), <<>>, mine, cls) <=> k.material = by.material /\ mine = data
      /\ RawVerify(Half(k, "pqc"), <<>>, mine, pqc) <=> k.material = by.material /\ mine = data
  BY SameSignature, SameHalf, SMTT(30)
<1> HIDE DEF data, mine, cls, pqc, hybrid, signer
<1>4. /\ blob.version = 1 /\ blob.rand = rand /\ blob.parts.pqc = pqc
      /\ hybrid <=> "names" \in DOMAIN blob.parts
      /\ hybrid => /\ blob.parts.classical = cls
                   /\ blob.parts.names = <<by.algorithm.classical, by.algorithm.pqc>>
  BY <1>2
<1> HIDE DEF blob
<1>5. V1Accepts(signer, k, body, blob, d)
      <=> /\ Len(rand) = (IF h THEN 1 ELSE 0)
          /\ hybrid => RawVerify(Half(k, "classical"), <<>>, mine, cls)
          /\ RawVerify(Half(k, "pqc"), <<>>, mine, pqc)
  <2>1. PrefixRight(signer, blob) <=> Len(rand) = IF h THEN 1 ELSE 0
    BY <1>1, <1>4 DEF PrefixRight
  <2>2. IsHybrid(signer.suite) <=> hybrid
    BY <1>1 DEF hybrid
  <2>3. V1Input(d, blob.rand, body) = mine
    BY <1>4 DEF mine
  <2>4. V1Accepts(signer, k, body, blob, d)
        <=> /\ PrefixRight(signer, blob)
            /\ IsHybrid(signer.suite) = ("names" \in DOMAIN blob.parts)
            /\ IsHybrid(signer.suite) =>
                 /\ blob.parts.names = <<signer.suite.classical, signer.suite.pqc>>
                 /\ RawVerify(Half(k, "classical"), <<>>, V1Input(d, blob.rand, body), blob.parts.classical)
            /\ RawVerify(Half(k, "pqc"), <<>>, V1Input(d, blob.rand, body), blob.parts.pqc)
    BY Zenon DEF V1Accepts
  <2>5. (IsHybrid(signer.suite) = ("names" \in DOMAIN blob.parts))
        <=> (hybrid <=> "names" \in DOMAIN blob.parts)
    BY <1>1 DEF IsHybrid, hybrid
  <2> QED
    BY <1>1, <1>4, <2>1, <2>2, <2>3, <2>4, <2>5
<1> QED
  BY <1>3, <1>5 DEF blob, mine, data, signer

(* What the classical half of a v2 signature signs. *)
Prefixed(data) == Label \o Byte(0) \o data

(* A v2 blob verifies under the same bytes, if the context fits. *)
LEMMA V2Checks ==
  ASSUME NEW by, NEW k, k.algorithm = by.algorithm, k.algorithm \in Suite,
         NEW g \in BOOLEAN, NEW h \in BOOLEAN, NEW body, NEW c, NEW d
  PROVE  LET own == [suite |-> by.algorithm, hedged |-> g]
             signer == [suite |-> k.algorithm, hedged |-> h]
         IN  V2Accepts(signer, k, body, V2Blob(own, by, body, c), d)
             <=> /\ ~TooLong(d) /\ body # <<>>
                 /\ k.material = by.material
                 /\ M2(by.algorithm, d, body) = M2(by.algorithm, c, body)
<1> DEFINE own == [suite |-> by.algorithm, hedged |-> g]
           signer == [suite |-> k.algorithm, hedged |-> h]
           data == M2(by.algorithm, c, body)
           mine == M2(by.algorithm, d, body)
           cls == RawSignature(Half(by, "classical"), <<>>, Prefixed(data))
           pqc == RawSignature(Half(by, "pqc"), Label, data)
           blob == V2Blob(own, by, body, c)
           hybrid == IsHybrid(by.algorithm)
<1>1. signer.suite = by.algorithm /\ own.suite = by.algorithm
  OBVIOUS
<1>2. blob = [version |-> 2,
              parts |-> IF hybrid THEN [classical |-> cls, pqc |-> pqc] ELSE [pqc |-> pqc]]
  BY <1>1, Zenon DEF V2Blob, Prefixed
<1>3. /\ k.material = by.material /\ mine = data
         => RawVerify(Half(k, "classical"), <<>>, Prefixed(mine), cls)
      /\ RawVerify(Half(k, "pqc"), Label, mine, pqc) <=> k.material = by.material /\ mine = data
  BY SameSignature, SameHalf
<1> HIDE DEF data, mine, cls, pqc, hybrid, signer
<1>4. /\ blob.version = 2 /\ blob.parts.pqc = pqc
      /\ hybrid <=> "classical" \in DOMAIN blob.parts
      /\ hybrid => blob.parts.classical = cls
  BY <1>2
<1> HIDE DEF blob
<1>5. V2Accepts(signer, k, body, blob, d)
      <=> /\ ~TooLong(d) /\ body # <<>>
          /\ hybrid => RawVerify(Half(k, "classical"), <<>>, Prefixed(mine), cls)
          /\ RawVerify(Half(k, "pqc"), Label, mine, pqc)
  <2>1. IsHybrid(signer.suite) <=> hybrid
    BY <1>1 DEF hybrid
  <2>2. M2(signer.suite, d, body) = mine
    BY <1>1 DEF mine
  <2>3. V2Accepts(signer, k, body, blob, d)
        <=> /\ ~TooLong(d) /\ body # <<>> /\ blob.version = 2
            /\ IsHybrid(signer.suite) = ("classical" \in DOMAIN blob.parts)
            /\ IsHybrid(signer.suite) =>
                 RawVerify(Half(k, "classical"), <<>>, Prefixed(M2(signer.suite, d, body)), blob.parts.classical)
            /\ RawVerify(Half(k, "pqc"), Label, M2(signer.suite, d, body), blob.parts.pqc)
    BY Zenon DEF V2Accepts, Prefixed
  <2>4. (IsHybrid(signer.suite) = ("classical" \in DOMAIN blob.parts))
        <=> (hybrid <=> "classical" \in DOMAIN blob.parts)
    BY <1>1 DEF IsHybrid, hybrid
  <2> QED
    BY <1>4, <2>1, <2>2, <2>3, <2>4
<1> QED
  BY <1>3, <1>5 DEF blob, mine, data, signer

(* Sign.verify_bytes of what was signed with a key of the same algorithm. *)
LEMMA WrappedVerifies ==
  ASSUME NEW by, NEW k, k.algorithm = by.algorithm, k.algorithm \in Suite,
         NEW g \in BOOLEAN, NEW h \in BOOLEAN, NEW n \in Nat, NEW body \in Bodies,
         NEW c \in Bytes, NEW d \in Bytes, ~TooLong(c),
         BuildRefusal([suite |-> by.algorithm, hedged |-> g]) = "built",
         BuildRefusal([suite |-> k.algorithm, hedged |-> h]) = "built"
  PROVE  LET own == [suite |-> by.algorithm, hedged |-> g]
             signer == [suite |-> k.algorithm, hedged |-> h]
         IN  VerifyBytes(signer, k, body, Signed(own, by, body, c, n).signature, d) = "accepted"
             <=> k.material = by.material /\ h = g /\ d = c
<1> DEFINE own == [suite |-> by.algorithm, hedged |-> g]
           signer == [suite |-> k.algorithm, hedged |-> h]
           rand == Hedge(own, n)
           blob == Signed(own, by, body, c, n).signature
           v2 == by.algorithm.v2
<1>1. v2 \in BOOLEAN /\ body # <<>> /\ signer.suite = by.algorithm /\ own.suite = by.algorithm
  BY DEF Suite, Bodies
<1>2. v2 => g /\ h
  <2>1. own.suite.v2 \in BOOLEAN /\ own.hedged \in BOOLEAN /\ signer.suite.v2 \in BOOLEAN /\ signer.hedged \in BOOLEAN
    BY <1>1
  <2>2. own.suite.v2 => own.hedged
    BY <2>1, BuiltWhen
  <2>3. signer.suite.v2 => signer.hedged
    BY <2>1, BuiltWhen
  <2> QED
    BY <2>2, <2>3
<1>3. VerifyBytes(signer, k, body, blob, d) = "accepted"
      <=> IF v2 THEN V2Accepts(signer, k, body, blob, d) ELSE V1Accepts(signer, k, body, blob, d)
  BY <1>1 DEF VerifyBytes
<1>4. /\ v2 => blob = V2Blob(own, by, body, c)
      /\ ~v2 => blob = V1Blob(own, by, body, c, rand)
  BY <1>1 DEF Signed
<1>5. CASE v2
  <2>1. V2Accepts(signer, k, body, V2Blob(own, by, body, c), d)
        <=> /\ ~TooLong(d) /\ body # <<>> /\ k.material = by.material
            /\ M2(by.algorithm, d, body) = M2(by.algorithm, c, body)
    BY V2Checks
  <2>2. M2(by.algorithm, d, body) = M2(by.algorithm, c, body) <=> d = c
    BY SameM2
  <2> HIDE DEF blob, own, signer
  <2>3. V2Accepts(signer, k, body, blob, d) <=> ~TooLong(d) /\ k.material = by.material /\ d = c
    BY <1>1, <1>4, <1>5, <2>1, <2>2
  <2>4. h = g
    BY <1>2, <1>5
  <2>5. VerifyBytes(signer, k, body, blob, d) = "accepted" <=> k.material = by.material /\ h = g /\ d = c
    BY <1>3, <1>5, <2>3, <2>4
  <2> QED
    BY <2>5 DEF blob, own, signer
<1>6. CASE ~v2
  <2> HIDE DEF rand
  <2>1. V1Accepts(signer, k, body, V1Blob(own, by, body, c, rand), d)
        <=> /\ Len(rand) = IF h THEN 1 ELSE 0
            /\ k.material = by.material
            /\ V1Input(d, rand, body) = V1Input(c, rand, body)
    BY V1Checks
  <2>2. own.hedged = g /\ own.hedged \in BOOLEAN
    OBVIOUS
  <2> HIDE DEF blob, own, signer
  <2>6. rand \in Randoms /\ Len(rand) = IF g THEN 1 ELSE 0
    <3>1. /\ Hedge(own, n) \in Randoms
          /\ Len(Hedge(own, n)) = IF own.hedged THEN 1 ELSE 0
      BY <2>2, Random
    <3> QED
      BY <2>2, <3>1 DEF rand
  <2>3. V1Input(d, rand, body) = V1Input(c, rand, body) <=> d = c
    <3>1. ASSUME V1Input(d, rand, body) = V1Input(c, rand, body) PROVE d = c
      BY <2>6, <3>1, V1Framed
    <3> QED
      BY <3>1
  <2>4. (IF g THEN 1 ELSE 0) = (IF h THEN 1 ELSE 0) <=> g = h
    OBVIOUS
  <2>5. V1Accepts(signer, k, body, blob, d) <=> k.material = by.material /\ h = g /\ d = c
    BY <1>4, <1>6, <2>1, <2>6, <2>3, <2>4
  <2> QED
    BY <1>3, <1>6, <2>5 DEF blob, own, signer
<1> QED
  BY <1>5, <1>6
------------------------------------------------------------------------------
(* Leaving context= out means the empty one. *)
ExpectedContext(z) == IF z = Omitted THEN <<>> ELSE z

(* Sign.verify accepts a wrapped signature exactly with its key, mode and
   context. *)
LEMMA WrappedAccepted ==
  ASSUME NEW by, NEW k, k.algorithm = by.algorithm, k.algorithm \in Suite,
         NEW g \in BOOLEAN, NEW h \in BOOLEAN, NEW n \in Nat, NEW body \in Bodies,
         NEW c \in Bytes, NEW x \in Bytes, ~TooLong(c), NEW z,
         BuildRefusal([suite |-> by.algorithm, hedged |-> g]) = "built"
  PROVE  LET own == [suite |-> by.algorithm, hedged |-> g]
             signer == [suite |-> k.algorithm, hedged |-> h]
             received == [message |-> body, context |-> x, algorithm |-> k.algorithm,
                          signature |-> Signed(own, by, body, c, n).signature]
         IN  BuildRefusal(signer) = "built" /\ Verify(signer, k, received, z) = "accepted"
             <=> k.material = by.material /\ h = g /\ x = c /\ x = ExpectedContext(z)
<1> DEFINE own == [suite |-> by.algorithm, hedged |-> g]
           signer == [suite |-> k.algorithm, hedged |-> h]
           sig == Signed(own, by, body, c, n).signature
           received == [message |-> body, context |-> x, algorithm |-> k.algorithm, signature |-> sig]
<1>1. /\ received.message = body /\ received.context = x /\ received.algorithm = k.algorithm
      /\ received.signature = sig /\ signer.suite = k.algorithm
  OBVIOUS
<1>2. ContextExpected(received, z) <=> x = ExpectedContext(z)
  BY <1>1 DEF ContextExpected, ExpectedContext
<1>3. BuildRefusal(signer) = "built"
      => (VerifyBytes(signer, k, body, sig, x) = "accepted" <=> k.material = by.material /\ h = g /\ x = c)
  BY WrappedVerifies
<1>4. h = g => BuildRefusal(signer) = "built"
  OBVIOUS
<1> HIDE DEF own, signer, sig, received
<1>5. Verify(signer, k, received, z) = "accepted"
      <=> /\ ContextExpected(received, z)
          /\ received.algorithm = signer.suite /\ k.algorithm = signer.suite
          /\ VerifyBytes(signer, k, received.message, received.signature, received.context) = "accepted"
  BY VerifiesWhen
<1>6. BuildRefusal(signer) = "built" /\ Verify(signer, k, received, z) = "accepted"
      <=> k.material = by.material /\ h = g /\ x = c /\ x = ExpectedContext(z)
  BY <1>1, <1>2, <1>3, <1>4, <1>5
<1> QED
  BY <1>6 DEF own, signer, sig, received

(* What was sent as a message is accepted exactly when it should be. *)
LEMMA MessageAsMeant ==
  ASSUME NEW e, e.by \in Secrets, e.hedged \in BOOLEAN, MessageSent(e), NEW k \in Publics, NEW h \in BOOLEAN,
         NEW z
  PROVE  Accepted(e, k, h, z) <=> Meant(e, k, h, z)
<1> DEFINE own == [suite |-> e.by.algorithm, hedged |-> e.hedged]
           signer == [suite |-> k.algorithm, hedged |-> h]
<1>1. PICK m \in Messages, c \in Contexts, n \in Nat :
        /\ BuildRefusal(own) = "built" /\ ~TooLong(c) /\ m # <<>>
        /\ e.what = [kind |-> "message", cbor |-> ToCbor(Wrapped(e, m, c, n))]
        /\ e.context = c
  BY DEF MessageSent, Own
<1> DEFINE sig == Signed(own, e.by, m, c, n).signature
           received == [message |-> m, context |-> c, algorithm |-> e.by.algorithm, signature |-> sig]
<1>2. m \in Bodies /\ c \in Bytes
  BY <1>1, Passed DEF Bodies
<1>3. e.what.kind = "message" /\ e.what.cbor = ToCbor(Wrapped(e, m, c, n))
  BY <1>1
<1>4. FromCbor(e.what.cbor) = received
  BY <1>3 DEF FromCbor, ToCbor, Wrapped, Signed, Own
<1>5. Accepted(e, k, h, z) <=> BuildRefusal(signer) = "built" /\ Verify(signer, k, received, z) = "accepted"
  BY <1>3, <1>4 DEF Accepted
<1>6. Meant(e, k, h, z) <=> /\ k.material = e.by.material /\ k.algorithm = e.by.algorithm
                            /\ h = e.hedged /\ ExpectedContext(z) = c
  BY <1>1, <1>3 DEF Meant, ExpectedContext
<1>7. CASE k.algorithm = e.by.algorithm
  <2> DEFINE found == [message |-> m, context |-> c, algorithm |-> k.algorithm, signature |-> sig]
  <2>1. received = found /\ k.algorithm \in Suite
    BY <1>7 DEF Publics
  <2>2. BuildRefusal(signer) = "built" /\ Verify(signer, k, found, z) = "accepted"
        <=> k.material = e.by.material /\ h = e.hedged /\ c = c /\ c = ExpectedContext(z)
    BY <1>1, <1>2, <1>7, <2>1, WrappedAccepted
  <2> HIDE DEF found, received
  <2> QED
    BY <1>5, <1>6, <1>7, <2>1, <2>2
<1>8. CASE k.algorithm # e.by.algorithm
  <2>1. received.algorithm # signer.suite
    BY <1>8
  <2> HIDE DEF received, signer
  <2>2. Verify(signer, k, received, z) # "accepted"
    BY <2>1, VerifiesWhen
  <2> QED
    BY <1>5, <1>6, <1>8, <2>2
<1> QED
  BY <1>7, <1>8

(* A verifier without expectations looks at the two times alone. *)
LEMMA ClaimsOfAnyone ==
  ASSUME NEW claims, NEW t
  PROVE  ClaimsHold(claims, Anyone, t, FALSE) <=> NotExpired(claims, t) /\ Started(claims, t)
<1>1. Anyone.exp = TRUE /\ Anyone.issuer = "any" /\ Anyone.audience = "any"
  BY DEF Anyone, Expect
<1> QED
  BY <1>1 DEF ClaimsHold

(* The library's own token is accepted exactly when it should be. *)
LEMMA JwtAsMeant ==
  ASSUME NEW e, e.by \in Secrets, e.hedged \in BOOLEAN, JwtSent(e), NEW k \in Publics, NEW h \in BOOLEAN,
         NEW z \in Contexts \cup {JwtContext, Omitted}
  PROVE  Accepted(e, k, h, z) <=> Meant(e, k, h, z)
<1> DEFINE own == [suite |-> e.by.algorithm, hedged |-> e.hedged]
           signer == Reader(k.algorithm, h)
<1>1. PICK claims \in ClaimSets, n \in Nat :
        /\ BuildRefusal(own) = "built"
        /\ e.what = [kind |-> "jwt", alg |-> e.by.algorithm, claims |-> claims,
                     signature |-> Wrapped(e, JwtBody(e.by.algorithm, claims), JwtContext, n).signature]
        /\ e.context = JwtContext
  BY DEF JwtSent, Own
<1> DEFINE body == JwtBody(e.by.algorithm, claims)
           sig == Signed(own, e.by, body, JwtContext, n).signature
           received == JwtReceived(e.what, k, z)
           timely == NotExpired(claims, now) /\ Started(claims, now)
<1>2. e.by.algorithm \in Suite /\ k.algorithm \in Suite
  BY DEF Secrets, Publics
<1>3. body \in Bodies /\ JwtContext \in Bytes /\ z \in Bytes /\ ~TooLong(JwtContext)
  BY <1>2, JwtBodies, ContextsDiffer DEF Aads
<1>4. /\ e.what.kind = "jwt" /\ e.what.alg = e.by.algorithm /\ e.what.claims = claims
      /\ e.what.signature = sig
  BY <1>1 DEF Wrapped, Own
<1>5. Accepted(e, k, h, z) <=> JwtVerify(e.what, k, h, z, Anyone, now) = "accepted"
  BY <1>4 DEF Accepted
<1>6. JwtVerify(e.what, k, h, z, Anyone, now) = "accepted"
      <=> /\ BuildRefusal(signer) = "built" /\ e.what.alg = k.algorithm
          /\ Verify(signer, k, received, z) = "accepted"
          /\ ClaimsHold(e.what.claims, Anyone, now, FALSE)
  <2> DEFINE token == e.what
  <2> HIDE DEF token
  <2>1. JwtVerify(token, k, h, z, Anyone, now) = "accepted"
        <=> /\ BuildRefusal(Reader(k.algorithm, h)) = "built" /\ token.alg = k.algorithm
            /\ Verify(Reader(k.algorithm, h), k, JwtReceived(token, k, z), z) = "accepted"
            /\ ClaimsHold(token.claims, Anyone, now, FALSE)
    BY JwtVerifiesWhen
  <2> QED
    BY <2>1 DEF token
<1>7. ClaimsHold(e.what.claims, Anyone, now, FALSE) <=> timely
  BY <1>4, ClaimsOfAnyone
<1>8. Meant(e, k, h, z) <=> /\ k.material = e.by.material /\ k.algorithm = e.by.algorithm
                            /\ h = e.hedged /\ z = JwtContext /\ timely
  BY <1>1, <1>4 DEF Meant
<1>9. CASE k.algorithm = e.by.algorithm
  <2> DEFINE found == [message |-> body, context |-> z, algorithm |-> k.algorithm, signature |-> sig]
             reader == [suite |-> k.algorithm, hedged |-> h]
  <2>1. received = found /\ signer = reader
    BY <1>4 DEF JwtReceived, Reader
  <2>2. BuildRefusal(reader) = "built" /\ Verify(reader, k, found, z) = "accepted"
        <=> k.material = e.by.material /\ h = e.hedged /\ z = JwtContext /\ z = ExpectedContext(z)
    BY <1>1, <1>2, <1>3, <1>9, WrappedAccepted
  <2>3. z = JwtContext => z = ExpectedContext(z)
    BY ContextsDiffer DEF ExpectedContext
  <2> HIDE DEF found, reader, received, timely, signer, own, body, sig
  <2> QED
    BY <1>4, <1>5, <1>6, <1>7, <1>8, <1>9, <2>1, <2>2, <2>3
<1>10. CASE k.algorithm # e.by.algorithm
  <2> HIDE DEF received, timely, signer, own, body, sig
  <2> QED
    BY <1>4, <1>5, <1>6, <1>8, <1>10
<1> QED
  BY <1>9, <1>10

(* So is the co-signature of a certificate. *)
LEMMA CertificateAsMeant ==
  ASSUME NEW e, e.by \in Secrets, e.hedged \in BOOLEAN, CertificateSent(e), NEW k \in Publics,
         NEW h \in BOOLEAN, NEW z
  PROVE  Accepted(e, k, h, z) <=> Meant(e, k, h, z)
<1> DEFINE own == [suite |-> e.by.algorithm, hedged |-> e.hedged]
<1>1. PICK pair \in Pairs, n \in Nat :
        /\ BuildRefusal(own) = "built"
        /\ e.what = [kind |-> "cosig", cert |-> Certificate("cn", pair), algo |-> e.by.algorithm,
                     signature |-> Wrapped(e, CosigInput(Certificate("cn", pair)), CosigContext, n).signature,
                     context |-> CosigContext, fp |-> Fingerprint(pair.public)]
  BY DEF CertificateSent, Own
<1> DEFINE cert == Certificate("cn", pair)
           body == CosigInput(cert)
           sig == Signed(own, e.by, body, CosigContext, n).signature
           signer == [suite |-> e.what.algo, hedged |-> h]
           received == [message |-> CosigInput(e.what.cert), context |-> e.what.context,
                        algorithm |-> e.what.algo, signature |-> e.what.signature]
<1>2. e.by.algorithm \in Suite /\ k.algorithm \in Suite
  BY DEF Secrets, Publics
<1>3. cert \in Certificates
  BY DEF Certificates
<1>4. body \in Bodies /\ CosigContext \in Bytes /\ ~TooLong(CosigContext)
  <2>1. CosigContext \in Aads
    BY DEF Aads
  <2> HIDE DEF cert
  <2>2. body \in Bodies
    BY <1>3, CosigBodies
  <2> QED
    BY <2>1, <2>2, ContextsDiffer
<1>5. /\ e.what.kind = "cosig" /\ e.what.algo = e.by.algorithm /\ e.what.cert = cert
      /\ e.what.signature = sig /\ e.what.context = CosigContext
  BY <1>1 DEF Wrapped, Own
<1>6. Accepted(e, k, h, z) <=> VerifyCosig(e.what.cert, e.what, k, h) = "accepted"
  BY <1>5 DEF Accepted
<1>7. VerifyCosig(e.what.cert, e.what, k, h) = "accepted"
      <=> BuildRefusal(signer) = "built" /\ Verify(signer, k, received, CosigContext) = "accepted"
  BY DEF VerifyCosig
<1>8. Meant(e, k, h, z) <=> /\ k.material = e.by.material /\ k.algorithm = e.by.algorithm
                            /\ h = e.hedged
  BY <1>5 DEF Meant
<1>9. CASE k.algorithm = e.by.algorithm
  <2> DEFINE found == [message |-> body, context |-> CosigContext, algorithm |-> k.algorithm, signature |-> sig]
             reader == [suite |-> k.algorithm, hedged |-> h]
  <2>1. received = found /\ signer = reader
    BY <1>5, <1>9
  <2>2. BuildRefusal(reader) = "built" /\ Verify(reader, k, found, CosigContext) = "accepted"
        <=> /\ k.material = e.by.material /\ h = e.hedged /\ CosigContext = CosigContext
            /\ CosigContext = ExpectedContext(CosigContext)
    BY <1>1, <1>2, <1>4, <1>9, WrappedAccepted, SMTT(30)
  <2>3. CosigContext = ExpectedContext(CosigContext)
    BY ContextsDiffer DEF ExpectedContext
  <2> HIDE DEF found, reader, received, signer, own, body, sig
  <2> QED
    BY <1>6, <1>7, <1>8, <1>9, <2>1, <2>2, <2>3
<1>10. CASE k.algorithm # e.by.algorithm
  <2>1. signer.suite # k.algorithm
    BY <1>5, <1>10
  <2> HIDE DEF received, signer, own, body, sig
  <2>2. Verify(signer, k, received, CosigContext) # "accepted"
    BY <2>1, VerifiesWhen
  <2> QED
    BY <1>6, <1>7, <1>8, <1>10, <2>2
<1> QED
  BY <1>9, <1>10

(* sign_raw takes a key under either name of its algorithm, never a
   hybrid's. *)
LEMMA SpecNames ==
  ASSUME NEW s \in Suite, NEW v \in Suite, ~IsHybrid(s)
  PROVE  SpecName(v) = SpecName(s) <=> ~IsHybrid(v) /\ v.pqc = s.pqc
<1>1. /\ SpecName(v).classical = v.classical /\ SpecName(v).pqc = v.pqc
      /\ SpecName(s).classical = s.classical /\ SpecName(s).pqc = s.pqc
  BY DEF SpecName, Suite
<1>2. ASSUME NEW x \in Suite
      PROVE  SpecName(x) \in Suite /\ SpecName(x).v2 = FALSE
  BY DEF SpecName, Suite
<1>3. \A x, y \in Suite : x.classical = y.classical /\ x.pqc = y.pqc /\ x.v2 = y.v2 => x = y
  BY DEF Suite
<1>4. SpecName(v) \in Suite /\ SpecName(s) \in Suite /\ SpecName(v).v2 = SpecName(s).v2
  BY <1>2
<1> QED
  BY <1>1, <1>3, <1>4 DEF IsHybrid

(* A raw signature is accepted exactly when it should be. *)
LEMMA RawAsMeant ==
  ASSUME NEW e, e.by \in Secrets, RawSent(e), NEW k \in Publics, NEW h,
         NEW z \in Contexts \cup {JwtContext, Omitted}
  PROVE  Accepted(e, k, h, z) <=> Meant(e, k, h, z)
<1>1. PICK m \in Messages, c \in Contexts :
        /\ ~IsHybrid(e.by.algorithm) /\ ~TooLong(c)
        /\ e.what = [kind |-> "raw", message |-> m, signature |-> SignRaw(e.by, m, c)]
        /\ e.context = c
  BY DEF RawSent
<1> DEFINE signer == [suite |-> k.algorithm, hedged |-> h]
           sig == SignRaw(e.by, m, c)
<1>2. e.by.algorithm \in Suite /\ k.algorithm \in Suite
  BY DEF Secrets, Publics
<1>3. e.what.kind = "raw" /\ e.what.message = m /\ e.what.signature = sig
  BY <1>1
<1>4. Accepted(e, k, h, z)
      <=> ~IsHybrid(k.algorithm) /\ VerifyRaw(signer, k, m, sig, z) = "accepted"
  BY <1>3 DEF Accepted
<1>5. VerifyRaw(signer, k, m, sig, z) = "accepted"
      <=> /\ RawKeyFits(signer, k) /\ ~TooLong(z)
          /\ RawVerify(Half(k, "pqc"), z, m, sig)
  BY RawVerifiesWhen
<1>6. RawKeyFits(signer, k)
  BY DEF RawKeyFits
<1>7. RawVerify(Half(k, "pqc"), z, m, sig)
      <=> k.material = e.by.material /\ k.algorithm.pqc = e.by.algorithm.pqc /\ z = c
  <2>1. RawVerify(Half(k, "pqc"), z, m, RawSignature(Half(e.by, "pqc"), c, m))
        <=> Half(k, "pqc") = Half(e.by, "pqc") /\ z = c /\ m = m
    BY SameSignature
  <2> QED
    BY <2>1, SameHalf DEF SignRaw
<1>8. SpecName(k.algorithm) = SpecName(e.by.algorithm)
      <=> ~IsHybrid(k.algorithm) /\ k.algorithm.pqc = e.by.algorithm.pqc
  BY <1>1, <1>2, SpecNames
<1>9. Meant(e, k, h, z) <=> /\ k.material = e.by.material
                            /\ SpecName(k.algorithm) = SpecName(e.by.algorithm)
                            /\ z = c
  BY <1>1, <1>3 DEF Meant
<1> HIDE DEF signer, sig
<1> QED
  BY <1>1, <1>4, <1>5, <1>6, <1>7, <1>8, <1>9

(* So is an RFC 9964 token. *)
LEMMA StandardAsMeant ==
  ASSUME NEW e, e.by \in Secrets, StandardSent(e), NEW k \in Publics, NEW h, NEW z
  PROVE  Accepted(e, k, h, z) <=> Meant(e, k, h, z)
<1>1. PICK claims \in ClaimSets :
        /\ JoseAlg(e.by.algorithm)
        /\ e.what = [kind |-> "std", alg |-> e.by.algorithm, kid |-> "none", claims |-> claims,
                     signature |-> SignRaw(e.by, SigningInput(StandardHeader(e.by.algorithm, "none"), claims), <<>>)]
  BY DEF StandardSent
<1> DEFINE input == SigningInput(StandardHeader(e.by.algorithm, "none"), claims)
           timely == NotExpired(claims, now) /\ Started(claims, now)
           token == e.what
<1>2. /\ token.kind = "std" /\ token.alg = e.by.algorithm /\ token.kid = "none" /\ token.claims = claims
      /\ token.signature = SignRaw(e.by, input, <<>>)
  BY <1>1
<1>3. Accepted(e, k, h, z) <=> StandardVerify(token, k, Anyone, now, FALSE) = "accepted"
  BY <1>2 DEF Accepted
<1>4. Meant(e, k, h, z) <=> /\ k.material = e.by.material /\ k.algorithm = e.by.algorithm /\ timely
  BY <1>2 DEF Meant
<1>5. ClaimsHold(claims, Anyone, now, FALSE) <=> timely
  BY ClaimsOfAnyone
<1>6. RawVerify(Half(k, "pqc"), <<>>, input, SignRaw(e.by, input, <<>>))
      <=> k.material = e.by.material /\ k.algorithm.pqc = e.by.algorithm.pqc
  <2>1. RawVerify(Half(k, "pqc"), <<>>, input, RawSignature(Half(e.by, "pqc"), <<>>, input))
        <=> Half(k, "pqc") = Half(e.by, "pqc") /\ <<>> = <<>> /\ input = input
    BY SameSignature
  <2> QED
    BY <2>1, SameHalf DEF SignRaw
<1>7. SigningInput(StandardHeader(token.alg, token.kid), token.claims) = input
  BY <1>2
<1> HIDE DEF token
<1>8. StandardVerify(token, k, Anyone, now, FALSE) = "accepted"
      <=> /\ JoseAlg(k.algorithm) /\ token.alg = k.algorithm
          /\ RawVerify(Half(k, "pqc"), <<>>,
                       SigningInput(StandardHeader(token.alg, token.kid), token.claims), token.signature)
          /\ ClaimsHold(token.claims, Anyone, now, FALSE)
  BY StandardVerifiesWhen
<1> HIDE DEF input, timely
<1> QED
  BY <1>1, <1>2, <1>3, <1>4, <1>5, <1>6, <1>7, <1>8

(* So is a COSE object, its payload attached or not. *)
LEMMA CoseAsMeant ==
  ASSUME NEW e, e.by \in Secrets, CoseSent(e), NEW k \in Publics, NEW h,
         NEW z \in Contexts \cup {JwtContext, Omitted}
  PROVE  Accepted(e, k, h, z) <=> Meant(e, k, h, z)
<1>1. PICK m \in Messages, a \in Contexts : \E d \in BOOLEAN :
        /\ JoseAlg(e.by.algorithm)
        /\ e.what = Sign1(m, e.by, "none", a, d)
        /\ e.payload = m /\ e.context = a
  BY DEF CoseSent
<1>2. PICK d \in BOOLEAN :
        /\ JoseAlg(e.by.algorithm)
        /\ e.what = Sign1(m, e.by, "none", a, d)
        /\ e.payload = m /\ e.context = a
  BY <1>1
<1> DEFINE object == e.what
           protected == StandardHeader(e.by.algorithm, "none")
           data == SigStructure(protected, m, a)
           mine == SigStructure(protected, m, z)
           signer == [suite |-> k.algorithm, hedged |-> TRUE]
<1>3. /\ object.kind = "cose" /\ object.protected = protected
      /\ object.payload = (IF d THEN Nil ELSE m) /\ object.signature = SignRaw(e.by, data, <<>>)
      /\ protected.alg = e.by.algorithm
  BY <1>2 DEF Sign1, StandardHeader
<1>4. m # Nil /\ m \in Bytes /\ a \in Aads /\ z \in Aads /\ protected \in Structures
  BY TrafficAssumption, Passed DEF Aads, Structures, Secrets
<1>5. Accepted(e, k, h, z) <=> VerifySign1(object, k, z, m) = "accepted"
  BY <1>2, <1>3 DEF Accepted
<1>6. Meant(e, k, h, z) <=> /\ k.material = e.by.material /\ k.algorithm = e.by.algorithm /\ z = a
  BY <1>2, <1>3 DEF Meant
<1> DEFINE payload == IF object.payload = Nil THEN m ELSE object.payload
           opened == VerifyRaw(signer, k, SigStructure(object.protected, payload, z), object.signature, <<>>)
<1>7. VerifySign1(object, k, z, m) = "accepted"
      <=> /\ JoseAlg(object.protected.alg) /\ k.algorithm = object.protected.alg
          /\ payload # Nil /\ m \in {Nil, payload} /\ opened = "accepted"
  <2> HIDE DEF object
  <2> QED
    BY CoseVerifiesWhen
<1>8. payload = m
  BY <1>3
<1>9. opened = VerifyRaw(signer, k, mine, SignRaw(e.by, data, <<>>), <<>>)
  BY <1>3, <1>8
<1>10. RawVerify(Half(k, "pqc"), <<>>, mine, SignRaw(e.by, data, <<>>))
       <=> k.material = e.by.material /\ k.algorithm.pqc = e.by.algorithm.pqc /\ mine = data
  <2>1. RawVerify(Half(k, "pqc"), <<>>, mine, RawSignature(Half(e.by, "pqc"), <<>>, data))
        <=> Half(k, "pqc") = Half(e.by, "pqc") /\ <<>> = <<>> /\ mine = data
    BY SameSignature
  <2> QED
    BY <2>1, SameHalf DEF SignRaw
<1>11. mine = data <=> z = a
  <2> HIDE DEF protected
  <2>1. \A w \in Structures, b \in Aads, n \in Bytes :
          mine = SigStructure(w, n, b) => protected = w /\ z = b /\ m = n
    BY <1>4, CoseInput
  <2> QED
    BY <1>4, <2>1
<1>12. RawKeyFits(signer, k) /\ ~TooLong(<<>>)
  BY ContextsDiffer DEF RawKeyFits
<1> HIDE DEF object, protected, data, mine, signer, payload
<1>13. VerifyRaw(signer, k, mine, SignRaw(e.by, data, <<>>), <<>>) = "accepted"
       <=> /\ RawKeyFits(signer, k) /\ ~TooLong(<<>>)
           /\ RawVerify(Half(k, "pqc"), <<>>, mine, SignRaw(e.by, data, <<>>))
  BY RawVerifiesWhen
<1> HIDE DEF opened
<1> QED
  BY <1>2, <1>3, <1>4, <1>5, <1>6, <1>7, <1>8, <1>9, <1>10, <1>11, <1>12, <1>13

(* Whatever was sent is accepted exactly when the receiver has the right
   key under the right name, the right mode and the right context, and a
   token's time has come and not passed: for every set of messages,
   contexts, claims and lifetimes, and however much was sent. *)
THEOREM AcceptedAsMeant == TrafficSpec => []VerifiesExactlyWhatWasSigned
<1>1. TrafficInv => VerifiesExactlyWhatWasSigned
  <2> SUFFICES ASSUME TrafficInv, NEW e \in sent, NEW h \in BOOLEAN,
                      NEW z \in Contexts \cup {JwtContext, Omitted}
               PROVE  Accepted(e, known, h, z) <=> Meant(e, known, h, z)
    BY DEF VerifiesExactlyWhatWasSigned
  <2>1. Genuine(e) /\ known \in Publics
    BY DEF TrafficInv, SentOk, KeysOk
  <2>2. e.by \in Secrets /\ e.hedged \in BOOLEAN
    BY <2>1 DEF Genuine
  <2>3. CASE MessageSent(e)
    BY <2>1, <2>2, <2>3, MessageAsMeant
  <2>4. CASE JwtSent(e)
    BY <2>1, <2>2, <2>4, JwtAsMeant
  <2>5. CASE CertificateSent(e)
    BY <2>1, <2>2, <2>5, CertificateAsMeant
  <2>6. CASE RawSent(e)
    BY <2>1, <2>2, <2>6, RawAsMeant
  <2>7. CASE StandardSent(e)
    BY <2>1, <2>2, <2>7, StandardAsMeant
  <2>8. CASE CoseSent(e)
    BY <2>1, <2>2, <2>8, CoseAsMeant
  <2> QED
    BY <2>1, <2>3, <2>4, <2>5, <2>6, <2>7, <2>8 DEF Genuine
<1> QED
  BY <1>1, TrafficHolds, PTL
------------------------------------------------------------------------------
(* What a wrapped artefact says, and the context and body it signs. *)
Wraps(e, c, b) ==
  \/ /\ b \in Messages /\ c \in Contexts
     /\ e.what.kind = "message" /\ e.what.cbor.msg = b /\ e.context = c
     /\ Says(e) = <<"message", Signs(e.by.algorithm), b, c>>
  \/ \E claims \in ClaimSets :
       /\ b = JwtBody(e.by.algorithm, claims) /\ c = JwtContext /\ e.what.kind = "jwt"
       /\ Says(e) = <<"jwt", e.by.algorithm, claims>>
  \/ \E cert \in Certificates :
       /\ b = CosigInput(cert) /\ c = CosigContext /\ e.what.kind = "cosig"
       /\ Says(e) = <<"cosig", cert>>

(* Where a primitive signature comes from: the half that made it, its native
   context, what it signs, and what its artefact says. *)
FromV1(e, p) ==
  /\ ~e.by.algorithm.v2 /\ e.what.kind \in Wrappers /\ Sig(e.what).version = 1
  /\ p.native = <<>>
  /\ \E c \in Bytes, b \in Bodies :
       /\ Wraps(e, c, b)
       /\ Sig(e.what).rand \in Randoms /\ Len(Sig(e.what).rand) \in {0, 1}
       /\ p.data = V1Input(c, Sig(e.what).rand, b)
FromV2(e, p) ==
  /\ e.what.kind \in Wrappers
  /\ p.native = Label /\ p.by[2] \in PQCs
  /\ \E c \in Bytes, b \in Bodies : Wraps(e, c, b) /\ p.data = M2(e.by.algorithm, c, b)
FromClassical(e, p) ==
  /\ e.what.kind \in Wrappers /\ Sig(e.what).version = 2
  /\ p.native = <<>> /\ p.by[2] \notin PQCs
  /\ \E c \in Bytes, b \in Bodies :
       Wraps(e, c, b) /\ p.data = Prefixed(M2(e.by.algorithm, c, b))
FromRaw(e, p) ==
  /\ e.what.kind = "raw"
  /\ p.native = e.context /\ p.by[2] \in PQCs
  /\ Says(e) = <<"raw", p.data, p.native>>
FromStandard(e, p) ==
  /\ e.what.kind = "std"
  /\ p.native = <<>> /\ p.by[2] \in PQCs
  /\ \E claims \in ClaimSets : /\ p.data = SigningInput(StandardHeader(e.by.algorithm, "none"), claims)
                               /\ Says(e) = <<"std", e.by.algorithm, claims>>
FromCose(e, p) ==
  /\ e.what.kind = "cose"
  /\ p.native = <<>> /\ p.by[2] \in PQCs
  /\ \E h \in Structures, m \in Bytes, a \in Aads : /\ p.data = SigStructure(h, m, a)
                                                    /\ Says(e) = <<"cose", h, m, a>>

(* One of the six it is. *)
Origin(e, p) ==
  \/ FromV1(e, p) \/ FromV2(e, p) \/ FromClassical(e, p)
  \/ FromRaw(e, p) \/ FromStandard(e, p) \/ FromCose(e, p)

(* The parts of a blob of each format. *)
PartsOf(blob) == {blob.parts[w] : w \in DOMAIN blob.parts \ {"names"}}

(* Every part of a v1 blob signs the v1 bytes under no native context. *)
LEMMA V1Parts ==
  ASSUME NEW own, NEW by, NEW body, NEW c, NEW rand,
         NEW p \in PartsOf(V1Blob(own, by, body, c, rand))
  PROVE  p.data = V1Input(c, rand, body) /\ p.native = <<>>
<1> DEFINE data == V1Input(c, rand, body)
           cls == RawSignature(Half(by, "classical"), <<>>, data)
           pqc == RawSignature(Half(by, "pqc"), <<>>, data)
           names == <<own.suite.classical, own.suite.pqc>>
           parts == IF IsHybrid(own.suite) THEN [classical |-> cls, pqc |-> pqc, names |-> names]
                    ELSE [pqc |-> pqc]
           blob == V1Blob(own, by, body, c, rand)
<1>1. blob = [version |-> 1, rand |-> rand, parts |-> parts]
  BY Zenon DEF V1Blob
<1>2. cls.data = data /\ pqc.data = data /\ cls.native = <<>> /\ pqc.native = <<>>
  BY DEF RawSignature
<1> HIDE DEF data, cls, pqc, names, blob
<1>3. blob.parts = parts
  BY <1>1
<1>4. \A w \in DOMAIN parts \ {"names"} : parts[w] \in {cls, pqc}
  OBVIOUS
<1> HIDE DEF parts
<1>5. p \in PartsOf(blob)
  BY DEF blob
<1>6. p \in {cls, pqc}
  BY <1>3, <1>4, <1>5 DEF PartsOf
<1> QED
  BY <1>2, <1>6 DEF data

(* A part of a v2 blob signs M2 under the label, or is the classical one and
   signs it after the label. *)
LEMMA V2Parts ==
  ASSUME NEW own, NEW by, NEW body, NEW c, own.suite = by.algorithm, by.algorithm \in Suite,
         NEW p \in PartsOf(V2Blob(own, by, body, c))
  PROVE  \/ /\ p.native = Label /\ p.by[2] \in PQCs
            /\ p.data = M2(by.algorithm, c, body)
         \/ /\ p.native = <<>> /\ p.by[2] \notin PQCs
            /\ p.data = Prefixed(M2(by.algorithm, c, body))
<1> DEFINE data == M2(by.algorithm, c, body)
           cls == RawSignature(Half(by, "classical"), <<>>, Prefixed(data))
           pqc == RawSignature(Half(by, "pqc"), Label, data)
           hybrid == IsHybrid(by.algorithm)
           parts == IF hybrid THEN [classical |-> cls, pqc |-> pqc] ELSE [pqc |-> pqc]
           blob == V2Blob(own, by, body, c)
<1>1. blob = [version |-> 2, parts |-> parts]
  BY Zenon DEF V2Blob, Prefixed
<1>2. /\ pqc.data = data /\ pqc.native = Label /\ pqc.by = Half(by, "pqc")
      /\ cls.data = Prefixed(data) /\ cls.native = <<>> /\ cls.by = Half(by, "classical")
  BY DEF RawSignature
<1>3. cls.by[2] \notin PQCs /\ pqc.by[2] \in PQCs
  <2>1. cls.by[2] = by.algorithm.classical /\ pqc.by[2] = by.algorithm.pqc
    BY <1>2, SameHalf
  <2> QED
    BY <2>1 DEF Suite, Classicals, PQCs
<1> HIDE DEF data, cls, pqc, hybrid, blob
<1>4. blob.parts = parts
  BY <1>1
<1>5. \A w \in DOMAIN parts \ {"names"} : parts[w] \in {cls, pqc}
  OBVIOUS
<1> HIDE DEF parts
<1>6. p \in PartsOf(blob)
  BY DEF blob
<1>7. p \in {cls, pqc}
  BY <1>4, <1>5, <1>6 DEF PartsOf
<1> QED
  BY <1>2, <1>3, <1>7 DEF data

(* How v1, and the classical half of v2, begin. *)
LEMMA V1Begins ==
  ASSUME NEW c \in Bytes, NEW r \in Randoms, NEW b \in Bodies
  PROVE  V1Input(c, r, b)[1] = [byte |-> Len(c)]
<1> DEFINE n == Byte(Len(c))
           rest == Cat(c, Cat(r, b))
<1>1. r \in Bytes /\ b \in Bytes
  BY BytesHave DEF Bodies
<1>2. V1Input(c, r, b) = Cat(n, rest) /\ n \in Bytes /\ rest \in Bytes
  BY <1>1, V1Cats
<1>3. n # <<>> /\ n[1] = [byte |-> Len(c)]
  BY Ones
<1> HIDE DEF n, rest
<1> QED
  BY <1>2, <1>3, FirstStays

(* What the classical half of v2 signs begins with the first letter of the
   label. *)
LEMMA PrefixedBegins ==
  ASSUME NEW s \in Suite, NEW c \in Bytes, NEW b \in Bodies
  PROVE  /\ Prefixed(M2(s, c, b)) = Cat(Label \o Byte(0), M2(s, c, b))
         /\ M2(s, c, b) \in Bytes /\ Label \o Byte(0) \in Bytes
         /\ Prefixed(M2(s, c, b))[1] = [byte |-> 113]
<1> DEFINE data == M2(s, c, b)
           zero == Byte(0)
           start == Cat(Label, zero)
<1>1. data \in Bytes
  <2> DEFINE n == Encoded(s)
             rest == Cat(Byte(Len(c)), Cat(c, b))
  <2>1. s \in Structures /\ b \in Bytes
    BY DEF Bodies, Structures
  <2>2. data = Cat(n, rest) /\ n \in Bytes /\ rest \in Bytes
    BY <2>1, M2Cats
  <2> HIDE DEF data, n, rest
  <2> QED
    BY <2>2, CatTyped
<1>2. zero \in Bytes
  BY BytesHave
<1>3. Prefixed(data) = Cat(start, data) /\ start = Label \o Byte(0)
  BY Zenon DEF Prefixed, Cat
<1> HIDE DEF data, zero
<1>4. start \in Bytes /\ start # <<>> /\ start[1] = [byte |-> 113]
  BY <1>2, LabelBegins, CatTyped, FirstStays
<1> HIDE DEF start
<1>5. Cat(start, data)[1] = [byte |-> 113]
  BY <1>1, <1>4, FirstStays
<1> QED
  BY <1>1, <1>3, <1>4, <1>5 DEF data

(* Where each primitive signature comes from. *)
LEMMA WrappedOrigin ==
  ASSUME NEW e, e.by \in Secrets, e.hedged \in BOOLEAN, NEW n \in Nat,
         NEW c \in Bytes, NEW b \in Bodies, Wraps(e, c, b), e.what.kind \in Wrappers,
         Sig(e.what) = Wrapped(e, b, c, n).signature,
         NEW p \in Primitives(e.what)
  PROVE  Origin(e, p)
<1> DEFINE own == Own(e)
           rand == Hedge(own, n)
           s == e.by.algorithm
           sig == Sig(e.what)
<1>1. own.suite = s /\ own.hedged = e.hedged /\ own.hedged \in BOOLEAN /\ s \in Suite /\ s.v2 \in BOOLEAN
  BY DEF Own, Secrets, Suite
<1>2. rand \in Randoms /\ Len(rand) \in {0, 1}
  <2> HIDE DEF own
  <2>1. Hedge(own, n) \in Randoms /\ Len(Hedge(own, n)) = IF own.hedged THEN 1 ELSE 0
    BY <1>1, Random
  <2> QED
    BY <1>1, <2>1
<1>3. sig = IF own.suite.v2 THEN V2Blob(own, e.by, b, c) ELSE V1Blob(own, e.by, b, c, rand)
  BY DEF Wrapped, Signed
<1>4. p \in PartsOf(sig)
  BY DEF Primitives, PartsOf
<1> HIDE DEF own, rand
<1>5. CASE s.v2
  <2>1. sig = V2Blob(own, e.by, b, c)
    BY <1>1, <1>3, <1>5
  <2>2. sig.version = 2
    BY <2>1 DEF V2Blob
  <2>3. \/ p.native = Label /\ p.by[2] \in PQCs /\ p.data = M2(s, c, b)
        \/ p.native = <<>> /\ p.by[2] \notin PQCs /\ p.data = Prefixed(M2(s, c, b))
    <3>1. p \in PartsOf(V2Blob(own, e.by, b, c))
      BY <1>4, <2>1
    <3> QED
      BY <1>1, <3>1, V2Parts
  <2> HIDE DEF sig
  <2> QED
    BY <2>2, <2>3 DEF Origin, FromV2, FromClassical, sig
<1>6. CASE ~s.v2
  <2>1. sig = V1Blob(own, e.by, b, c, rand)
    BY <1>1, <1>3, <1>6
  <2>2. sig.version = 1 /\ sig.rand = rand
    BY <2>1 DEF V1Blob
  <2>3. p.data = V1Input(c, rand, b) /\ p.native = <<>>
    BY <1>4, <2>1, V1Parts
  <2> HIDE DEF sig
  <2> QED
    BY <1>2, <1>6, <2>2, <2>3 DEF Origin, FromV1, sig
<1> QED
  BY <1>1, <1>5, <1>6

(* A message is wrapped under the context the application chose. *)
LEMMA MessageOrigin ==
  ASSUME NEW e, e.by \in Secrets, e.hedged \in BOOLEAN, MessageSent(e), NEW p \in Primitives(e.what)
  PROVE  Origin(e, p)
<1>1. PICK m \in Messages, c \in Contexts, n \in Nat :
        /\ BuildRefusal(Own(e)) = "built" /\ ~TooLong(c) /\ m # <<>>
        /\ e.what = [kind |-> "message", cbor |-> ToCbor(Wrapped(e, m, c, n))]
        /\ e.context = c
  BY DEF MessageSent
<1>2. m \in Bodies /\ c \in Bytes
  BY <1>1, Passed DEF Bodies
<1> DEFINE w == Wrapped(e, m, c, n)
<1>3. w.message = m /\ w.context = c /\ w.algorithm = e.by.algorithm
  BY DEF Wrapped, Signed, Own
<1> HIDE DEF w
<1>4. /\ e.what.kind = "message" /\ e.what.cbor.msg = m /\ e.what.cbor.ctx = c
      /\ e.what.cbor.algo = e.by.algorithm /\ e.what.cbor.sig = w.signature
  BY <1>1, <1>3 DEF ToCbor, w
<1>5. Sig(e.what) = w.signature /\ e.what.kind \in Wrappers
  BY <1>4 DEF Sig, Wrappers
<1>6. Wraps(e, c, m)
  BY <1>1, <1>4 DEF Wraps, Says
<1> QED
  BY <1>2, <1>5, <1>6, WrappedOrigin DEF w

(* A JWT is wrapped under a context of its own. *)
LEMMA JwtOrigin ==
  ASSUME NEW e, e.by \in Secrets, e.hedged \in BOOLEAN, JwtSent(e), NEW p \in Primitives(e.what)
  PROVE  Origin(e, p)
<1>1. PICK claims \in ClaimSets, n \in Nat :
        /\ BuildRefusal(Own(e)) = "built"
        /\ e.what = [kind |-> "jwt", alg |-> e.by.algorithm, claims |-> claims,
                     signature |-> Wrapped(e, JwtBody(e.by.algorithm, claims), JwtContext, n).signature]
        /\ e.context = JwtContext
  BY DEF JwtSent
<1> DEFINE b == JwtBody(e.by.algorithm, claims)
           sig == Wrapped(e, b, JwtContext, n).signature
<1>2. b \in Bodies /\ JwtContext \in Bytes
  BY JwtBodies, ContextsDiffer DEF Secrets, Aads
<1>3. e.what.kind = "jwt" /\ e.what.alg = e.by.algorithm /\ e.what.claims = claims /\ e.what.signature = sig
  BY <1>1
<1>4. Says(e) = <<"jwt", e.by.algorithm, claims>>
  BY <1>3 DEF Says
<1>5. Wraps(e, JwtContext, b)
  BY <1>3, <1>4 DEF Wraps
<1> HIDE DEF b
<1>6. Sig(e.what) = sig /\ e.what.kind \in Wrappers
  <2> HIDE DEF sig
  <2> QED
    BY <1>3 DEF Sig, Wrappers
<1> QED
  BY <1>2, <1>5, <1>6, WrappedOrigin

(* A co-signature is wrapped under a context of its own. *)
LEMMA CertificateOrigin ==
  ASSUME NEW e, e.by \in Secrets, e.hedged \in BOOLEAN, CertificateSent(e), NEW p \in Primitives(e.what)
  PROVE  Origin(e, p)
<1>1. PICK pair \in Pairs, n \in Nat :
        /\ BuildRefusal(Own(e)) = "built"
        /\ e.what = [kind |-> "cosig", cert |-> Certificate("cn", pair), algo |-> e.by.algorithm,
                     signature |-> Wrapped(e, CosigInput(Certificate("cn", pair)), CosigContext, n).signature,
                     context |-> CosigContext, fp |-> Fingerprint(pair.public)]
  BY DEF CertificateSent
<1> DEFINE cert == Certificate("cn", pair)
           b == CosigInput(cert)
           sig == Wrapped(e, b, CosigContext, n).signature
<1>2. cert \in Certificates
  BY DEF Certificates
<1>3. b \in Bodies /\ CosigContext \in Bytes
  BY <1>2, CosigBodies, ContextsDiffer DEF Aads
<1>4. e.what.kind = "cosig" /\ e.what.cert = cert /\ e.what.signature = sig
  BY <1>1
<1> HIDE DEF cert
<1>5. Says(e) = <<"cosig", cert>>
  BY <1>4 DEF Says
<1>6. Wraps(e, CosigContext, b)
  BY <1>2, <1>4, <1>5 DEF Wraps
<1> HIDE DEF b
<1>7. Sig(e.what) = sig /\ e.what.kind \in Wrappers
  <2> HIDE DEF sig
  <2> QED
    BY <1>4 DEF Sig, Wrappers
<1> QED
  BY <1>3, <1>6, <1>7, WrappedOrigin

(* A raw signature is by the ML-DSA half and signs what it was given. *)
LEMMA RawHas ==
  ASSUME NEW by, by \in Secrets, NEW data, NEW c
  PROVE  /\ SignRaw(by, data, c).data = data /\ SignRaw(by, data, c).native = c
         /\ SignRaw(by, data, c).by[2] \in PQCs
<1>1. /\ SignRaw(by, data, c).data = data /\ SignRaw(by, data, c).native = c
      /\ SignRaw(by, data, c).by = Half(by, "pqc")
  BY DEF SignRaw, RawSignature
<1>2. Half(by, "pqc")[2] \in PQCs
  BY SameHalf DEF Secrets, Suite
<1> QED
  BY <1>1, <1>2

(* sign_raw signs the message as it is, under the native context. *)
LEMMA RawOrigin ==
  ASSUME NEW e, e.by \in Secrets, RawSent(e), NEW p \in Primitives(e.what)
  PROVE  Origin(e, p)
<1>1. PICK m \in Messages, c \in Contexts :
        /\ ~IsHybrid(e.by.algorithm) /\ ~TooLong(c)
        /\ e.what = [kind |-> "raw", message |-> m, signature |-> SignRaw(e.by, m, c)]
        /\ e.context = c
  BY DEF RawSent
<1> DEFINE sig == SignRaw(e.by, m, c)
<1>2. e.what.kind = "raw" /\ e.what.message = m /\ e.what.signature = sig
  BY <1>1
<1>3. sig.data = m /\ sig.native = c /\ sig.by[2] \in PQCs
  BY RawHas
<1> HIDE DEF sig
<1>4. p = sig
  BY <1>2 DEF Primitives, Sig, Wrappers
<1>5. Says(e) = <<"raw", m, c>>
  BY <1>1, <1>2 DEF Says
<1> QED
  BY <1>1, <1>2, <1>3, <1>4, <1>5 DEF Origin, FromRaw

(* An RFC 9964 token signs its header and claims. *)
LEMMA StandardOrigin ==
  ASSUME NEW e, e.by \in Secrets, StandardSent(e), NEW p \in Primitives(e.what)
  PROVE  Origin(e, p)
<1>1. PICK claims \in ClaimSets :
        /\ JoseAlg(e.by.algorithm)
        /\ e.what = [kind |-> "std", alg |-> e.by.algorithm, kid |-> "none", claims |-> claims,
                     signature |-> SignRaw(e.by, SigningInput(StandardHeader(e.by.algorithm, "none"), claims), <<>>)]
  BY DEF StandardSent
<1> DEFINE data == SigningInput(StandardHeader(e.by.algorithm, "none"), claims)
           sig == SignRaw(e.by, data, <<>>)
<1>2. e.what.kind = "std" /\ e.what.alg = e.by.algorithm /\ e.what.claims = claims /\ e.what.signature = sig
  BY <1>1
<1>3. sig.data = data /\ sig.native = <<>> /\ sig.by[2] \in PQCs
  BY RawHas
<1> HIDE DEF data, sig
<1>4. p = sig
  BY <1>2 DEF Primitives, Sig, Wrappers
<1>5. Says(e) = <<"std", e.by.algorithm, claims>>
  BY <1>2 DEF Says
<1> QED
  BY <1>2, <1>3, <1>4, <1>5 DEF Origin, FromStandard, data

(* A COSE object signs its header, external data and payload. *)
LEMMA CoseOrigin ==
  ASSUME NEW e, e.by \in Secrets, CoseSent(e), NEW p \in Primitives(e.what)
  PROVE  Origin(e, p)
<1>1. PICK m \in Messages, a \in Contexts : \E d \in BOOLEAN :
        /\ JoseAlg(e.by.algorithm)
        /\ e.what = Sign1(m, e.by, "none", a, d)
        /\ e.payload = m /\ e.context = a
  BY DEF CoseSent
<1>2. PICK d \in BOOLEAN :
        /\ JoseAlg(e.by.algorithm)
        /\ e.what = Sign1(m, e.by, "none", a, d)
        /\ e.payload = m /\ e.context = a
  BY <1>1
<1> DEFINE h == StandardHeader(e.by.algorithm, "none")
           data == SigStructure(h, m, a)
           sig == SignRaw(e.by, data, <<>>)
<1>3. e.what.kind = "cose" /\ e.what.protected = h /\ e.what.signature = sig
  BY <1>2 DEF Sign1, StandardHeader
<1>4. h \in Structures /\ m \in Bytes /\ a \in Aads
  BY Passed DEF Structures, Secrets, Aads
<1>5. sig.data = data /\ sig.native = <<>> /\ sig.by[2] \in PQCs
  BY RawHas
<1> HIDE DEF h, sig
<1>6. p = sig
  BY <1>3 DEF Primitives, Sig, Wrappers
<1>7. Says(e) = <<"cose", h, m, a>>
  BY <1>2, <1>3 DEF Says
<1> HIDE DEF data
<1> QED
  BY <1>3, <1>4, <1>5, <1>6, <1>7 DEF Origin, FromCose, data

(* Two artefacts that wrap the same body under the same context, for the same
   key half. *)
LEMMA SameWrapped ==
  ASSUME NEW d, NEW e, d.by \in Secrets, e.by \in Secrets, NEW c, NEW b,
         Wraps(d, c, b), Wraps(e, c, b), Signs(d.by.algorithm) = Signs(e.by.algorithm)
  PROVE  Says(d) = Says(e)
<1>1. c \in Contexts => c # JwtContext /\ c # CosigContext
  BY TrafficAssumption
<1>2. JwtContext # CosigContext
  BY ContextsDiffer
<1>3. CASE c \in Contexts
  BY <1>1, <1>3 DEF Wraps
<1>4. CASE c = JwtContext
  <2>1. PICK f \in ClaimSets : b = JwtBody(d.by.algorithm, f) /\ Says(d) = <<"jwt", d.by.algorithm, f>>
    BY <1>1, <1>2, <1>4 DEF Wraps
  <2>2. PICK g \in ClaimSets : b = JwtBody(e.by.algorithm, g) /\ Says(e) = <<"jwt", e.by.algorithm, g>>
    BY <1>1, <1>2, <1>4 DEF Wraps
  <2>3. d.by.algorithm = e.by.algorithm /\ f = g
    <3>1. d.by.algorithm \in Suite /\ e.by.algorithm \in Suite
      BY DEF Secrets
    <3> DEFINE s == d.by.algorithm
               v == e.by.algorithm
    <3> HIDE DEF s, v
    <3>2. s \in Suite /\ v \in Suite /\ JwtBody(s, f) = JwtBody(v, g)
      BY <2>1, <2>2, <3>1 DEF s, v
    <3>3. \A x \in Suite, y \in ClaimSets : JwtBody(s, f) = JwtBody(x, y) => s = x /\ f = y
      BY <3>2, JwtBodies
    <3> QED
      BY <3>2, <3>3 DEF s, v
  <2> QED
    BY <2>1, <2>2, <2>3
<1>5. CASE c = CosigContext
  <2>1. PICK f \in Certificates : b = CosigInput(f) /\ Says(d) = <<"cosig", f>>
    BY <1>1, <1>2, <1>5 DEF Wraps
  <2>2. PICK g \in Certificates : b = CosigInput(g) /\ Says(e) = <<"cosig", g>>
    BY <1>1, <1>2, <1>5 DEF Wraps
  <2>3. f = g
    BY <2>1, <2>2, CosigBodies
  <2> QED
    BY <2>1, <2>2, <2>3
<1> QED
  BY <1>3, <1>4, <1>5 DEF Wraps

(* v1 suites with one ML-DSA half sign alike. *)
LEMMA SameSigns ==
  ASSUME NEW s \in Suite, NEW v \in Suite, ~s.v2, ~v.v2, s.pqc = v.pqc
  PROVE  Signs(s) = Signs(v)
<1> DEFINE x == [s EXCEPT !.classical = "none"]
           y == [v EXCEPT !.classical = "none"]
<1>1. Signs(s) = x /\ Signs(v) = y
  BY DEF Signs
<1>2. /\ x \in Suite /\ y \in Suite /\ x.classical = y.classical /\ x.pqc = y.pqc /\ x.v2 = y.v2
  BY DEF Suite, Classicals
<1>3. \A f, g \in Suite : f.classical = g.classical /\ f.pqc = g.pqc /\ f.v2 = g.v2 => f = g
  BY DEF Suite
<1> HIDE DEF x, y
<1> QED
  BY <1>1, <1>2, <1>3

(* So do the bytes that the classical half of v2 signs. *)
LEMMA SamePrefixed ==
  ASSUME NEW s \in Suite, NEW v \in Suite, NEW c \in Bytes, NEW d \in Bytes,
         NEW b \in Bodies, NEW g \in Bodies,
         Prefixed(M2(s, c, b)) = Prefixed(M2(v, d, g))
  PROVE  s = v /\ c = d /\ b = g
<1> DEFINE start == Label \o Byte(0)
           m == M2(s, c, b)
           n == M2(v, d, g)
<1>1. /\ start \in Bytes /\ m \in Bytes /\ n \in Bytes
      /\ Cat(start, m) = Cat(start, n)
  BY PrefixedBegins
<1> HIDE DEF start, m, n
<1>2. m = n
  BY <1>1, CatApart
<1> QED
  BY <1>2, SameM2 DEF m, n

(* Of two v1 artefacts that sign the same, the randomness of one may be the
   start of the message of the other; the library's own messages do not start
   with randomness. *)
LEMMA BothV1 ==
  ASSUME NEW d, NEW e, d.by \in Secrets, e.by \in Secrets, d.by.algorithm.pqc = e.by.algorithm.pqc,
         NEW p, FromV1(d, p), FromV1(e, p)
  PROVE  Says(d) = Says(e) \/ MayPassFor(d, e) \/ MayPassFor(e, d)
<1> DEFINE r == Sig(d.what).rand
           u == Sig(e.what).rand
<1>1. PICK c \in Bytes, b \in Bodies :
        Wraps(d, c, b) /\ r \in Randoms /\ Len(r) \in {0, 1} /\ p.data = V1Input(c, r, b)
  BY DEF FromV1
<1>2. PICK x \in Bytes, g \in Bodies :
        Wraps(e, x, g) /\ u \in Randoms /\ Len(u) \in {0, 1} /\ p.data = V1Input(x, u, g)
  BY DEF FromV1
<1>3. Sig(d.what).version = 1 /\ Sig(e.what).version = 1
  BY DEF FromV1
<1>4. /\ \A k \in Bytes : Len(k) = 1 => k # <<>>
      /\ \A k \in Bytes : Len(k) = 0 => k = <<>> /\ \A l \in Bytes : Cat(k, l) = l
  <2>1. ASSUME NEW k \in Bytes, Len(k) = 1 PROVE k # <<>>
    <3>1. ASSUME k = <<>> PROVE FALSE
      BY <2>1, <3>1
    <3> QED
      BY <3>1
  <2>2. \A k \in Bytes : Len(k) = 0 => k = <<>> /\ \A l \in Bytes : Cat(k, l) = l
    BY DEF Bytes, Cat
  <2> QED
    BY <2>1, <2>2
<1> HIDE DEF r, u
<1>5. c = x /\ Cat(r, b) = Cat(u, g) /\ (Len(r) = Len(u) => r = u /\ b = g)
  <2>1. V1Input(c, r, b) = V1Input(x, u, g)
    BY <1>1, <1>2
  <2> QED
    BY <1>1, <1>2, <2>1, V1Framed
<1>6. CASE Len(r) = Len(u)
  <2>1. Signs(d.by.algorithm) = Signs(e.by.algorithm)
    BY SameSigns DEF FromV1, Secrets
  <2>2. Wraps(e, c, b)
    BY <1>2, <1>5, <1>6
  <2> QED
    BY <1>1, <2>1, <2>2, SameWrapped
<1>7. r \in Bytes /\ u \in Bytes /\ b \in Bytes /\ g \in Bytes
  BY <1>1, <1>2, BytesHave DEF Bodies
<1>8. ASSUME NEW f, f.by.algorithm \in Suite, NEW k \in Bytes, NEW l \in Bodies, Wraps(f, k, l)
      PROVE  \/ f.what.kind = "message" /\ k \in Contexts /\ f.what.cbor.msg = l /\ f.context = k
             \/ k \in {JwtContext, CosigContext} /\ l[1] \notin [random: Nat] /\ k \notin Contexts
  <2>1. CASE l \in Messages /\ k \in Contexts /\ f.what.kind = "message" /\ f.what.cbor.msg = l
             /\ f.context = k
    BY <2>1
  <2>2. ASSUME NEW claims \in ClaimSets, l = JwtBody(f.by.algorithm, claims), k = JwtContext
        PROVE  k \in {JwtContext, CosigContext} /\ l[1] \notin [random: Nat] /\ k \notin Contexts
    BY <1>8, <2>2, JwtBodies, TrafficAssumption
  <2>3. ASSUME NEW cert \in Certificates, l = CosigInput(cert), k = CosigContext
        PROVE  k \in {JwtContext, CosigContext} /\ l[1] \notin [random: Nat] /\ k \notin Contexts
    BY <2>3, CosigBodies, TrafficAssumption
  <2> QED
    BY <1>8, <2>1, <2>2, <2>3 DEF Wraps
<1>9. CASE d.what.kind = "message" /\ e.what.kind = "message" /\ Len(r) # Len(u)
  <2>1. /\ d.what.cbor.msg = b /\ d.context = c /\ e.what.cbor.msg = g /\ e.context = x
    BY <1>1, <1>2, <1>9 DEF Wraps
  <2>2. CASE Len(r) = 0 /\ Len(u) = 1
    <3>0. Len(r) = 0 /\ r \in Bytes /\ b \in Bytes /\ u # <<>>
      BY <1>4, <1>7, <2>2
    <3>1. b = Cat(u, g) /\ u # <<>>
      <4>1. Cat(r, b) = b
        BY <1>4, <3>0
      <4> QED
        BY <1>5, <3>0, <4>1
    <3>2. b = u \o g
      BY <3>1 DEF Cat
    <3> QED
      BY <1>3, <1>5, <1>9, <2>1, <3>1, <3>2 DEF MayPassFor, u
  <2>3. CASE Len(r) = 1 /\ Len(u) = 0
    <3>0. Len(u) = 0 /\ u \in Bytes /\ g \in Bytes /\ r # <<>>
      BY <1>4, <1>7, <2>3
    <3>1. g = Cat(r, b) /\ r # <<>>
      <4>1. Cat(u, g) = g
        BY <1>4, <3>0
      <4> QED
        BY <1>5, <3>0, <4>1
    <3>2. g = r \o b
      BY <3>1 DEF Cat
    <3> QED
      BY <1>3, <1>5, <1>9, <2>1, <3>1, <3>2 DEF MayPassFor, r
  <2> QED
    BY <1>1, <1>2, <1>9, <2>2, <2>3
<1>10. CASE ~(d.what.kind = "message" /\ e.what.kind = "message") /\ Len(r) # Len(u)
  <2>1. d.by.algorithm \in Suite /\ e.by.algorithm \in Suite
    BY DEF Secrets
  <2>2. b[1] \notin [random: Nat] /\ g[1] \notin [random: Nat]
    BY <1>1, <1>2, <1>5, <1>8, <1>10, <2>1
  <2>3. (Len(r) = 1 /\ Len(u) = 0) \/ (Len(u) = 1 /\ Len(r) = 0)
    BY <1>1, <1>2, <1>10
  <2> QED
    BY <1>1, <1>2, <1>5, <2>2, <2>3, RandomnessShows
<1> QED
  BY <1>6, <1>9, <1>10

(* What is signed raw may be anything that is signed without a label or
   under v2's. *)
LEMMA RawPasses ==
  ASSUME NEW d, NEW e, NEW p, FromRaw(d, p), Origin(e, p)
  PROVE  Says(d) = Says(e) \/ MayPassFor(d, e)
<1>1. CASE FromRaw(e, p)
  BY <1>1 DEF FromRaw
<1>2. ASSUME ~FromRaw(e, p) PROVE p.native \in {<<>>, Label} /\ e.what.kind # "raw"
  BY <1>2 DEF Origin, FromV1, FromV2, FromClassical, FromStandard, FromCose, Wrappers
<1> QED
  BY <1>1, <1>2 DEF FromRaw, MayPassFor

(* The library's own contexts are too short to be taken for the start of
   anything else. *)
LEMMA V1Others ==
  ASSUME NEW d, NEW e, d.by \in Secrets, e.by \in Secrets, NEW p, FromV1(d, p),
         FromClassical(e, p) \/ FromStandard(e, p) \/ FromCose(e, p)
  PROVE  MayPassFor(d, e)
<1>1. PICK c \in Bytes, b \in Bodies :
        /\ Wraps(d, c, b) /\ Sig(d.what).rand \in Randoms
        /\ p.data = V1Input(c, Sig(d.what).rand, b)
  BY DEF FromV1
<1>2. p.data[1] = [byte |-> Len(c)]
  BY <1>1, V1Begins
<1>3. \A n : p.data[1] = [byte |-> n] => Len(c) = n
  <2>1. \A n, m : [byte |-> n].byte = n
    OBVIOUS
  <2> QED
    BY <1>2, <2>1
<1>4. Len(c) = 1 \/ (d.what.kind = "message" /\ d.context = c)
  BY <1>1, ContextsDiffer DEF Wraps
<1>5. Sig(d.what).version = 1
  BY DEF FromV1
<1>6. CASE FromClassical(e, p)
  <2>1. PICK x \in Bytes, g \in Bodies : p.data = Prefixed(M2(e.by.algorithm, x, g))
    BY <1>6 DEF FromClassical
  <2>2. e.by.algorithm \in Suite
    BY DEF Secrets
  <2>3. Prefixed(M2(e.by.algorithm, x, g))[1] = [byte |-> 113]
    <3> DEFINE s == e.by.algorithm
    <3> HIDE DEF s
    <3>1. s \in Suite
      BY <2>2 DEF s
    <3>2. Prefixed(M2(s, x, g))[1] = [byte |-> 113]
      BY <3>1, PrefixedBegins
    <3> QED
      BY <3>2 DEF s
  <2>4. Len(c) = 113
    BY <1>3, <2>1, <2>3
  <2> QED
    BY <1>4, <1>5, <1>6, <2>4 DEF MayPassFor, FromClassical
<1>7. CASE FromStandard(e, p)
  <2>1. PICK claims \in ClaimSets : p.data = SigningInput(StandardHeader(e.by.algorithm, "none"), claims)
    BY <1>7 DEF FromStandard
  <2> DEFINE h == StandardHeader(e.by.algorithm, "none")
  <2>2. h \in Structures /\ claims \in Structures
    BY DEF Structures, Secrets
  <2> HIDE DEF h
  <2>3. SigningInput(h, claims)[1] = [byte |-> 101]
    BY <2>2, TokenInput
  <2>4. Len(c) = 101
    BY <1>3, <2>1, <2>3 DEF h
  <2> QED
    BY <1>4, <1>5, <1>7, <2>4 DEF MayPassFor, FromStandard
<1>8. CASE FromCose(e, p)
  <2>1. PICK h \in Structures, m \in Bytes, a \in Aads : p.data = SigStructure(h, m, a)
    BY <1>8 DEF FromCose
  <2>2. SigStructure(h, m, a)[1] = [byte |-> 132]
    BY CoseInput
  <2>3. Len(c) = 132
    BY <1>3, <2>1, <2>2
  <2> QED
    BY <1>4, <1>5, <1>8, <2>3 DEF MayPassFor, FromCose
<1> QED
  BY <1>6, <1>7, <1>8

(* Two v2 signatures, by the ML-DSA half or by the classical one. *)
LEMMA BothV2 ==
  ASSUME NEW d, NEW e, d.by \in Secrets, e.by \in Secrets, NEW p,
         \/ FromV2(d, p) /\ FromV2(e, p)
         \/ FromClassical(d, p) /\ FromClassical(e, p)
  PROVE  Says(d) = Says(e)
<1> DEFINE s == d.by.algorithm
           v == e.by.algorithm
<1>1. PICK c \in Bytes, b \in Bodies, x \in Bytes, g \in Bodies :
        /\ Wraps(d, c, b) /\ Wraps(e, x, g)
        /\ M2(s, c, b) = M2(v, x, g) \/ Prefixed(M2(s, c, b)) = Prefixed(M2(v, x, g))
  BY DEF FromV2, FromClassical
<1>2. s \in Suite /\ v \in Suite
  BY DEF Secrets
<1> HIDE DEF s, v
<1>3. s = v /\ c = x /\ b = g
  <2>1. M2(s, c, b) = M2(v, x, g) => s = v /\ c = x /\ b = g
    BY <1>2, SameM2
  <2>2. Prefixed(M2(s, c, b)) = Prefixed(M2(v, x, g)) => s = v /\ c = x /\ b = g
    BY <1>2, SamePrefixed
  <2> QED
    BY <1>1, <2>1, <2>2
<1> QED
  BY <1>1, <1>3, SameWrapped DEF s, v

(* Two RFC 9964 tokens. *)
LEMMA BothStandard ==
  ASSUME NEW d, NEW e, d.by \in Secrets, e.by \in Secrets, NEW p, FromStandard(d, p), FromStandard(e, p)
  PROVE  Says(d) = Says(e)
<1> DEFINE i == StandardHeader(d.by.algorithm, "none")
           j == StandardHeader(e.by.algorithm, "none")
<1>1. PICK f \in ClaimSets : p.data = SigningInput(i, f) /\ Says(d) = <<"std", d.by.algorithm, f>>
  BY DEF FromStandard
<1>2. PICK g \in ClaimSets : p.data = SigningInput(j, g) /\ Says(e) = <<"std", e.by.algorithm, g>>
  BY DEF FromStandard
<1>3. /\ i \in Structures /\ j \in Structures /\ f \in Structures /\ g \in Structures
      /\ i.alg = d.by.algorithm /\ j.alg = e.by.algorithm
  BY DEF Structures, StandardHeader, Secrets
<1> HIDE DEF i, j
<1>4. i = j /\ f = g
  <2>1. \A k, l \in Structures : SigningInput(i, f) = SigningInput(k, l) => i = k /\ f = l
    BY <1>3, TokenInput
  <2> QED
    BY <1>1, <1>2, <1>3, <2>1
<1> QED
  BY <1>1, <1>2, <1>3, <1>4

(* Two COSE objects. *)
LEMMA BothCose ==
  ASSUME NEW d, NEW e, NEW p, FromCose(d, p), FromCose(e, p)
  PROVE  Says(d) = Says(e)
<1>1. PICK h \in Structures, m \in Bytes, a \in Aads :
        p.data = SigStructure(h, m, a) /\ Says(d) = <<"cose", h, m, a>>
  BY DEF FromCose
<1>2. PICK i \in Structures, n \in Bytes, b \in Aads :
        p.data = SigStructure(i, n, b) /\ Says(e) = <<"cose", i, n, b>>
  BY DEF FromCose
<1>3. h = i /\ a = b /\ m = n
  <2>1. \A w \in Structures, x \in Aads, y \in Bytes :
          SigStructure(h, m, a) = SigStructure(w, y, x) => h = w /\ a = x /\ m = y
    BY CoseInput
  <2> QED
    BY <1>1, <1>2, <2>1
<1> QED
  BY <1>1, <1>2, <1>3

(* The label, the half or the first letter tells these apart. *)
LEMMA NeverBoth ==
  ASSUME NEW d, NEW e, d.by \in Secrets, NEW p
  PROVE  /\ FromV2(d, p) => ~FromV1(e, p) /\ ~FromClassical(e, p) /\ ~FromStandard(e, p) /\ ~FromCose(e, p)
         /\ FromClassical(d, p) => ~FromStandard(e, p) /\ ~FromCose(e, p)
         /\ FromStandard(d, p) => ~FromCose(e, p)
<1>1. FromV2(d, p) => ~FromV1(e, p) /\ ~FromClassical(e, p) /\ ~FromStandard(e, p) /\ ~FromCose(e, p)
  BY ContextsDiffer DEF FromV2, FromV1, FromClassical, FromStandard, FromCose
<1>2. FromClassical(d, p) => ~FromStandard(e, p) /\ ~FromCose(e, p)
  BY DEF FromClassical, FromStandard, FromCose
<1>3. ASSUME FromStandard(d, p), FromCose(e, p) PROVE FALSE
  <2>1. PICK claims \in ClaimSets : p.data = SigningInput(StandardHeader(d.by.algorithm, "none"), claims)
    BY <1>3 DEF FromStandard
  <2>2. PICK h \in Structures, m \in Bytes, a \in Aads : p.data = SigStructure(h, m, a)
    BY <1>3 DEF FromCose
  <2> DEFINE i == StandardHeader(d.by.algorithm, "none")
  <2>3. i \in Structures /\ claims \in Structures
    BY DEF Structures, Secrets
  <2> HIDE DEF i
  <2>4. SigningInput(i, claims)[1] = [byte |-> 101]
    BY <2>3, TokenInput
  <2>5. SigStructure(h, m, a)[1] = [byte |-> 132]
    BY CoseInput
  <2>6. [byte |-> 101].byte # [byte |-> 132].byte
    OBVIOUS
  <2> QED
    BY <2>1, <2>2, <2>4, <2>5, <2>6 DEF i
<1> QED
  BY <1>1, <1>2, <1>3

(* Where the primitive signatures of what was sent come from. *)
LEMMA EveryOrigin ==
  ASSUME NEW e, Genuine(e), NEW p \in Primitives(e.what)
  PROVE  Origin(e, p) /\ e.by \in Secrets
<1>1. e.by \in Secrets /\ e.hedged \in BOOLEAN
  BY DEF Genuine
<1>2. CASE MessageSent(e)
  BY <1>1, <1>2, MessageOrigin
<1>3. CASE JwtSent(e)
  BY <1>1, <1>3, JwtOrigin
<1>4. CASE CertificateSent(e)
  BY <1>1, <1>4, CertificateOrigin
<1>5. CASE RawSent(e)
  BY <1>1, <1>5, RawOrigin
<1>6. CASE StandardSent(e)
  BY <1>1, <1>6, StandardOrigin
<1>7. CASE CoseSent(e)
  BY <1>1, <1>7, CoseOrigin
<1> QED
  BY <1>1, <1>2, <1>3, <1>4, <1>5, <1>6, <1>7 DEF Genuine

(* One primitive signature, two artefacts. *)
LEMMA SharedSaysTheSame ==
  ASSUME NEW d, NEW e, Genuine(d), Genuine(e), d.by.algorithm.pqc = e.by.algorithm.pqc,
         NEW p \in Primitives(d.what), p \in Primitives(e.what)
  PROVE  Says(d) = Says(e) \/ MayPassFor(d, e) \/ MayPassFor(e, d)
<1>1. Origin(d, p) /\ Origin(e, p) /\ d.by \in Secrets /\ e.by \in Secrets
  BY EveryOrigin
<1>2. CASE FromRaw(d, p) \/ FromRaw(e, p)
  BY <1>1, <1>2, RawPasses
<1>3. CASE FromV1(d, p) /\ FromV1(e, p)
  BY <1>1, <1>3, BothV1
<1>4. CASE FromV1(d, p) /\ (FromClassical(e, p) \/ FromStandard(e, p) \/ FromCose(e, p))
  BY <1>1, <1>4, V1Others
<1>5. CASE FromV1(e, p) /\ (FromClassical(d, p) \/ FromStandard(d, p) \/ FromCose(d, p))
  BY <1>1, <1>5, V1Others
<1>6. CASE (FromV2(d, p) /\ FromV2(e, p)) \/ (FromClassical(d, p) /\ FromClassical(e, p))
  BY <1>1, <1>6, BothV2
<1>7. CASE FromStandard(d, p) /\ FromStandard(e, p)
  BY <1>1, <1>7, BothStandard
<1>8. CASE FromCose(d, p) /\ FromCose(e, p)
  BY <1>8, BothCose
<1>9. /\ FromV2(d, p) => ~FromV1(e, p) /\ ~FromClassical(e, p) /\ ~FromStandard(e, p) /\ ~FromCose(e, p)
      /\ FromClassical(d, p) => ~FromStandard(e, p) /\ ~FromCose(e, p)
      /\ FromStandard(d, p) => ~FromCose(e, p)
      /\ FromV2(e, p) => ~FromV1(d, p) /\ ~FromClassical(d, p) /\ ~FromStandard(d, p) /\ ~FromCose(d, p)
      /\ FromClassical(e, p) => ~FromStandard(d, p) /\ ~FromCose(d, p)
      /\ FromStandard(e, p) => ~FromCose(d, p)
  BY <1>1, NeverBoth
<1> QED
  BY <1>1, <1>2, <1>3, <1>4, <1>5, <1>6, <1>7, <1>8, <1>9, Zenon DEF Origin

(* Two artefacts that share a primitive signature say the same, unless one
   is a raw signature, a v1 message under a context of 101, 113 or 132 bytes
   or a v1 message that begins with the randomness of the other: whatever
   bytes applications choose as messages and contexts, however long encoded
   structures are, and however many artefacts the key has signed. *)
THEOREM NeverShared == TrafficSpec => []SignaturesNotShared
<1>1. TrafficInv => SignaturesNotShared
  <2> SUFFICES ASSUME TrafficInv, NEW d \in sent, NEW e \in sent,
                      NEW p \in Primitives(d.what), p \in Primitives(e.what)
               PROVE  Says(d) = Says(e) \/ MayPassFor(d, e) \/ MayPassFor(e, d)
    BY DEF SignaturesNotShared
  <2>1. Genuine(d) /\ Genuine(e) /\ d.by.algorithm.pqc = e.by.algorithm.pqc
    BY DEF TrafficInv, SentOk
  <2> QED
    BY <2>1, SharedSaysTheSame
<1> QED
  BY <1>1, TrafficHolds, PTL
==============================================================================
