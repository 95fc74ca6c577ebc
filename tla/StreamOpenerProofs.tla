-------------------------- MODULE StreamOpenerProofs --------------------------
(***************************************************************************)
(* The two ends of a streaming envelope, for every chunk size, counter      *)
(* limit and cut of the source into pieces.  The sending side: no nonce is  *)
(* used twice, every chunk holds the bytes that belong there, and at most a *)
(* chunk is carried over.  Both ends: a channel that delivers a prefix of   *)
(* what was sent and completes only with all of it, whatever the transport  *)
(* does to the wire: nothing is assumed of the units the opener reads, only *)
(* that a ciphertext opens at no other counter and with no other last flag  *)
(* than it was sealed with.                                                 *)
(***************************************************************************)
EXTENDS StreamOpener, TLAPS

(* The counter is the number of chunks, except that a finished stream did not
   move it any more. *)
Counting ==
  /\ Len(sealed) = IF finished THEN counter + 1 ELSE counter
  /\ \A i \in DOMAIN sealed : sealed[i].counter = i - 1

(* The bytes taken and not sealed yet, in the order of the source: those
   carried over, then what is left of the piece. *)
Base == counter * ChunkSize

InOrder ==
  ~finished =>
    /\ taken = Base + Len(pending) + Len(view)
    /\ \A k \in DOMAIN pending : pending[k] = Base + k
    /\ \A k \in DOMAIN view : view[k] = Base + Len(pending) + k

(* What each step of seal_stream knows. *)
AtStep ==
  /\ spc \in {"prelude", "pieces", "direct"} => view = <<>>
  /\ spc \in {"prelude", "direct"} => pending = <<>>
  /\ spc = "slices" => pending = <<>> \/ Len(pending) + Len(view) <= ChunkSize

(* Only the last chunk may be short, and it ends where the source ended. *)
ChunkShape ==
  \A i \in DOMAIN sealed :
    /\ (i - 1) * ChunkSize + Len(sealed[i].data) <= taken
    /\ IF sealed[i].last
       THEN spc = "done" /\ taken = (i - 1) * ChunkSize + Len(sealed[i].data)
       ELSE Len(sealed[i].data) = ChunkSize

IInv ==
  /\ SenderTypeOK
  /\ Counting
  /\ InOrder
  /\ AtStep
  /\ CarryBounded
  /\ ChunksInPlace
  /\ ChunkShape
------------------------------------------------------------------------------
LEMMA InitIInv == Init => IInv
<1> SUFFICES ASSUME Init PROVE IInv
  OBVIOUS
<1> USE SealerAssumption
<1>1. /\ spc \in {"prelude", "direct"} /\ taken = 0 /\ view = <<>> /\ pending = <<>>
      /\ counter = 0 /\ finished = FALSE /\ sealed = <<>>
  BY DEF Init
<1>2. SenderTypeOK
  <2>1. view \in Seq(Byte) /\ pending \in Seq(Byte) /\ sealed \in Seq(Chunk)
    BY <1>1
  <2>2. taken \in 0..MaxInput /\ counter \in 0..MaxCounter
    BY <1>1
  <2>3. finished \in BOOLEAN /\ spc \in SenderSteps
    BY <1>1, Zenon DEF SenderSteps
  <2> QED
    BY <2>1, <2>2, <2>3 DEF SenderTypeOK
<1>3. Base = 0
  BY <1>1 DEF Base
<1>4. Counting /\ InOrder /\ AtStep /\ CarryBounded /\ ChunksInPlace /\ ChunkShape
  BY <1>1, <1>3 DEF Counting, InOrder, AtStep, CarryBounded, ChunksInPlace, ChunkShape
<1> QED
  BY <1>2, <1>4 DEF IInv

LEMMA Joined ==
  ASSUME NEW S, NEW s \in Seq(S), NEW t \in Seq(S)
  PROVE  /\ s \o t \in Seq(S) /\ Len(s \o t) = Len(s) + Len(t)
         /\ \A k \in 1..Len(s) : (s \o t)[k] = s[k]
         /\ \A k \in (Len(s) + 1)..(Len(s) + Len(t)) : (s \o t)[k] = t[k - Len(s)]
  OBVIOUS

(* Sealing the next bytes of the source keeps the counter and the places
   right. *)
LEMMA SealKeeps ==
  ASSUME IInv, NEW data \in Seq(Byte), NEW last \in BOOLEAN, Seal(data, last),
         \A k \in DOMAIN data : data[k] = Base + k,
         spc # "done", taken' \in Nat, taken <= taken', Base + Len(data) <= taken',
         last => spc' = "done" /\ taken' = Base + Len(data)
  PROVE  /\ counter' \in 0..MaxCounter /\ finished' \in BOOLEAN /\ sealed' \in Seq(Chunk)
         /\ Counting' /\ ChunksInPlace' /\ ChunkShape'
         /\ ~finished' => /\ ~last /\ Len(data) = ChunkSize
                          /\ counter' = counter + 1
                          /\ counter' * ChunkSize = Base + ChunkSize
<1> USE SealerAssumption
<1>1. /\ ~finished /\ Len(data) <= ChunkSize /\ (last \/ Len(data) = ChunkSize)
      /\ sealed' = Append(sealed, [counter |-> counter, last |-> last, data |-> data])
      /\ finished' = (last \/ TooMany(last))
      /\ counter' = IF last \/ TooMany(last) THEN counter ELSE counter + 1
  BY DEF Seal, Accepts, Finishes
<1>2. counter \in 0..MaxCounter /\ sealed \in Seq(Chunk) /\ Len(sealed) = counter
  BY <1>1 DEF IInv, SenderTypeOK, Counting
<1> DEFINE c == [counter |-> counter, last |-> last, data |-> data]
<1>3. c \in Chunk
  BY <1>2 DEF Chunk
<1>4. sealed' \in Seq(Chunk) /\ Len(sealed') = counter + 1
  BY <1>1, <1>2, <1>3
<1>5. /\ \A i \in DOMAIN sealed : sealed'[i] = sealed[i]
      /\ sealed'[counter + 1] = c
      /\ DOMAIN sealed' = 1..(counter + 1) /\ DOMAIN sealed = 1..counter
  BY <1>1, <1>2, <1>3
<1>6. counter' \in 0..MaxCounter /\ finished' \in BOOLEAN
  BY <1>1, <1>2 DEF TooMany
<1>7. Counting'
  <2>1. \A i \in DOMAIN sealed' : sealed'[i].counter = i - 1
    BY <1>2, <1>5 DEF IInv, Counting
  <2>2. Len(sealed') = IF finished' THEN counter' + 1 ELSE counter'
    BY <1>1, <1>2, <1>4
  <2> QED
    BY <2>1, <2>2 DEF Counting
<1>8. ChunksInPlace'
  <2> SUFFICES ASSUME NEW i \in DOMAIN sealed', NEW k \in DOMAIN sealed'[i].data
               PROVE  sealed'[i].data[k] = (i - 1) * ChunkSize + k
    BY DEF ChunksInPlace
  <2>1. CASE i \in DOMAIN sealed
    BY <1>5, <2>1 DEF IInv, ChunksInPlace
  <2>2. CASE i = counter + 1
    <3>1. sealed'[i].data = data
      BY <1>5, <2>2
    <3>2. (i - 1) * ChunkSize = Base
      BY <1>2, <2>2 DEF Base
    <3> QED
      BY <3>1, <3>2
  <2> QED
    BY <1>2, <1>5, <2>1, <2>2
<1>9. ChunkShape'
  <2> SUFFICES ASSUME NEW i \in DOMAIN sealed'
               PROVE  /\ (i - 1) * ChunkSize + Len(sealed'[i].data) <= taken'
                      /\ IF sealed'[i].last
                         THEN spc' = "done" /\ taken' = (i - 1) * ChunkSize + Len(sealed'[i].data)
                         ELSE Len(sealed'[i].data) = ChunkSize
    BY DEF ChunkShape
  <2>1. CASE i \in DOMAIN sealed
    <3>1. /\ sealed'[i] = sealed[i] /\ ~sealed[i].last /\ Len(sealed[i].data) = ChunkSize
          /\ (i - 1) * ChunkSize + ChunkSize <= taken
      <4>1. /\ (i - 1) * ChunkSize + Len(sealed[i].data) <= taken
            /\ IF sealed[i].last THEN spc = "done" ELSE Len(sealed[i].data) = ChunkSize
        BY <2>1 DEF IInv, ChunkShape
      <4>2. ~sealed[i].last /\ Len(sealed[i].data) = ChunkSize
        BY <4>1
      <4>3. sealed'[i] = sealed[i]
        BY <1>5, <2>1
      <4>4. (i - 1) * ChunkSize + ChunkSize <= taken
        BY <4>1, <4>2, Zenon
      <4> QED
        BY <4>2, <4>3, <4>4
    <3>2. (i - 1) * ChunkSize \in Nat /\ taken \in Nat
      BY <1>5, <2>1, SMTT(30) DEF IInv, SenderTypeOK
    <3>3. (i - 1) * ChunkSize + ChunkSize <= taken'
      BY <3>1, <3>2
    <3> QED
      BY <3>1, <3>3
  <2>2. CASE i = counter + 1
    <3>1. sealed'[i].data = data /\ sealed'[i].last = last
      BY <1>5, <2>2
    <3>2. (i - 1) * ChunkSize = Base
      BY <1>2, <2>2 DEF Base
    <3> QED
      BY <1>1, <3>1, <3>2
  <2> QED
    BY <1>2, <1>5, <2>1, <2>2
<1>10. (counter + 1) * ChunkSize = counter * ChunkSize + ChunkSize
  BY <1>2
<1> QED
  BY <1>1, <1>4, <1>6, <1>7, <1>8, <1>9, <1>10 DEF Base
------------------------------------------------------------------------------
LEMMA NextIInv == IInv /\ [SenderNext]_senderVars => IInv'
<1> SUFFICES ASSUME IInv, [SenderNext]_senderVars PROVE IInv'
  OBVIOUS
<1> USE SealerAssumption
<1>1. CASE YieldPrelude
  BY <1>1 DEF YieldPrelude, IInv, SenderTypeOK, SenderSteps, Counting, InOrder, Base, AtStep,
     CarryBounded, ChunksInPlace, ChunkShape
<1>2. CASE ReadPiece
  <2>1. PICK n \in 0..MaxPiece : /\ taken + n <= MaxInput
                                 /\ view' = [k \in 1..n |-> taken + k]
                                 /\ taken' = taken + n
    BY <1>2 DEF ReadPiece
  <2>2. /\ spc = "pieces" /\ spc' = "join"
        /\ UNCHANGED <<pending, counter, finished, sealed>>
    BY <1>2 DEF ReadPiece
  <2>3. taken \in 0..MaxInput /\ taken' \in 0..MaxInput
    BY <2>1 DEF IInv, SenderTypeOK
  <2>4. view' \in Seq(Byte) /\ Len(view') = n /\ DOMAIN view' = 1..n
    BY <2>1, <2>3 DEF Byte
  <2>5. SenderTypeOK'
    BY <2>2, <2>3, <2>4 DEF IInv, SenderTypeOK, SenderSteps
  <2>6. InOrder'
    <3> SUFFICES ASSUME ~finished PROVE InOrder'
      BY <2>2 DEF InOrder
    <3>1. taken = Base + Len(pending) /\ Base' = Base
      BY <2>2 DEF IInv, SenderTypeOK, InOrder, AtStep, Base
    <3> QED
      BY <2>1, <2>2, <2>3, <2>4, <3>1 DEF IInv, SenderTypeOK, InOrder
  <2>7. (Counting /\ AtStep /\ CarryBounded /\ ChunksInPlace)'
    BY <2>2 DEF IInv, Counting, AtStep, CarryBounded, ChunksInPlace
  <2>8. ChunkShape'
    <3> SUFFICES ASSUME NEW i \in DOMAIN sealed
                 PROVE  /\ (i - 1) * ChunkSize + Len(sealed[i].data) <= taken'
                        /\ ~sealed[i].last /\ Len(sealed[i].data) = ChunkSize
      BY <2>2 DEF ChunkShape
    <3>1. /\ (i - 1) * ChunkSize + Len(sealed[i].data) <= taken
          /\ ~sealed[i].last /\ Len(sealed[i].data) = ChunkSize
      BY <2>2 DEF IInv, ChunkShape
    <3>2. (i - 1) * ChunkSize + Len(sealed[i].data) \in Nat
      <4>1. i \in Nat \ {0} /\ Len(sealed[i].data) \in Nat
        BY <3>1 DEF IInv, SenderTypeOK
      <4> QED
        BY <4>1
    <3> QED
      BY <2>1, <2>3, <3>1, <3>2
  <2> QED
    BY <2>5, <2>6, <2>7, <2>8 DEF IInv
<1>3. CASE SealPending
  <2> DEFINE pos == ChunkSize - Len(pending)
             data == pending \o Take(view, pos)
  <2>1. /\ spc = "join" /\ pending # <<>> /\ Len(pending) + Len(view) > ChunkSize
        /\ Seal(data, FALSE) /\ pending' = <<>> /\ view' = Drop(view, pos)
        /\ spc' \in {"failed", "slices"} /\ taken' = taken /\ ~finished
    BY <1>3 DEF SealPending, PendingIsChunk, Seal, Accepts
  <2>2. /\ pending \in Seq(Byte) /\ view \in Seq(Byte) /\ Len(pending) <= ChunkSize
        /\ pos \in Nat /\ pos < Len(view)
    BY <2>1 DEF IInv, SenderTypeOK, CarryBounded
  <2>3. /\ Take(view, pos) = SubSeq(view, 1, pos) /\ Len(Take(view, pos)) = pos
        /\ Take(view, pos) \in Seq(Byte)
        /\ \A k \in 1..pos : Take(view, pos)[k] = view[k]
    BY <2>2 DEF Take
  <2>4. /\ data \in Seq(Byte) /\ Len(data) = ChunkSize
        /\ \A k \in 1..Len(pending) : data[k] = pending[k]
        /\ \A k \in (Len(pending) + 1)..ChunkSize : data[k] = view[k - Len(pending)]
    <3> DEFINE head == Take(view, pos)
    <3>1. head \in Seq(Byte) /\ Len(head) = pos /\ Len(pending) + pos = ChunkSize
      BY <2>2, <2>3
    <3> HIDE DEF head
    <3>2. /\ pending \o head \in Seq(Byte) /\ Len(pending \o head) = ChunkSize
          /\ \A k \in 1..Len(pending) : (pending \o head)[k] = pending[k]
          /\ \A k \in (Len(pending) + 1)..ChunkSize :
               (pending \o head)[k] = head[k - Len(pending)]
      BY <2>2, <3>1, Joined
    <3>3. \A k \in (Len(pending) + 1)..ChunkSize : k - Len(pending) \in 1..pos
      BY <2>2, <3>1
    <3>4. \A k \in 1..pos : head[k] = view[k]
      BY <2>3 DEF head
    <3> QED
      BY <3>2, <3>3, <3>4 DEF head
  <2>5. \A k \in DOMAIN data : data[k] = Base + k
    <3> SUFFICES ASSUME NEW k \in DOMAIN data PROVE data[k] = Base + k
      OBVIOUS
    <3>1. Base \in Nat /\ k \in 1..ChunkSize
      BY <2>4 DEF IInv, SenderTypeOK, Base
    <3>2. CASE k \in 1..Len(pending)
      BY <2>1, <2>2, <2>4, <3>2 DEF IInv, InOrder
    <3>3. CASE k \in (Len(pending) + 1)..ChunkSize
      <4>1. k - Len(pending) \in DOMAIN view
        BY <2>2, <3>3
      <4>2. view[k - Len(pending)] = Base + Len(pending) + (k - Len(pending))
        BY <2>1, <4>1 DEF IInv, InOrder
      <4>3. Len(pending) \in Nat
        BY <2>2
      <4> HIDE DEF data
      <4> QED
        BY <2>4, <3>1, <3>3, <4>2, <4>3
    <3> QED
      BY <2>2, <3>1, <3>2, <3>3
  <2>6. /\ counter' \in 0..MaxCounter /\ finished' \in BOOLEAN /\ sealed' \in Seq(Chunk)
        /\ Counting' /\ ChunksInPlace' /\ ChunkShape'
        /\ ~finished' => counter' = counter + 1 /\ Base' = Base + ChunkSize
    <3> HIDE DEF data
    <3>1. Base \in Nat /\ Base + Len(data) <= taken /\ taken \in Nat
      BY <2>1, <2>2, <2>4 DEF IInv, SenderTypeOK, InOrder, Base
    <3>2. spc # "done" /\ taken' \in Nat /\ taken <= taken' /\ Base + Len(data) <= taken'
      BY <2>1, <3>1
    <3>3. Seal(data, FALSE) /\ data \in Seq(Byte) /\ \A k \in DOMAIN data : data[k] = Base + k
      BY <2>1, <2>4, <2>5, <3>1
    <3>4. /\ counter' \in 0..MaxCounter /\ finished' \in BOOLEAN /\ sealed' \in Seq(Chunk)
          /\ Counting' /\ ChunksInPlace' /\ ChunkShape'
          /\ ~finished' => counter' = counter + 1 /\ counter' * ChunkSize = Base + ChunkSize
      BY <3>2, <3>3, SealKeeps
    <3> QED
      BY <3>4 DEF Base
  <2>7. /\ view' \in Seq(Byte) /\ Len(view') = Len(view) - pos
        /\ \A k \in 1..Len(view') : view'[k] = view[pos + k]
    BY <2>1, <2>2 DEF Drop
  <2>8. SenderTypeOK'
    BY <2>1, <2>6, <2>7 DEF IInv, SenderTypeOK, SenderSteps
  <2>9. InOrder'
    <3> SUFFICES ASSUME ~finished' PROVE InOrder'
      BY DEF InOrder
    <3>1. /\ Base \in Nat /\ taken = Base + Len(pending) + Len(view)
          /\ \A k \in DOMAIN view : view[k] = Base + Len(pending) + k
      BY <2>1 DEF IInv, SenderTypeOK, InOrder, Base
    <3>2. Base' = Base + ChunkSize /\ Len(view') \in Nat /\ Len(pending) \in Nat
      BY <2>2, <2>6, <2>7
    <3>3. ASSUME NEW k \in 1..Len(view') PROVE view'[k] = Base' + k
      <4>1. pos + k \in DOMAIN view
        BY <2>2, <2>7, <3>2
      <4>2. view[pos + k] = Base + Len(pending) + (pos + k)
        BY <3>1, <4>1
      <4> QED
        BY <2>2, <2>7, <3>1, <3>2, <4>2
    <3>4. Len(view') = Len(view) - (ChunkSize - Len(pending)) /\ taken' = taken
      BY <2>1, <2>7
    <3>5. Len(view) \in Nat
      BY <2>2
    <3>6. taken' = Base' + Len(view')
      BY <3>1, <3>2, <3>4, <3>5
    <3>7. pending' = <<>> /\ Len(pending') = 0 /\ DOMAIN pending' = {} /\ DOMAIN view' = 1..Len(view')
      BY <2>1, <2>7
    <3>8. Base' \in Nat
      BY <3>1, <3>2
    <3> QED
      BY <3>2, <3>3, <3>6, <3>7, <3>8 DEF InOrder
  <2>10. (AtStep /\ CarryBounded)'
    BY <2>1 DEF AtStep, CarryBounded
  <2> QED
    BY <2>6, <2>8, <2>9, <2>10 DEF IInv
<1>4. CASE KeepPending
  BY <1>4 DEF KeepPending, PendingIsChunk, IInv, SenderTypeOK, SenderSteps, Counting, InOrder,
     Base, AtStep, CarryBounded, ChunksInPlace, ChunkShape
<1>5. CASE SealSlice
  <2> DEFINE data == Take(view, ChunkSize)
  <2>1. /\ spc = "slices" /\ Len(view) > ChunkSize
        /\ Seal(data, FALSE) /\ view' = Drop(view, ChunkSize)
        /\ spc' \in {"failed", "slices"} /\ taken' = taken /\ pending' = pending /\ ~finished
    BY <1>5 DEF SealSlice, Seal, Accepts
  <2>2. view \in Seq(Byte) /\ pending = <<>>
    BY <2>1 DEF IInv, SenderTypeOK, AtStep
  <2>3. /\ data \in Seq(Byte) /\ Len(data) = ChunkSize
        /\ \A k \in 1..ChunkSize : data[k] = view[k]
    BY <2>1, <2>2 DEF Take
  <2>4. \A k \in DOMAIN data : data[k] = Base + k
    BY <2>1, <2>2, <2>3 DEF IInv, SenderTypeOK, InOrder, Base
  <2>5. /\ counter' \in 0..MaxCounter /\ finished' \in BOOLEAN /\ sealed' \in Seq(Chunk)
        /\ Counting' /\ ChunksInPlace' /\ ChunkShape'
        /\ ~finished' => counter' = counter + 1 /\ Base' = Base + ChunkSize
    <3> HIDE DEF data
    <3>1. Base \in Nat /\ Base + Len(data) <= taken /\ taken \in Nat
      BY <2>1, <2>2, <2>3 DEF IInv, SenderTypeOK, InOrder, Base
    <3>2. spc # "done" /\ taken' \in Nat /\ taken <= taken' /\ Base + Len(data) <= taken'
      BY <2>1, <3>1
    <3>3. Seal(data, FALSE) /\ data \in Seq(Byte) /\ \A k \in DOMAIN data : data[k] = Base + k
      BY <2>1, <2>3, <2>4, <3>1
    <3>4. /\ counter' \in 0..MaxCounter /\ finished' \in BOOLEAN /\ sealed' \in Seq(Chunk)
          /\ Counting' /\ ChunksInPlace' /\ ChunkShape'
          /\ ~finished' => counter' = counter + 1 /\ counter' * ChunkSize = Base + ChunkSize
      BY <3>2, <3>3, SealKeeps
    <3> QED
      BY <3>4 DEF Base
  <2>6. /\ view' \in Seq(Byte) /\ Len(view') = Len(view) - ChunkSize
        /\ \A k \in 1..Len(view') : view'[k] = view[ChunkSize + k]
    BY <2>1, <2>2 DEF Drop
  <2>7. SenderTypeOK'
    BY <2>1, <2>5, <2>6 DEF IInv, SenderTypeOK, SenderSteps
  <2>8. InOrder'
    <3> SUFFICES ASSUME ~finished' PROVE InOrder'
      BY DEF InOrder
    <3>1. /\ Base \in Nat /\ taken = Base + Len(view)
          /\ \A k \in DOMAIN view : view[k] = Base + k
      BY <2>1, <2>2 DEF IInv, SenderTypeOK, InOrder, Base
    <3>2. Base' = Base + ChunkSize /\ Len(view) \in Nat
      BY <2>2, <2>5
    <3>3. ASSUME NEW k \in 1..Len(view') PROVE view'[k] = Base' + k
      <4>1. ChunkSize + k \in DOMAIN view
        BY <2>1, <2>2, <2>6, <3>2
      <4>2. view[ChunkSize + k] = Base + (ChunkSize + k)
        BY <3>1, <4>1
      <4> QED
        BY <2>6, <3>1, <3>2, <4>2
    <3>4. taken' = Base' + Len(view')
      BY <2>1, <2>6, <3>1, <3>2
    <3> QED
      BY <2>1, <2>2, <2>6, <3>1, <3>2, <3>3, <3>4, SMTT(30) DEF InOrder
  <2>9. (AtStep /\ CarryBounded)'
    BY <2>1, <2>2 DEF AtStep, CarryBounded
  <2> QED
    BY <2>5, <2>7, <2>8, <2>9 DEF IInv
<1>6. CASE CarryOver
  <2>1. /\ spc = "slices" /\ Len(view) <= ChunkSize
        /\ pending' = pending \o view /\ view' = <<>> /\ spc' = "pieces"
        /\ UNCHANGED <<taken, counter, finished, sealed>>
    BY <1>6 DEF CarryOver
  <2>2. pending \in Seq(Byte) /\ view \in Seq(Byte)
    BY DEF IInv, SenderTypeOK
  <2>3. /\ pending' \in Seq(Byte) /\ Len(pending') = Len(pending) + Len(view)
        /\ \A k \in 1..Len(pending) : pending'[k] = pending[k]
        /\ \A k \in (Len(pending) + 1)..Len(pending') : pending'[k] = view[k - Len(pending)]
    BY <2>1, <2>2
  <2>4. SenderTypeOK'
    BY <2>1, <2>3 DEF IInv, SenderTypeOK, SenderSteps
  <2>5. InOrder'
    <3> SUFFICES ASSUME ~finished' PROVE InOrder'
      BY DEF InOrder
    <3>1. /\ Base \in Nat /\ Base' = Base /\ taken = Base + Len(pending) + Len(view)
          /\ \A k \in DOMAIN pending : pending[k] = Base + k
          /\ \A k \in DOMAIN view : view[k] = Base + Len(pending) + k
      BY <2>1 DEF IInv, SenderTypeOK, InOrder, Base
    <3>2. Len(pending) \in Nat /\ Len(view) \in Nat
      BY <2>2
    <3>3. ASSUME NEW k \in 1..Len(pending') PROVE pending'[k] = Base + k
      <4>1. CASE k \in 1..Len(pending)
        BY <2>2, <2>3, <3>1, <4>1
      <4>2. CASE k \in (Len(pending) + 1)..Len(pending')
        <5>1. k - Len(pending) \in DOMAIN view
          BY <2>2, <2>3, <3>2, <4>2
        <5>2. view[k - Len(pending)] = Base + Len(pending) + (k - Len(pending))
          BY <3>1, <5>1
        <5> QED
          BY <2>3, <3>1, <3>2, <4>2, <5>2
      <4> QED
        BY <2>3, <3>2, <4>1, <4>2
    <3> QED
      BY <2>1, <2>3, <3>1, <3>2, <3>3 DEF InOrder
  <2>6. CarryBounded'
    <3>1. CASE pending = <<>>
      BY <2>1, <2>2, <2>3, <3>1 DEF CarryBounded
    <3>2. CASE Len(pending) + Len(view) <= ChunkSize
      BY <2>3, <3>2 DEF CarryBounded
    <3> QED
      BY <2>1, <3>1, <3>2 DEF IInv, AtStep
  <2>7. (AtStep /\ Counting /\ ChunksInPlace /\ ChunkShape)'
    BY <2>1 DEF IInv, AtStep, Counting, ChunksInPlace, ChunkShape
  <2> QED
    BY <2>4, <2>5, <2>6, <2>7 DEF IInv
<1>7. CASE SealLast
  <2>1. /\ spc = "pieces" /\ Seal(pending, TRUE) /\ pending' = <<>> /\ spc' = "done"
        /\ taken' = taken /\ view' = view /\ ~finished /\ finished'
    BY <1>7 DEF SealLast, Seal, Accepts, Finishes
  <2>2. /\ pending \in Seq(Byte) /\ \A k \in DOMAIN pending : pending[k] = Base + k
        /\ taken = Base + Len(pending)
    BY <2>1 DEF IInv, SenderTypeOK, InOrder, AtStep, Base
  <2>3. /\ counter' \in 0..MaxCounter /\ finished' \in BOOLEAN /\ sealed' \in Seq(Chunk)
        /\ Counting' /\ ChunksInPlace' /\ ChunkShape'
    <3>1. taken \in Nat /\ Base \in Nat
      BY DEF IInv, SenderTypeOK, Base
    <3> QED
      <4>1. /\ spc # "done" /\ taken' \in Nat /\ taken <= taken'
            /\ Base + Len(pending) <= taken'
            /\ spc' = "done" /\ taken' = Base + Len(pending)
        BY <2>1, <2>2, <3>1
      <4> QED
        BY <2>1, <2>2, <4>1, SealKeeps
  <2>4. (SenderTypeOK /\ InOrder /\ AtStep /\ CarryBounded)'
    BY <2>1, <2>3 DEF IInv, SenderTypeOK, SenderSteps, InOrder, AtStep, CarryBounded
  <2> QED
    BY <2>3, <2>4 DEF IInv
<1>8. CASE Abandon
  BY <1>8 DEF Abandon, IInv, SenderTypeOK, SenderSteps, Counting, InOrder, Base, AtStep,
     CarryBounded, ChunksInPlace, ChunkShape
<1>9. ASSUME NEW n \in 0..ChunkSize, NEW last \in BOOLEAN, SealChunk(n, last) PROVE IInv'
  <2> DEFINE data == [k \in 1..n |-> taken + k]
  <2>1. /\ spc = "direct" /\ taken + n <= MaxInput /\ Seal(data, last) /\ taken' = taken + n
        /\ spc' = (IF last THEN "done" ELSE "direct") /\ view' = view /\ pending' = pending /\ ~finished
    BY <1>9 DEF SealChunk, Seal, Accepts
  <2>2. view = <<>> /\ pending = <<>> /\ taken \in 0..MaxInput /\ taken = Base
    BY <2>1 DEF IInv, SenderTypeOK, AtStep, InOrder, Base
  <2>3. data \in Seq(Byte) /\ Len(data) = n /\ DOMAIN data = 1..n
    BY <2>1, <2>2 DEF Byte
  <2>4. \A k \in DOMAIN data : data[k] = Base + k
    BY <2>2, <2>3
  <2> HIDE DEF data
  <2>a. /\ spc # "done" /\ (last => spc' = "done" /\ taken' = Base + Len(data))
        /\ taken' \in Nat /\ taken <= taken' /\ Base + Len(data) <= taken'
    BY <2>1, <2>2, <2>3
  <2>5. /\ counter' \in 0..MaxCounter /\ finished' \in BOOLEAN /\ sealed' \in Seq(Chunk)
        /\ Counting' /\ ChunksInPlace' /\ ChunkShape'
        /\ ~finished' => Len(data) = ChunkSize /\ Base' = Base + ChunkSize
    BY <2>1, <2>3, <2>4, <2>a, SealKeeps DEF Base
  <2>6. SenderTypeOK'
    BY <2>1, <2>2, <2>5 DEF IInv, SenderTypeOK, SenderSteps
  <2>7. InOrder'
    BY <2>1, <2>2, <2>3, <2>5 DEF InOrder
  <2>8. (AtStep /\ CarryBounded)'
    BY <2>1, <2>2 DEF AtStep, CarryBounded
  <2> QED
    BY <2>5, <2>6, <2>7, <2>8 DEF IInv
<1>10. CASE UNCHANGED senderVars
  BY <1>10 DEF senderVars, IInv, SenderTypeOK, Counting, InOrder, Base, AtStep, CarryBounded,
     ChunksInPlace, ChunkShape
<1> QED
  BY <1>1, <1>2, <1>3, <1>4, <1>5, <1>6, <1>7, <1>8, <1>9, <1>10 DEF SenderNext
------------------------------------------------------------------------------
(* No pair of counter and last flag encrypts two chunks. *)
THEOREM NonceUsedOnce == SenderSpec => []NonceOnce
<1>1. IInv => NonceOnce
  BY DEF IInv, SenderTypeOK, Counting, NonceOnce
<1> QED
  BY <1>1, InitIInv, NextIInv, PTL DEF SenderSpec

(* Every chunk holds the bytes of the source that belong there. *)
THEOREM EveryByteInPlace == SenderSpec => []ChunksInPlace
<1>1. IInv => ChunksInPlace
  BY DEF IInv
<1> QED
  BY <1>1, InitIInv, NextIInv, PTL DEF SenderSpec

(* Every variable stays in its range and at most a chunk is carried over. *)
THEOREM CarryStaysSmall == SenderSpec => [](SenderTypeOK /\ CarryBounded)
<1>1. IInv => SenderTypeOK /\ CarryBounded
  BY DEF IInv
<1> QED
  BY <1>1, InitIInv, NextIInv, PTL DEF SenderSpec
------------------------------------------------------------------------------
(* What has been delivered is the first openCounter chunks, or everything. *)
Opened ==
  /\ opc \in OpenerSteps
  /\ openCounter \in 0..MaxCounter
  /\ delivered \in Seq(Byte)
  /\ \A k \in DOMAIN delivered : delivered[k] = k
  /\ Len(delivered) <= taken
  /\ opc # "complete" => Len(delivered) = openCounter * ChunkSize
  /\ opc = "complete" => spc = "done" /\ Len(delivered) = taken

OInv == IInv /\ Opened
------------------------------------------------------------------------------
LEMMA StreamInitOInv == StreamInit => OInv
<1> SUFFICES ASSUME StreamInit PROVE OInv
  OBVIOUS
<1>1. IInv
  BY InitIInv DEF StreamInit
<1>2. opc = "start" /\ openCounter = 0 /\ delivered = <<>>
  BY DEF StreamInit, OpenerInit
<1>3. taken \in Nat
  BY <1>1 DEF IInv, SenderTypeOK
<1>4. openCounter \in 0..MaxCounter /\ openCounter * ChunkSize = 0
  BY <1>2, SealerAssumption
<1>5. delivered \in Seq(Byte) /\ Len(delivered) = 0 /\ DOMAIN delivered = {}
  BY <1>2
<1> QED
  BY <1>1, <1>2, <1>3, <1>4, <1>5 DEF OInv, Opened, OpenerSteps

(* The sender only goes on while it has not ended, and its bytes only grow. *)
LEMMA SenderGrows ==
  ASSUME IInv, SenderNext
  PROVE  spc # "done" /\ taken \in Nat /\ taken' \in Nat /\ taken <= taken'
<1>1. taken \in Nat
  BY DEF IInv, SenderTypeOK
<1>2. CASE \E n \in 0..ChunkSize, last \in BOOLEAN : SealChunk(n, last)
  <2>1. PICK n \in 0..ChunkSize, last \in BOOLEAN : SealChunk(n, last)
    BY <1>2
  <2>2. n \in Nat /\ taken' = taken + n /\ spc = "direct"
    BY <2>1, SealerAssumption DEF SealChunk
  <2> QED
    BY <1>1, <2>2
<1>3. CASE ReadPiece
  <2>1. PICK n \in 0..MaxPiece : taken' = taken + n
    BY <1>3 DEF ReadPiece
  <2>2. spc = "pieces" /\ n \in Nat
    BY <1>3, SealerAssumption DEF ReadPiece
  <2> QED
    BY <1>1, <2>1, <2>2
<1>4. CASE YieldPrelude \/ SealPending \/ KeepPending \/ SealSlice \/ CarryOver \/ SealLast
           \/ Abandon
  <2>1. taken' = taken
    BY <1>4 DEF YieldPrelude, SealPending, KeepPending, SealSlice, CarryOver, SealLast, Abandon
  <2>2. spc # "done"
    BY <1>4 DEF YieldPrelude, SealPending, KeepPending, SealSlice, CarryOver, SealLast, Abandon
  <2> QED
    BY <1>1, <2>1, <2>2
<1> QED
  BY <1>2, <1>3, <1>4 DEF SenderNext

(* A frame that opens is the next chunk. *)
LEMMA OpensTheNext ==
  ASSUME OInv, opc # "complete", NEW units, NEW last \in BOOLEAN,
         NEW i \in Authentic(units, last),
         last \/ openCounter # MaxCounter,
         delivered' = delivered \o sealed[i].data,
         openCounter' = IF last THEN openCounter ELSE openCounter + 1
  PROVE  /\ delivered' \in Seq(Byte) /\ openCounter' \in 0..MaxCounter
         /\ Len(delivered') = Len(delivered) + Len(sealed[i].data)
         /\ \A k \in DOMAIN delivered' : delivered'[k] = k
         /\ Len(delivered') <= taken
         /\ ~last => Len(delivered') = openCounter' * ChunkSize
         /\ last => spc = "done" /\ Len(delivered') = taken
<1> USE SealerAssumption
<1> DEFINE data == sealed[i].data
<1>1. i \in DOMAIN sealed /\ sealed[i].counter = openCounter /\ sealed[i].last = last
  BY DEF Authentic
<1>2. sealed \in Seq(Chunk) /\ openCounter \in 0..MaxCounter /\ taken \in Nat
  BY DEF OInv, Opened, IInv, SenderTypeOK
<1>3. data \in Seq(Byte) /\ i \in Nat
  <2>1. sealed[i] \in Chunk /\ i \in Nat
    BY <1>1, <1>2
  <2> QED
    BY <2>1 DEF Chunk
<1>4. i - 1 = openCounter
  <2>1. sealed[i].counter = i - 1
    BY <1>1 DEF OInv, IInv, Counting
  <2> QED
    BY <1>1, <2>1
<1>5. Len(delivered) = openCounter * ChunkSize /\ delivered \in Seq(Byte)
  BY DEF OInv, Opened
<1> DEFINE b == openCounter * ChunkSize
<1>6. b \in Nat
  BY <1>2
<1>7. \A k \in DOMAIN data : data[k] = b + k
  <2>1. \A k \in DOMAIN sealed[i].data : sealed[i].data[k] = (i - 1) * ChunkSize + k
    BY <1>1 DEF OInv, IInv, ChunksInPlace
  <2> QED
    BY <1>4, <2>1
<1>8. /\ b + Len(data) <= taken
      /\ IF last THEN spc = "done" /\ taken = b + Len(data) ELSE Len(data) = ChunkSize
  <2>1. /\ (i - 1) * ChunkSize + Len(sealed[i].data) <= taken
        /\ IF sealed[i].last
           THEN spc = "done" /\ taken = (i - 1) * ChunkSize + Len(sealed[i].data)
           ELSE Len(sealed[i].data) = ChunkSize
    BY <1>1 DEF OInv, IInv, ChunkShape
  <2> QED
    BY <1>1, <1>4, <2>1
<1>9. (openCounter + 1) * ChunkSize = b + ChunkSize
  BY <1>2
<1>10. Len(delivered) = b /\ \A k \in DOMAIN delivered : delivered[k] = k
  BY <1>5 DEF OInv, Opened
<1>11. openCounter' \in 0..MaxCounter
  BY <1>2
<1>12. ~last => openCounter' * ChunkSize = b + ChunkSize
  BY <1>9
<1> HIDE DEF data, b
<1>13. delivered' = delivered \o data
  BY DEF data
<1>14. /\ delivered' \in Seq(Byte) /\ Len(delivered') = b + Len(data)
       /\ \A k \in 1..b : delivered'[k] = delivered[k]
       /\ \A k \in (b + 1)..(b + Len(data)) : delivered'[k] = data[k - b]
  <2>1. /\ delivered \o data \in Seq(Byte)
        /\ Len(delivered \o data) = Len(delivered) + Len(data)
        /\ \A k \in 1..Len(delivered) : (delivered \o data)[k] = delivered[k]
        /\ \A k \in (Len(delivered) + 1)..(Len(delivered) + Len(data)) :
             (delivered \o data)[k] = data[k - Len(delivered)]
    BY <1>3, <1>5, Joined
  <2>2. Len(delivered) = b
    BY <1>10
  <2> QED
    BY <1>13, <2>1, <2>2
<1>15. \A k \in DOMAIN delivered' : delivered'[k] = k
  <2> SUFFICES ASSUME NEW k \in 1..(b + Len(data)) PROVE delivered'[k] = k
    BY <1>14
  <2>1. CASE k \in 1..b
    BY <1>5, <1>10, <1>14, <2>1
  <2>2. CASE k \in (b + 1)..(b + Len(data))
    <3>1. k - b \in DOMAIN data
      BY <1>3, <1>6, <2>2
    <3>2. data[k - b] = b + (k - b) /\ delivered'[k] = data[k - b]
      BY <1>7, <1>14, <2>2, <3>1
    <3>3. k \in Nat /\ b \in Nat
      BY <1>3, <1>6
    <3> QED
      BY <3>2, <3>3
  <2>3. Len(data) \in Nat
    BY <1>3
  <2>4. k \in 1..b \/ k \in (b + 1)..(b + Len(data))
    BY <1>6, <2>3
  <2> QED
    BY <2>1, <2>2, <2>4
<1> QED
  BY <1>8, <1>10, <1>11, <1>12, <1>14, <1>15 DEF data

(* A step of the opener gives up, moves on, or delivers the next chunk. *)
Delivers ==
  \E last \in BOOLEAN :
    \E i \in Authentic(SubSeq(buffer, LengthUnits + 1, LengthUnits + length), last) :
      /\ last \/ openCounter # MaxCounter
      /\ delivered' = delivered \o sealed[i].data
      /\ openCounter' = IF last THEN openCounter ELSE openCounter + 1
      /\ opc' = IF last THEN "complete" ELSE "frame"

MovesOn ==
  /\ UNCHANGED <<openCounter, delivered>>
  /\ opc' \in OpenerSteps \ {"complete"}

LEMMA OpenerMoves ==
  ASSUME OInv, OpenerNext
  PROVE  /\ UNCHANGED senderVars
         /\ opc \in OpenerSteps \ {"complete", "failed"}
         /\ MovesOn \/ Delivers
<1>1. CASE Pull
  BY <1>1 DEF Pull, Wanted, MovesOn, OInv, Opened, OpenerSteps
<1>2. CASE ReadPrelude
  BY <1>2 DEF ReadPrelude, Fail, MovesOn, OpenerSteps
<1>3. CASE ReadHeader
  BY <1>3 DEF ReadHeader, Fail, MovesOn, OpenerSteps
<1>4. CASE ReadLength
  BY <1>4 DEF ReadLength, Fail, MovesOn, OpenerSteps
<1>5. CASE OpenFrame
  BY <1>5 DEF OpenFrame, Fail, MovesOn, Delivers, OpenerSteps
<1> QED
  BY <1>1, <1>2, <1>3, <1>4, <1>5 DEF OpenerNext
------------------------------------------------------------------------------
LEMMA NextOInv == OInv /\ [Next]_vars => OInv'
<1> SUFFICES ASSUME OInv, [Next]_vars PROVE OInv'
  OBVIOUS
<1>1. CASE Sender
  <2>1. IInv'
    BY <1>1, NextIInv DEF Sender, OInv
  <2>2. spc # "done" /\ taken \in Nat /\ taken' \in Nat /\ taken <= taken'
    BY <1>1, SenderGrows DEF Sender, OInv
  <2>3. UNCHANGED <<opc, openCounter, delivered>>
    BY <1>1 DEF Sender, openerVars
  <2>4. Len(delivered) \in Nat
    BY DEF OInv, Opened
  <2> QED
    BY <2>1, <2>2, <2>3, <2>4 DEF OInv, Opened
<1>2. CASE OpenerNext
  <2>1. UNCHANGED senderVars /\ opc \in OpenerSteps \ {"complete", "failed"}
    BY <1>2, OpenerMoves
  <2>2. IInv' /\ taken' = taken /\ spc' = spc
    BY <2>1, NextIInv DEF OInv, senderVars
  <2>3. CASE MovesOn
    BY <2>1, <2>2, <2>3 DEF MovesOn, OInv, Opened
  <2>4. CASE Delivers
    <3> DEFINE units == SubSeq(buffer, LengthUnits + 1, LengthUnits + length)
    <3>0. PICK last \in BOOLEAN : \E i \in Authentic(units, last) :
                   /\ last \/ openCounter # MaxCounter
                   /\ delivered' = delivered \o sealed[i].data
                   /\ openCounter' = IF last THEN openCounter ELSE openCounter + 1
                   /\ opc' = IF last THEN "complete" ELSE "frame"
      BY <2>4 DEF Delivers
    <3>1. PICK i \in Authentic(units, last) :
                   /\ last \/ openCounter # MaxCounter
                   /\ delivered' = delivered \o sealed[i].data
                   /\ openCounter' = IF last THEN openCounter ELSE openCounter + 1
                   /\ opc' = IF last THEN "complete" ELSE "frame"
      BY <3>0
    <3> HIDE DEF units
    <3>3. /\ delivered' \in Seq(Byte) /\ openCounter' \in 0..MaxCounter
          /\ \A k \in DOMAIN delivered' : delivered'[k] = k
          /\ Len(delivered') <= taken
          /\ ~last => Len(delivered') = openCounter' * ChunkSize
          /\ last => spc = "done" /\ Len(delivered') = taken
      BY <2>1, <3>1, OpensTheNext
    <3>4. opc' \in OpenerSteps /\ (opc' = "complete" <=> last)
      BY <3>1 DEF OpenerSteps
    <3> QED
      BY <2>2, <3>3, <3>4 DEF OInv, Opened
  <2> QED
    BY <1>2, <2>3, <2>4, OpenerMoves
<1>3. CASE Tamper \/ UNCHANGED vars
  <2>1. UNCHANGED senderVars /\ UNCHANGED <<opc, openCounter, delivered>>
    BY <1>3 DEF Tamper, vars, openerVars
  <2>2. IInv' /\ taken' = taken /\ spc' = spc
    BY <2>1, NextIInv DEF OInv, senderVars
  <2> QED
    BY <2>1, <2>2 DEF OInv, Opened
<1> QED
  BY <1>1, <1>2, <1>3 DEF Next
------------------------------------------------------------------------------
(* The first n bytes of the source. *)
Bytes(n) == [k \in 1..n |-> k]

LEMMA BytesAre ==
  ASSUME NEW n \in Nat
  PROVE  Bytes(n) \in Seq(Nat) /\ Len(Bytes(n)) = n /\ \A k \in 1..n : Bytes(n)[k] = k
  BY DEF Bytes

LEMMA AllBytes ==
  ASSUME NEW n \in Nat, NEW s \in Seq(Nat), Len(s) = n, \A k \in DOMAIN s : s[k] = k
  PROVE  s = Bytes(n)
<1>1. /\ Bytes(n) \in Seq(Nat) /\ Len(Bytes(n)) = n /\ \A k \in 1..n : Bytes(n)[k] = k
  BY BytesAre
<1> QED
  BY <1>1

LEMMA PrefixByElements ==
  ASSUME NEW s \in Seq(Nat), NEW t \in Seq(Nat), Len(s) <= Len(t),
         \A k \in 1..Len(s) : s[k] = t[k]
  PROVE  Channel!Prefixed(s, t)
<1>1. /\ SubSeq(t, 1, Len(s)) \in Seq(Nat) /\ Len(SubSeq(t, 1, Len(s))) = Len(s)
      /\ \A k \in 1..Len(s) : SubSeq(t, 1, Len(s))[k] = t[k]
  OBVIOUS
<1>2. SubSeq(t, 1, Len(s)) = s
  BY <1>1
<1> QED
  BY <1>2 DEF Channel!Prefixed

LEMMA InitMaps == OInv /\ StreamInit => Channel!Init
<1> SUFFICES ASSUME OInv, StreamInit PROVE Channel!Init
  OBVIOUS
<1>1. taken = 0 /\ spc # "done" /\ delivered = <<>> /\ opc = "start"
  BY DEF StreamInit, Init, OpenerInit
<1>2. [k \in 1..taken |-> k] = <<>>
  BY <1>1
<1> QED
  BY <1>1, <1>2 DEF Channel!Init

(* Every step is a step of the channel, or changes nothing there. *)
LEMMA StepMaps == OInv /\ OInv' /\ [Next]_vars => Channel!Next \/ UNCHANGED Channel!channelVars
<1> SUFFICES ASSUME OInv, OInv', [Next]_vars
             PROVE  Channel!Next \/ UNCHANGED Channel!channelVars
  OBVIOUS
<1>0. taken \in Nat /\ taken' \in Nat
  BY DEF OInv, IInv, SenderTypeOK
<1>1. CASE Sender
  <2>1. spc # "done" /\ taken <= taken' /\ UNCHANGED <<opc, delivered>>
    BY <1>1, SenderGrows DEF Sender, OInv, openerVars
  <2>2. Channel!Prefixed(Bytes(taken), Bytes(taken'))
    <3>1. \A k \in 1..taken : Bytes(taken)[k] = Bytes(taken')[k]
      BY <1>0, <2>1, BytesAre
    <3> QED
      BY <1>0, <2>1, <3>1, BytesAre, PrefixByElements
  <2> QED
    BY <2>1, <2>2 DEF Channel!Next, Channel!Send, Bytes
<1>2. CASE OpenerNext
  <2>1. UNCHANGED senderVars /\ opc \in OpenerSteps \ {"complete", "failed"}
    BY <1>2, OpenerMoves
  <2>2. spc' = spc /\ taken' = taken
    BY <2>1 DEF senderVars
  <2>3. CASE MovesOn
    <3>1. opc' \in OpenerSteps /\ opc' # "complete" /\ delivered' = delivered
      BY <2>3 DEF MovesOn
    <3>2. CASE opc' = "failed"
      BY <2>1, <2>2, <3>1, <3>2 DEF Channel!Next, Channel!Reject
    <3>3. CASE opc' # "failed"
      BY <2>1, <2>2, <3>1, <3>3 DEF Channel!channelVars
    <3> QED
      BY <3>2, <3>3
  <2>4. CASE Delivers
    <3>1. /\ delivered \in Seq(Byte) /\ delivered' \in Seq(Byte)
          /\ Len(delivered') <= taken /\ \A k \in DOMAIN delivered' : delivered'[k] = k
          /\ \A k \in DOMAIN delivered : delivered[k] = k
          /\ opc' = "complete" => spc = "done" /\ Len(delivered') = taken
      BY <2>2 DEF OInv, Opened
    <3>2. delivered \in Seq(Nat) /\ delivered' \in Seq(Nat)
      BY <3>1, SealerAssumption DEF Byte
    <3>3. opc' \in {"frame", "complete"} /\ Len(delivered) <= Len(delivered')
      <4> DEFINE units == SubSeq(buffer, LengthUnits + 1, LengthUnits + length)
      <4>0. PICK last \in BOOLEAN : \E i \in Authentic(units, last) :
                 /\ delivered' = delivered \o sealed[i].data
                 /\ opc' = IF last THEN "complete" ELSE "frame"
        BY <2>4 DEF Delivers
      <4>1. PICK i \in Authentic(units, last) :
                 /\ delivered' = delivered \o sealed[i].data
                 /\ opc' = IF last THEN "complete" ELSE "frame"
        BY <4>0
      <4>2. sealed[i].data \in Seq(Byte)
        <5>1. i \in DOMAIN sealed /\ sealed \in Seq(Chunk)
          BY DEF Authentic, OInv, IInv, SenderTypeOK
        <5>2. sealed[i] \in Chunk
          BY <5>1
        <5> QED
          BY <5>2 DEF Chunk
      <4>3. Len(delivered') = Len(delivered) + Len(sealed[i].data)
        BY <3>1, <4>1, <4>2, Joined
      <4> QED
        BY <3>1, <4>1, <4>2, <4>3
    <3>4. Channel!Prefixed(delivered, delivered')
      <4>1. \A k \in 1..Len(delivered) : delivered[k] = delivered'[k]
        BY <3>1, <3>3
      <4> QED
        BY <3>2, <3>3, <4>1, PrefixByElements
    <3>5. Channel!Prefixed(delivered', Bytes(taken))
      <4> DEFINE s == delivered'
                 t == Bytes(taken)
      <4>1. \A k \in 1..Len(s) : s[k] = t[k]
        <5>1. Len(s) \in Nat /\ Len(s) <= taken /\ \A k \in 1..Len(s) : s[k] = k
          BY <3>1, <3>2
        <5>2. \A k \in 1..taken : t[k] = k
          BY <1>0, BytesAre
        <5> HIDE DEF s, t
        <5> QED
          BY <1>0, <5>1, <5>2
      <4>2. s \in Seq(Nat) /\ t \in Seq(Nat) /\ Len(s) <= Len(t)
        BY <1>0, <3>1, <3>2, BytesAre
      <4> HIDE DEF s, t
      <4>3. Channel!Prefixed(s, t)
        BY <4>1, <4>2, PrefixByElements
      <4> QED
        BY <4>3 DEF s, t
    <3>6. opc' = "complete" => delivered' = Bytes(taken)
      BY <1>0, <3>1, <3>2, AllBytes
    <3> QED
      BY <2>1, <2>2, <3>1, <3>3, <3>4, <3>5, <3>6
      DEF Channel!Next, Channel!Deliver, Bytes, OpenerSteps
  <2> QED
    BY <1>2, <2>3, <2>4, OpenerMoves
<1>3. CASE Tamper \/ UNCHANGED vars
  BY <1>3 DEF Tamper, vars, senderVars, openerVars, Channel!channelVars
<1> QED
  BY <1>1, <1>2, <1>3 DEF Next

(* The two ends refine the channel: what is delivered is a prefix of what was
   sent, and complete means all of it, after the sender ended. *)
THEOREM ChannelRefined == Spec => RefinesChannel
<1>1. StreamInit => Channel!Init
  BY InitMaps, StreamInitOInv
<1>2. OInv /\ OInv' /\ [Next]_vars => [Channel!Next]_(Channel!channelVars)
  BY StepMaps
<1> QED
  BY <1>1, <1>2, StreamInitOInv, NextOInv, PTL DEF Spec, RefinesChannel, Channel!Spec

(* No nonce is used twice and every chunk holds its own bytes, also with a
   receiver at the other end. *)
THEOREM ChunksAsSealed == Spec => [](NonceOnce /\ ChunksInPlace)
<1>1. OInv => NonceOnce /\ ChunksInPlace
  BY DEF OInv, IInv, SenderTypeOK, Counting, NonceOnce
<1> QED
  BY <1>1, StreamInitOInv, NextOInv, PTL DEF Spec
------------------------------------------------------------------------------
(* The units of the wire, and what the opener holds of them. *)
Unit == {"magic", "header", "altered", "length", "ciphertext"} \X Nat \X Nat

Wired ==
  /\ wire \in Seq(Unit) /\ buffer \in Seq(Unit)
  /\ opc \in OpenerSteps
  /\ length \in Nat
  /\ opc = "header" => length \in 1..MaxHeaderLen
  /\ opc = "body" => length \in TagLen..MaxFrame
  /\ keyMatches \in BOOLEAN /\ sourceEnded \in BOOLEAN
  /\ tampers \in 0..MaxTampers
  /\ sourceEnded => wire = <<>> /\ spc \in {"done", "failed"}

Held ==
  \E n \in PullSizes \cup {0} :
    \/ Len(buffer) <= LengthUnits + MaxFrame + n
    \/ Len(buffer) < MaxHeaderLen + n

WInv == OInv /\ Wired /\ Held

(* How the wire is put together and cut. *)
LEMMA Units ==
  /\ Prelude \in Seq(Unit) /\ Len(Prelude) = 4
  /\ Prelude[1] = Magic /\ Prelude[2] = Length(1)[1] /\ Prelude[3] = Length(1)[2] /\ Prelude[4] = Header
  /\ <<"altered", 0, 0>> \in Unit
<1>1. /\ Magic \in Unit /\ Header \in Unit /\ <<"altered", 0, 0>> \in Unit
      /\ <<"length", 1, 1>> \in Unit /\ <<"length", 1, 2>> \in Unit
  BY DEF Magic, Header, Unit
<1>2. Length(1) \in Seq(Unit) /\ Len(Length(1)) = 2
  BY <1>1 DEF Length
<1>3. <<Magic>> \in Seq(Unit) /\ Len(<<Magic>>) = 1 /\ <<Header>> \in Seq(Unit) /\ Len(<<Header>>) = 1
  BY <1>1
<1> DEFINE front == <<Magic>> \o Length(1)
<1>4. /\ front \in Seq(Unit) /\ Len(front) = 3
      /\ front[1] = Magic /\ front[2] = Length(1)[1] /\ front[3] = Length(1)[2]
  <2> HIDE DEF front
  <2>1. /\ front \in Seq(Unit) /\ Len(front) = 1 + 2
        /\ \A k \in 1..1 : front[k] = <<Magic>>[k]
        /\ \A k \in (1 + 1)..(1 + 2) : front[k] = Length(1)[k - 1]
    BY <1>2, <1>3, Joined DEF front
  <2> QED
    BY <2>1
<1> DEFINE back == <<Header>>
<1>5. Prelude = front \o back /\ back[1] = Header
  BY DEF Prelude
<1> HIDE DEF front, back
<1>6. back \in Seq(Unit) /\ Len(back) = 1
  BY <1>3 DEF back
<1>7. /\ front \o back \in Seq(Unit) /\ Len(front \o back) = Len(front) + Len(back)
      /\ \A k \in 1..Len(front) : (front \o back)[k] = front[k]
      /\ \A k \in (Len(front) + 1)..(Len(front) + Len(back)) : (front \o back)[k] = back[k - Len(front)]
  BY <1>4, <1>6, Joined
<1>8. /\ Len(front \o back) = 4 /\ \A k \in 1..3 : (front \o back)[k] = front[k]
      /\ (front \o back)[4] = back[1]
  BY <1>4, <1>6, <1>7
<1> QED
  BY <1>1, <1>4, <1>5, <1>7, <1>8

LEMMA FrameUnits ==
  ASSUME NEW i \in Nat, NEW n \in Nat
  PROVE  /\ Length(n) \in Seq(Unit) /\ Len(Length(n)) = LengthUnits
         /\ Ciphertext(i, n) \in Seq(Unit) /\ Len(Ciphertext(i, n)) = n + TagLen
         /\ Frame(i, n) \in Seq(Unit) /\ Len(Frame(i, n)) = LengthUnits + n + TagLen
<1>1. Length(n) \in Seq(Unit) /\ Len(Length(n)) = LengthUnits
  <2>1. <<"length", n, 1>> \in Unit /\ <<"length", n, 2>> \in Unit
    BY DEF Unit
  <2> QED
    BY <2>1 DEF Length, LengthUnits
<1>2. Ciphertext(i, n) \in Seq(Unit) /\ Len(Ciphertext(i, n)) = n + TagLen
  <2>1. \A k \in 1..(n + TagLen) : <<"ciphertext", i, k>> \in Unit
    BY DEF Unit
  <2>2. n + TagLen \in Nat
    BY DEF TagLen
  <2> QED
    BY <2>1, <2>2 DEF Ciphertext
<1>3. Length(n + TagLen) \in Seq(Unit) /\ Len(Length(n + TagLen)) = LengthUnits
  <2>1. <<"length", n + TagLen, 1>> \in Unit /\ <<"length", n + TagLen, 2>> \in Unit
    BY DEF Unit, TagLen
  <2> QED
    BY <2>1 DEF Length, LengthUnits
<1>4. /\ Frame(i, n) \in Seq(Unit)
      /\ Len(Frame(i, n)) = Len(Length(n + TagLen)) + Len(Ciphertext(i, n))
  BY <1>2, <1>3, Joined DEF Frame
<1>5. Len(Frame(i, n)) = LengthUnits + n + TagLen
  <2>1. Len(Frame(i, n)) = LengthUnits + (n + TagLen)
    BY <1>2, <1>3, <1>4
  <2> QED
    BY <2>1 DEF LengthUnits, TagLen
<1> QED
  BY <1>1, <1>2, <1>4, <1>5

LEMMA JoinedTwice ==
  ASSUME NEW S, NEW s \in Seq(S), NEW t \in Seq(S), NEW u \in Seq(S)
  PROVE  (s \o t) \o u = s \o (t \o u)
  OBVIOUS

LEMMA UnitsJoined ==
  \A s, t, u \in Seq(Unit) : (s \o t) \o u = s \o (t \o u)
  BY JoinedTwice

LEMMA SameUnits ==
  ASSUME NEW S, NEW s \in Seq(S), NEW t \in Seq(S), Len(s) = Len(t),
         \A k \in 1..Len(t) : s[k] = t[k]
  PROVE  s = t
  OBVIOUS

LEMMA Cut ==
  ASSUME NEW S, NEW s \in Seq(S), NEW n \in Nat
  PROVE  /\ Take(s, n) \in Seq(S) /\ Drop(s, n) \in Seq(S)
         /\ Len(Take(s, n)) <= n /\ Len(Drop(s, n)) <= Len(s)
         /\ n <= Len(s) => Len(Take(s, n)) = n /\ Len(Drop(s, n)) = Len(s) - n
         /\ Take(s, n) \o Drop(s, n) = s
         /\ \A k \in 1..Len(Take(s, n)) : Take(s, n)[k] = s[k]
         /\ Len(s) <= n => Drop(s, n) = <<>>
<1>1. CASE n < Len(s)
  <2>1. Take(s, n) = SubSeq(s, 1, n) /\ Drop(s, n) = SubSeq(s, n + 1, Len(s))
    BY <1>1 DEF Take, Drop
  <2> DEFINE a == SubSeq(s, 1, n)
             b == SubSeq(s, n + 1, Len(s))
  <2>2. /\ a \in Seq(S) /\ Len(a) = n /\ \A k \in 1..n : a[k] = s[k]
        /\ b \in Seq(S) /\ Len(b) = Len(s) - n /\ \A k \in 1..(Len(s) - n) : b[k] = s[n + k]
    BY <1>1
  <2> HIDE DEF a, b
  <2>3. a \o b = s
    <3>1. /\ a \o b \in Seq(S) /\ Len(a \o b) = Len(a) + Len(b)
          /\ \A k \in 1..Len(a) : (a \o b)[k] = a[k]
          /\ \A k \in (Len(a) + 1)..(Len(a) + Len(b)) : (a \o b)[k] = b[k - Len(a)]
      BY <2>2, Joined
    <3>2. Len(a \o b) = Len(s) /\ Len(s) \in Nat
      BY <1>1, <2>2, <3>1
    <3>3. ASSUME NEW k \in 1..Len(s) PROVE (a \o b)[k] = s[k]
      <4>1. CASE k <= n
        BY <1>1, <2>2, <3>1, <3>2, <4>1
      <4>2. CASE k > n
        <5>1. k - n \in 1..(Len(s) - n) /\ n + (k - n) = k /\ k \in (n + 1)..(n + (Len(s) - n))
          BY <1>1, <4>2
        <5> QED
          BY <2>2, <3>1, <5>1
      <4> QED
        BY <3>2, <4>1, <4>2
    <3> DEFINE c == a \o b
    <3>4. c \in Seq(S) /\ Len(c) = Len(s) /\ \A k \in 1..Len(s) : c[k] = s[k]
      BY <3>1, <3>2, <3>3
    <3> HIDE DEF c
    <3>5. c = s
      BY <3>4
    <3> QED
      BY <3>5 DEF c
  <2>4. Take(s, n) = a /\ Drop(s, n) = b
    BY <2>1 DEF a, b
  <2>5. Take(s, n) \o Drop(s, n) = s
    BY <2>3, <2>4
  <2>6. \A k \in 1..Len(Take(s, n)) : Take(s, n)[k] = s[k]
    BY <2>2, <2>4
  <2>7. Len(s) > n /\ Len(s) - n <= Len(s)
    BY <1>1
  <2> QED
    BY <2>2, <2>4, <2>5, <2>6, <2>7
<1>2. CASE n >= Len(s)
  <2>1. Take(s, n) = s
    BY <1>2 DEF Take
  <2>2. Drop(s, n) = <<>>
    BY <1>2 DEF Drop
  <2> QED
    BY <1>2, <2>1, <2>2
<1> QED
  BY <1>1, <1>2

(* What a step of the sender does to the wire. *)
Silent ==
  /\ UNCHANGED <<sealed, finished, wire>>
  /\ spc' = "failed" \/ (spc \notin {"prelude", "done"} /\ spc' \notin {"prelude", "done"})

Sends ==
  \E data \in Seq(Byte), last \in BOOLEAN :
    /\ Seal(data, last)
    /\ spc # "prelude" /\ spc' # "prelude"
    /\ spc' = "done" <=> last

LEMMA SenderWires ==
  ASSUME IInv, SenderNext
  PROVE  /\ spc \notin {"done", "failed"}
         /\ Silent \/ YieldPrelude \/ Sends
<1>0. IInv'
  BY NextIInv
<1>1. ASSUME NEW data, NEW last \in BOOLEAN, Seal(data, last) PROVE data \in Seq(Byte)
  <2> DEFINE c == [counter |-> counter, last |-> last, data |-> data]
  <2>1. sealed' = Append(sealed, c) /\ sealed \in Seq(Chunk) /\ sealed' \in Seq(Chunk)
    BY <1>0, <1>1 DEF Seal, IInv, SenderTypeOK
  <2>2. c.data = data
    OBVIOUS
  <2> HIDE DEF c
  <2>3. sealed'[Len(sealed) + 1] = c /\ Len(sealed) + 1 \in DOMAIN sealed'
    BY <2>1
  <2>4. c \in Chunk
    BY <2>1, <2>3
  <2> QED
    BY <2>2, <2>4 DEF Chunk
<1>2. CASE YieldPrelude
  BY <1>2 DEF YieldPrelude
<1>3. CASE ReadPiece \/ KeepPending \/ CarryOver \/ Abandon
  BY <1>3 DEF ReadPiece, KeepPending, CarryOver, Abandon, Silent, SenderSteps
<1>4. CASE SealPending
  <2>1. PICK data : Seal(data, FALSE)
    BY <1>4 DEF SealPending
  <2>2. spc = "join" /\ spc' \in {"failed", "slices"}
    BY <1>4 DEF SealPending
  <2> QED
    BY <1>1, <2>1, <2>2 DEF Sends
<1>5. CASE SealSlice
  <2>1. PICK data : Seal(data, FALSE)
    BY <1>5 DEF SealSlice
  <2>2. spc = "slices" /\ spc' \in {"failed", "slices"}
    BY <1>5 DEF SealSlice
  <2> QED
    BY <1>1, <2>1, <2>2 DEF Sends
<1>6. CASE SealLast
  <2>1. Seal(pending, TRUE) /\ spc = "pieces" /\ spc' = "done"
    BY <1>6 DEF SealLast
  <2> QED
    BY <1>1, <2>1 DEF Sends
<1>7. CASE \E n \in 0..ChunkSize, last \in BOOLEAN : SealChunk(n, last)
  <2>1. PICK n \in 0..ChunkSize, last \in BOOLEAN : SealChunk(n, last)
    BY <1>7
  <2>2. PICK data : Seal(data, last)
    BY <2>1 DEF SealChunk
  <2>3. spc = "direct" /\ spc' = IF last THEN "done" ELSE "direct"
    BY <2>1 DEF SealChunk
  <2> QED
    BY <1>1, <2>2, <2>3 DEF Sends
<1> QED
  BY <1>2, <1>3, <1>4, <1>5, <1>6, <1>7 DEF SenderNext

LEMMA SealWires ==
  ASSUME IInv, wire \in Seq(Unit), NEW data \in Seq(Byte), NEW last \in BOOLEAN, Seal(data, last)
  PROVE  wire' \in Seq(Unit)
<1>1. CASE TooMany(last)
  BY <1>1 DEF Seal
<1>2. CASE ~TooMany(last)
  <2>1. wire' = wire \o Frame(Len(sealed) + 1, Len(data)) /\ Len(sealed) + 1 \in Nat /\ Len(data) \in Nat
    BY <1>2 DEF Seal, IInv, SenderTypeOK
  <2>2. Frame(Len(sealed) + 1, Len(data)) \in Seq(Unit)
    BY <2>1, FrameUnits
  <2> QED
    BY <2>1, <2>2, Joined
<1> QED
  BY <1>1, <1>2

LEMMA SenderWired ==
  ASSUME IInv, Wired, Sender
  PROVE  Wired'
<1>1. /\ UNCHANGED openerVars /\ spc \notin {"done", "failed"}
      /\ Silent \/ YieldPrelude \/ Sends
  BY SenderWires DEF Sender
<1>2. wire' \in Seq(Unit)
  <2>1. CASE Silent
    BY <2>1 DEF Silent, Wired
  <2>2. CASE YieldPrelude
    BY <2>2, Units, Joined DEF YieldPrelude, Wired
  <2>3. CASE Sends
    BY <2>3, SealWires DEF Sends, Wired
  <2> QED
    BY <1>1, <2>1, <2>2, <2>3
<1> QED
  BY <1>1, <1>2 DEF Wired, openerVars

(* Whatever the transport does, what is left are units. *)
LEMMA TamperWired ==
  ASSUME Wired, Tamper
  PROVE  Wired'
<1>1. /\ UNCHANGED <<spc, opc, buffer, sourceEnded, length, keyMatches>>
      /\ tampers' \in 0..MaxTampers
  BY OpenerAssumption DEF Tamper, senderVars, Wired
<1>2. wire \in Seq(Unit)
  BY DEF Wired
<1>3. ASSUME NEW p \in 1..(Len(wire) + 1), NEW q \in 1..(Len(wire) + 1)
      PROVE  /\ Take(wire, p - 1) \in Seq(Unit) /\ Drop(wire, p - 1) \in Seq(Unit)
             /\ SubSeq(wire, p, q - 1) \in Seq(Unit)
  <2>1. p - 1 \in Nat /\ q - 1 \in 0..Len(wire)
    BY <1>2
  <2>2. SubSeq(wire, p, q - 1) \in Seq(Unit)
    BY <1>2, <2>1
  <2> QED
    BY <1>2, <2>1, <2>2, Cut
<1>4. wire' \in Seq(Unit)
  <2>0. Ends \subseteq 1..(Len(wire) + 1) /\ DOMAIN wire \subseteq 1..(Len(wire) + 1)
    BY <1>2 DEF Ends
  <2>1. ASSUME NEW p \in DOMAIN wire, wire' = Take(wire, p - 1) PROVE wire' \in Seq(Unit)
    BY <1>3, <2>0, <2>1
  <2>2. ASSUME NEW p \in DOMAIN wire, wire' = [wire EXCEPT ![p] = <<"altered", 0, 0>>]
        PROVE  wire' \in Seq(Unit)
    BY <1>2, <2>2, Units
  <2>3. ASSUME NEW p \in Ends, NEW q \in Ends,
               \/ wire' = Take(wire, p - 1) \o Drop(wire, q - 1)
               \/ wire' = Take(wire, q - 1) \o Drop(wire, p - 1)
        PROVE  wire' \in Seq(Unit)
    <3>1. /\ Take(wire, p - 1) \in Seq(Unit) /\ Drop(wire, q - 1) \in Seq(Unit)
          /\ Take(wire, q - 1) \in Seq(Unit) /\ Drop(wire, p - 1) \in Seq(Unit)
      BY <1>3, <2>0
    <3> QED
      BY <2>3, <3>1, Joined
  <2>4. ASSUME NEW p \in Ends, NEW q \in Ends, NEW r \in Ends,
               wire' = Take(wire, p - 1) \o SubSeq(wire, q, r - 1)
                         \o SubSeq(wire, p, q - 1) \o Drop(wire, r - 1)
        PROVE  wire' \in Seq(Unit)
    <3>1. /\ Take(wire, p - 1) \in Seq(Unit) /\ Drop(wire, r - 1) \in Seq(Unit)
          /\ SubSeq(wire, q, r - 1) \in Seq(Unit) /\ SubSeq(wire, p, q - 1) \in Seq(Unit)
      BY <1>3, <2>0
    <3>2. Take(wire, p - 1) \o SubSeq(wire, q, r - 1) \in Seq(Unit)
      BY <3>1, Joined
    <3>3. Take(wire, p - 1) \o SubSeq(wire, q, r - 1) \o SubSeq(wire, p, q - 1) \in Seq(Unit)
      BY <3>1, <3>2, Joined
    <3> QED
      BY <2>4, <3>1, <3>3, Joined
  <2>5. \/ \E p \in DOMAIN wire : wire' = Take(wire, p - 1)
        \/ \E p \in DOMAIN wire : wire' = [wire EXCEPT ![p] = <<"altered", 0, 0>>]
        \/ \E p, q \in Ends : \/ wire' = Take(wire, p - 1) \o Drop(wire, q - 1)
                              \/ wire' = Take(wire, q - 1) \o Drop(wire, p - 1)
        \/ \E p, q, r \in Ends : wire' = Take(wire, p - 1) \o SubSeq(wire, q, r - 1)
                                           \o SubSeq(wire, p, q - 1) \o Drop(wire, r - 1)
    BY DEF Tamper
  <2> QED
    BY <2>1, <2>2, <2>3, <2>4, <2>5
<1>5. sourceEnded => wire' = <<>>
  <2> SUFFICES ASSUME wire = <<>>, Ends = {1} PROVE FALSE
    <3>1. ASSUME wire = <<>> PROVE Ends = {1}
      <4>1. Starts = {}
        BY <3>1 DEF Starts
      <4> QED
        BY <3>1, <4>1 DEF Ends
    <3> QED
      BY <3>1 DEF Wired
  <2>1. DOMAIN wire = {}
    OBVIOUS
  <2> QED
    BY <2>1 DEF Tamper
<1> QED
  BY <1>1, <1>4, <1>5 DEF Wired

(* A turn of _Reader.fill moves units from the wire to the buffer, or sees the
   end of the source. *)
LEMMA PullMoves ==
  ASSUME Wired, Pull
  PROVE  /\ UNCHANGED <<senderVars, opc, length, keyMatches, openCounter, delivered, tampers>>
         /\ wire' \in Seq(Unit) /\ buffer' \in Seq(Unit)
         /\ buffer' \o wire' = buffer \o wire
         /\ \/ \E n \in PullSizes : Len(buffer') <= Len(buffer) + n /\ UNCHANGED sourceEnded
            \/ buffer' = buffer /\ wire' = <<>> /\ sourceEnded' = TRUE /\ spc \in {"done", "failed"}
<1>1. UNCHANGED <<senderVars, opc, length, keyMatches, openCounter, delivered, tampers>>
  BY DEF Pull
<1>2. wire \in Seq(Unit) /\ buffer \in Seq(Unit)
  BY DEF Wired
<1>3. ASSUME NEW n \in PullSizes, buffer' = buffer \o Take(wire, n), wire' = Drop(wire, n), UNCHANGED sourceEnded
      PROVE  /\ wire' \in Seq(Unit) /\ buffer' \in Seq(Unit)
             /\ buffer' \o wire' = buffer \o wire
             /\ Len(buffer') <= Len(buffer) + n
  <2>1. n \in Nat
    BY OpenerAssumption
  <2> DEFINE a == Take(wire, n)
             b == Drop(wire, n)
  <2>2. a \in Seq(Unit) /\ b \in Seq(Unit) /\ Len(a) <= n
    BY <1>2, <2>1, Cut
  <2>3. a \o b = wire
    BY <1>2, <2>1, Cut
  <2>4. buffer' = buffer \o a /\ wire' = b
    BY <1>3
  <2> HIDE DEF a, b
  <2>5. (buffer \o a) \o b = buffer \o (a \o b)
    BY <1>2, <2>2, UnitsJoined
  <2>6. buffer \o a \in Seq(Unit) /\ Len(buffer \o a) <= Len(buffer) + n
    BY <1>2, <2>1, <2>2, Joined
  <2> QED
    BY <2>2, <2>3, <2>4, <2>5, <2>6
<1>4. \/ \E n \in PullSizes : buffer' = buffer \o Take(wire, n) /\ wire' = Drop(wire, n) /\ UNCHANGED sourceEnded
      \/ /\ wire' = wire /\ wire = <<>> /\ spc \in {"done", "failed"}
         /\ sourceEnded' = TRUE /\ buffer' = buffer
  BY DEF Pull, SourceClosed
<1> QED
  BY <1>1, <1>2, <1>3, <1>4

(* The other steps take units off the buffer or leave it as it is. *)
LEMMA OpenerWired ==
  ASSUME OInv, Wired, Held, OpenerNext
  PROVE  Wired' /\ Held'
<1> USE SealerAssumption, OpenerAssumption
<1>0. /\ UNCHANGED senderVars /\ opc' \in OpenerSteps
  <2>1. OInv'
    BY NextOInv DEF Next
  <2> QED
    BY <2>1, OpenerMoves DEF OInv, Opened
<1>1. wire \in Seq(Unit) /\ buffer \in Seq(Unit) /\ length \in Nat /\ MaxFrame \in Nat /\ MaxFrame > TagLen
  BY DEF Wired, MaxFrame, TagLen
<1>2. CASE Pull
  <2>1. Wired'
    <3>1. /\ UNCHANGED <<spc, opc, length, keyMatches, tampers>>
          /\ wire' \in Seq(Unit) /\ buffer' \in Seq(Unit)
      BY <1>2, PullMoves DEF senderVars
    <3>2. /\ sourceEnded' \in BOOLEAN
          /\ sourceEnded' => wire' = <<>> /\ spc \in {"done", "failed"}
      BY <1>2, PullMoves DEF Pull, Wired
    <3> QED
      BY <3>1, <3>2 DEF Wired
  <2>2. Wanted <= LengthUnits + MaxFrame + 1 \/ Wanted <= MaxHeaderLen
    BY <1>1, SMTT(30) DEF Wanted, Wired, LengthUnits, MaxFrame, TagLen
  <2>3. Wanted \in Nat /\ Len(buffer) < Wanted
    <3>1. Wanted \in Nat
      BY <1>1 DEF Wanted, LengthUnits
    <3> QED
      BY <1>2, <3>1 DEF Pull
  <2>4. Held'
    <3>1. CASE buffer' = buffer
      BY <3>1 DEF Held
    <3>2. ASSUME NEW n \in PullSizes, Len(buffer') <= Len(buffer) + n PROVE Held'
      <4>1. n \in Nat /\ Len(buffer) \in Nat /\ buffer' \in Seq(Unit)
        BY <1>1, <2>1 DEF Wired
      <4>2. Len(buffer') <= LengthUnits + MaxFrame + n \/ Len(buffer') < MaxHeaderLen + n
        BY <1>1, <2>2, <2>3, <3>2, <4>1 DEF LengthUnits
      <4> QED
        BY <4>2 DEF Held
    <3> QED
      BY <1>2, <3>1, <3>2, PullMoves
  <2> QED
    BY <2>1, <2>4
<1>3. ASSUME UNCHANGED <<senderVars, wire, sourceEnded, tampers>>,
             buffer' = buffer \/ \E n \in Nat : buffer' = Drop(buffer, n)
      PROVE  buffer' \in Seq(Unit) /\ Len(buffer') <= Len(buffer) /\ Held'
  <2>1. buffer' \in Seq(Unit) /\ Len(buffer') <= Len(buffer)
    BY <1>1, <1>3, Cut
  <2>2. PICK n \in PullSizes \cup {0} : \/ Len(buffer) <= LengthUnits + MaxFrame + n
                                        \/ Len(buffer) < MaxHeaderLen + n
    BY DEF Held
  <2>3. n \in Nat
    OBVIOUS
  <2>4. \/ Len(buffer') <= LengthUnits + MaxFrame + n
        \/ Len(buffer') < MaxHeaderLen + n
    BY <1>1, <2>1, <2>2, <2>3 DEF LengthUnits
  <2> QED
    BY <2>1, <2>4 DEF Held
<1>4. CASE Fail
  BY <1>3, <1>4 DEF Fail, Wired, OpenerSteps, senderVars
<1>5. CASE ReadPrelude /\ ~Fail
  <2>1. PICK n \in Readings(SubSeq(buffer, 2, 1 + LengthUnits), MaxHeaderLen) :
          /\ ~(n = 0 \/ n > MaxHeaderLen) /\ length' = n
          /\ buffer' = Drop(buffer, 1 + LengthUnits) /\ opc' = "header"
          /\ UNCHANGED <<senderVars, wire, sourceEnded, keyMatches, openCounter, delivered, tampers>>
    BY <1>5 DEF ReadPrelude
  <2>2. n \in Nat
    BY <2>1 DEF Readings
  <2>3. length' \in 1..MaxHeaderLen /\ 1 + LengthUnits \in Nat
    BY <2>1, <2>2 DEF LengthUnits
  <2> QED
    BY <1>3, <2>1, <2>3 DEF Wired, OpenerSteps, senderVars
<1>6. CASE ReadHeader /\ ~Fail
  <2>1. /\ keyMatches' = (keyMatches /\ Take(buffer, length) = <<Header>>)
        /\ buffer' = Drop(buffer, length) /\ opc' = "frame"
        /\ UNCHANGED <<senderVars, wire, sourceEnded, length, openCounter, delivered, tampers>>
    BY <1>6 DEF ReadHeader
  <2>2. keyMatches' \in BOOLEAN
    BY <2>1
  <2> QED
    BY <1>1, <1>3, <2>1, <2>2 DEF Wired, OpenerSteps, senderVars
<1>7. CASE ReadLength /\ ~Fail
  <2>1. PICK n \in Readings(Take(buffer, LengthUnits), MaxFrame) :
          /\ ~(n < TagLen \/ n > MaxFrame) /\ length' = n /\ opc' = "body"
          /\ UNCHANGED <<senderVars, wire, buffer, sourceEnded, keyMatches, openCounter, delivered, tampers>>
    BY <1>7 DEF ReadLength
  <2>2. n \in Nat
    BY <1>1, <2>1 DEF Readings
  <2>3. length' \in TagLen..MaxFrame
    BY <1>1, <2>1, <2>2 DEF TagLen
  <2> QED
    BY <1>3, <2>1, <2>2, <2>3 DEF Wired, OpenerSteps, senderVars
<1>8. CASE OpenFrame /\ ~Fail
  <2>1. /\ buffer' = Drop(buffer, LengthUnits + length) /\ opc' \in {"complete", "frame"}
        /\ UNCHANGED <<senderVars, wire, sourceEnded, length, keyMatches, tampers>>
    BY <1>8 DEF OpenFrame
  <2>2. LengthUnits + length \in Nat
    BY <1>1 DEF LengthUnits
  <2> QED
    BY <1>1, <1>3, <2>1, <2>2 DEF Wired, OpenerSteps, senderVars
<1> QED
  BY <1>2, <1>4, <1>5, <1>6, <1>7, <1>8 DEF OpenerNext

LEMMA StreamInitWInv == StreamInit => WInv
<1> SUFFICES ASSUME StreamInit PROVE WInv
  OBVIOUS
<1> USE SealerAssumption, OpenerAssumption
<1>1. wire \in Seq(Unit)
  BY Units DEF StreamInit, Init
<1>2. buffer = <<>> /\ opc = "start" /\ length = 0 /\ keyMatches \in BOOLEAN /\ sourceEnded = FALSE /\ tampers = 0
  BY DEF StreamInit, OpenerInit
<1>3. Wired
  <2>1. buffer \in Seq(Unit) /\ tampers \in 0..MaxTampers /\ length \in Nat
    BY <1>2
  <2> QED
    BY <1>1, <1>2, <2>1 DEF Wired, OpenerSteps
<1>4. Held
  <2>1. Len(buffer) = 0 /\ 0 \in PullSizes \cup {0} /\ 0 < MaxHeaderLen + 0
    BY <1>2
  <2> QED
    BY <2>1 DEF Held
<1> QED
  BY <1>3, <1>4, StreamInitOInv DEF WInv

LEMMA NextWInv == WInv /\ [Next]_vars => WInv'
<1> SUFFICES ASSUME WInv, [Next]_vars PROVE WInv'
  OBVIOUS
<1>1. OInv'
  BY NextOInv DEF WInv
<1>2. CASE Sender
  BY <1>1, <1>2, SenderWired DEF WInv, OInv, Sender, openerVars, Held
<1>3. CASE OpenerNext
  BY <1>1, <1>3, OpenerWired DEF WInv
<1>4. CASE Tamper
  BY <1>1, <1>4, TamperWired DEF WInv, Tamper, Held
<1>5. CASE UNCHANGED vars
  BY <1>1, <1>5 DEF WInv, vars, openerVars, senderVars, Wired, Held
<1> QED
  BY <1>2, <1>3, <1>4, <1>5 DEF Next

(* Neither side holds more than a frame and a piece, whatever the transport
   makes of the lengths on the wire. *)
THEOREM MemoryStaysBounded == Spec => []MemoryBounded
<1>1. WInv => MemoryBounded
  BY DEF WInv, OInv, IInv, Held, MemoryBounded
<1> QED
  BY <1>1, StreamInitWInv, NextWInv, PTL DEF Spec
------------------------------------------------------------------------------
(* rest is made of the frames c + 1 .. n of the chunks: what follows each frame
   is one of the parts, and nothing follows the last. *)
FramesOf(chunks, n, c, rest) ==
  /\ c \in 0..n
  /\ \E parts \in [0..n -> Seq(Unit)] :
       /\ parts[c] = rest
       /\ parts[n] = <<>>
       /\ \A i \in c..(n - 1) : parts[i] = Frame(i + 1, Len(chunks[i + 1].data)) \o parts[i + 1]

(* No frame is the same as nothing to send. *)
LEMMA FramesNone ==
  ASSUME NEW chunks
  PROVE  FramesOf(chunks, 0, 0, <<>>)
<1> DEFINE parts == [i \in 0..0 |-> <<>>]
<1>1. parts \in [0..0 -> Seq(Unit)] /\ parts[0] = <<>>
  OBVIOUS
<1> HIDE DEF parts
<1>2. 0..(0 - 1) = {}
  OBVIOUS
<1> QED
  BY <1>1, <1>2 DEF FramesOf

(* The sender appends a frame. *)
LEMMA FramesGrow ==
  ASSUME NEW chunks, NEW more, NEW n \in Nat, NEW c, NEW rest,
         FramesOf(chunks, n, c, rest),
         \A i \in 1..(n + 1) : Len(more[i].data) \in Nat,
         \A i \in 1..n : more[i] = chunks[i]
  PROVE  FramesOf(more, n + 1, c, rest \o Frame(n + 1, Len(more[n + 1].data)))
<1> DEFINE f == Frame(n + 1, Len(more[n + 1].data))
<1>1. f \in Seq(Unit)
  <2>1. n + 1 \in Nat /\ n + 1 \in 1..(n + 1)
    OBVIOUS
  <2> QED
    BY <2>1, FrameUnits
<1>2. PICK parts \in [0..n -> Seq(Unit)] :
        /\ parts[c] = rest
        /\ parts[n] = <<>>
        /\ \A i \in c..(n - 1) : parts[i] = Frame(i + 1, Len(chunks[i + 1].data)) \o parts[i + 1]
  BY DEF FramesOf
<1>3. c \in 0..n
  BY DEF FramesOf
<1> HIDE DEF f
<1> DEFINE longer == [i \in 0..(n + 1) |-> IF i = n + 1 THEN <<>> ELSE parts[i] \o f]
<1>4. longer \in [0..(n + 1) -> Seq(Unit)]
  <2>1. ASSUME NEW i \in 0..(n + 1), i # n + 1 PROVE parts[i] \o f \in Seq(Unit)
    <3>1. i \in 0..n
      BY <2>1
    <3>2. parts[i] \in Seq(Unit)
      BY <3>1
    <3> QED
      BY <1>1, <3>2, Joined
  <2>2. <<>> \in Seq(Unit)
    OBVIOUS
  <2> QED
    BY <2>1, <2>2
<1>5. longer[n + 1] = <<>> /\ \A i \in 0..n : longer[i] = parts[i] \o f
  OBVIOUS
<1> HIDE DEF longer
<1>6. longer[c] = rest \o f
  BY <1>2, <1>3, <1>5
<1>7. ASSUME NEW i \in c..n PROVE longer[i] = Frame(i + 1, Len(more[i + 1].data)) \o longer[i + 1]
  <2>1. i \in Nat /\ i \in 0..n
    BY <1>3
  <2>2. longer[i] = parts[i] \o f
    BY <1>5, <2>1
  <2>3. CASE i = n
    <3>1. parts[i] = <<>> /\ longer[i + 1] = <<>>
      BY <1>2, <1>5, <2>3
    <3>2. <<>> \o f = f /\ f \o <<>> = f
      BY <1>1
    <3> QED
      BY <2>2, <2>3, <3>1, <3>2 DEF f
  <2>4. CASE i # n
    <3>1. i \in c..(n - 1) /\ i + 1 \in Nat /\ i + 1 \in 0..n /\ i + 1 \in 1..n /\ i + 1 \in 1..(n + 1)
      BY <1>3, <2>1, <2>4
    <3> DEFINE g == Frame(i + 1, Len(more[i + 1].data))
               p == parts[i + 1]
    <3>2. g \in Seq(Unit)
      BY <3>1, FrameUnits
    <3>3. p \in Seq(Unit)
      BY <3>1
    <3>4. parts[i] = g \o p /\ longer[i + 1] = p \o f
      BY <1>2, <1>5, <3>1
    <3> HIDE DEF g, p
    <3>5. (g \o p) \o f = g \o (p \o f)
      BY <1>1, <3>2, <3>3, UnitsJoined
    <3>6. longer[i] = (g \o p) \o f
      BY <2>2, <3>4
    <3> QED
      BY <3>4, <3>5, <3>6 DEF g
  <2> QED
    BY <2>3, <2>4
<1>8. c \in 0..(n + 1) /\ (n + 1) - 1 = n
  BY <1>3
<1>9. FramesOf(more, n + 1, c, rest \o f)
  BY <1>4, <1>5, <1>6, <1>7, <1>8 DEF FramesOf
<1> QED
  BY <1>9 DEF f

(* The frames after the first. *)
LEMMA FramesNext ==
  ASSUME NEW chunks, NEW n \in Nat, NEW c, NEW rest,
         FramesOf(chunks, n, c, rest),
         \A i \in 1..n : Len(chunks[i].data) \in Nat
  PROVE  /\ rest \in Seq(Unit)
         /\ c = n => rest = <<>>
         /\ c < n => \E others \in Seq(Unit) :
              /\ rest = Frame(c + 1, Len(chunks[c + 1].data)) \o others
              /\ FramesOf(chunks, n, c + 1, others)
<1>1. PICK parts \in [0..n -> Seq(Unit)] :
        /\ parts[c] = rest
        /\ parts[n] = <<>>
        /\ \A i \in c..(n - 1) : parts[i] = Frame(i + 1, Len(chunks[i + 1].data)) \o parts[i + 1]
  BY DEF FramesOf
<1>2. c \in 0..n
  BY DEF FramesOf
<1>3. ASSUME c < n
      PROVE  /\ parts[c + 1] \in Seq(Unit)
             /\ rest = Frame(c + 1, Len(chunks[c + 1].data)) \o parts[c + 1]
             /\ FramesOf(chunks, n, c + 1, parts[c + 1])
  <2>1. c + 1 \in 0..n /\ c \in c..(n - 1) /\ (c + 1)..(n - 1) \subseteq c..(n - 1)
    BY <1>2, <1>3
  <2> QED
    BY <1>1, <2>1 DEF FramesOf
<1> QED
  BY <1>1, <1>2, <1>3

(* Two ways to cut the same units. *)
Joins(b, w, f, r) == b \o w = f \o r

CutAlike(b, w, f, r) ==
  /\ Len(b) + Len(w) = Len(f) + Len(r)
  /\ \A k \in 1..Len(b) : k <= Len(f) => b[k] = f[k]
  /\ Len(f) <= Len(b) => Drop(b, Len(f)) \o w = r

LEMMA SameJoin ==
  ASSUME NEW b \in Seq(Unit), NEW w \in Seq(Unit), NEW f \in Seq(Unit), NEW r \in Seq(Unit)
  PROVE  Joins(b, w, f, r) => CutAlike(b, w, f, r)
<1>0. SUFFICES ASSUME b \o w = f \o r PROVE CutAlike(b, w, f, r)
  BY DEF Joins
<1> DEFINE both == b \o w
           same == f \o r
<1>1. /\ Len(both) = Len(b) + Len(w)
      /\ \A k \in 1..Len(b) : both[k] = b[k]
      /\ \A k \in (Len(b) + 1)..(Len(b) + Len(w)) : both[k] = w[k - Len(b)]
  OBVIOUS
<1>2. /\ Len(same) = Len(f) + Len(r)
      /\ \A k \in 1..Len(f) : same[k] = f[k]
      /\ \A k \in (Len(f) + 1)..(Len(f) + Len(r)) : same[k] = r[k - Len(f)]
  OBVIOUS
<1>3. both = same
  BY <1>0
<1> HIDE DEF both, same
<1>4. Len(b) \in Nat /\ Len(w) \in Nat /\ Len(f) \in Nat /\ Len(r) \in Nat
  OBVIOUS
<1>5. ASSUME Len(f) <= Len(b) PROVE Drop(b, Len(f)) \o w = r
  <2> DEFINE d == Drop(b, Len(f))
  <2>1. d \in Seq(Unit) /\ Len(d) = Len(b) - Len(f) /\ \A k \in 1..Len(d) : d[k] = b[Len(f) + k]
    BY <1>4, <1>5 DEF Drop
  <2>0. d \in Seq(Unit)
    BY <1>4, <1>5 DEF Drop
  <2> HIDE DEF d
  <2> DEFINE e == d \o w
  <2>2. /\ e \in Seq(Unit) /\ Len(e) = Len(d) + Len(w)
        /\ \A k \in 1..Len(d) : e[k] = d[k]
        /\ \A k \in (Len(d) + 1)..(Len(d) + Len(w)) : e[k] = w[k - Len(d)]
    BY <2>0, Joined
  <2> HIDE DEF e
  <2>3. Len(e) = Len(r)
    <3>1. Len(b) + Len(w) = Len(f) + Len(r)
      BY <1>1, <1>2, <1>3
    <3>2. Len(e) = (Len(b) - Len(f)) + Len(w)
      BY <2>1, <2>2
    <3> QED
      BY <1>4, <3>1, <3>2
  <2>4. ASSUME NEW k \in 1..Len(r) PROVE e[k] = r[k]
    <3>1. same[Len(f) + k] = r[k]
      <4>1. Len(f) + k \in (Len(f) + 1)..(Len(f) + Len(r)) /\ (Len(f) + k) - Len(f) = k
        BY <1>4
      <4> QED
        BY <1>2, <4>1
    <3>2. CASE k <= Len(d)
      <4>1. k \in 1..Len(d) /\ Len(f) + k \in 1..Len(b)
        BY <1>4, <2>1, <3>2
      <4> QED
        BY <1>1, <1>3, <2>1, <2>2, <3>1, <4>1
    <3>3. CASE k > Len(d)
      <4>1. /\ k \in (Len(d) + 1)..(Len(d) + Len(w))
            /\ Len(f) + k \in (Len(b) + 1)..(Len(b) + Len(w))
            /\ (Len(f) + k) - Len(b) = k - Len(d)
        BY <1>4, <2>1, <2>2, <2>3, <3>3
      <4>2. both[Len(f) + k] = w[(Len(f) + k) - Len(b)]
        BY <1>1, <4>1
      <4>3. e[k] = w[k - Len(d)]
        BY <2>2, <4>1
      <4> QED
        BY <1>3, <3>1, <4>1, <4>2, <4>3
    <3> QED
      BY <1>4, <2>1, <3>2, <3>3
  <2>5. e = r
    <3>1. e \in Seq(Unit)
      BY <2>2
    <3> QED
      BY <2>3, <2>4, <3>1, SameUnits, ZenonT(30)
  <2> QED
    BY <2>5 DEF e, d
<1>6. \A k \in 1..Len(b) : k <= Len(f) => b[k] = f[k]
  BY <1>1, <1>2, <1>3, <1>4
<1>7. Len(b) + Len(w) = Len(f) + Len(r)
  BY <1>1, <1>2, <1>3
<1> QED
  BY <1>5, <1>6, <1>7 DEF CutAlike

(* A frame starts with a length that says how long it is, and goes on with
   its ciphertext. *)
FrameAlike(b, w, i, n, r) ==
  /\ Len(b) + Len(w) >= LengthUnits + n + TagLen
  /\ Len(b) >= LengthUnits => Take(b, LengthUnits) = Length(n + TagLen)
  /\ Len(b) >= LengthUnits + n + TagLen =>
       /\ SubSeq(b, LengthUnits + 1, LengthUnits + n + TagLen) = Ciphertext(i, n)
       /\ Drop(b, LengthUnits + n + TagLen) \o w = r
  /\ r = <<>> => Len(b) + Len(w) = LengthUnits + n + TagLen

LEMMA FrameReads ==
  ASSUME NEW i \in Nat, NEW n \in Nat, NEW b \in Seq(Unit), NEW w \in Seq(Unit), NEW r \in Seq(Unit)
  PROVE  Joins(b, w, Frame(i, n), r) => FrameAlike(b, w, i, n, r)
<1>0. SUFFICES ASSUME Joins(b, w, Frame(i, n), r) PROVE FrameAlike(b, w, i, n, r)
  OBVIOUS
<1> DEFINE l == Length(n + TagLen)
           x == Ciphertext(i, n)
           f == Frame(i, n)
<1>1. /\ l \in Seq(Unit) /\ Len(l) = 2 /\ x \in Seq(Unit) /\ Len(x) = n + 1
      /\ f \in Seq(Unit) /\ Len(f) = n + 3
  <2>1. n + TagLen \in Nat /\ LengthUnits = 2 /\ TagLen = 1
    BY DEF TagLen, LengthUnits
  <2>2. l \in Seq(Unit) /\ Len(l) = LengthUnits
    BY <2>1, FrameUnits
  <2>3. x \in Seq(Unit) /\ Len(x) = n + TagLen /\ f \in Seq(Unit) /\ Len(f) = LengthUnits + n + TagLen
    BY FrameUnits
  <2> QED
    BY <2>1, <2>2, <2>3
<1>2. f = l \o x
  BY DEF Frame
<1>3. Joins(b, w, f, r)
  BY <1>0
<1> HIDE DEF l, x, f
<1>4. /\ \A k \in 1..2 : f[k] = l[k]
      /\ \A k \in 3..(n + 3) : f[k] = x[k - 2]
  <2>1. /\ \A k \in 1..Len(l) : (l \o x)[k] = l[k]
        /\ \A k \in (Len(l) + 1)..(Len(l) + Len(x)) : (l \o x)[k] = x[k - Len(l)]
    BY <1>1, Joined
  <2>2. Len(l) + Len(x) = n + 3 /\ Len(l) + 1 = 3
    BY <1>1
  <2> QED
    BY <1>1, <1>2, <2>1, <2>2
<1>5. /\ Len(b) + Len(w) = Len(f) + Len(r)
      /\ \A k \in 1..Len(b) : k <= Len(f) => b[k] = f[k]
      /\ Len(f) <= Len(b) => Drop(b, Len(f)) \o w = r
  <2>1. CutAlike(b, w, f, r)
    BY <1>1, <1>3, SameJoin, Zenon
  <2> QED
    BY <2>1 DEF CutAlike
<1>6. Len(b) \in Nat /\ Len(w) \in Nat /\ Len(r) \in Nat
  OBVIOUS
<1>7. ASSUME Len(b) >= 2 PROVE Take(b, 2) = l
  <2> DEFINE t == Take(b, 2)
  <2>0. 2 \in Nat /\ 2 <= Len(b)
    BY <1>6, <1>7
  <2>1. t \in Seq(Unit) /\ Len(t) = 2 /\ \A k \in 1..Len(t) : t[k] = b[k]
    BY <2>0, Cut
  <2> HIDE DEF t
  <2>2. \A k \in 1..2 : t[k] = l[k]
    BY <1>1, <1>4, <1>5, <1>6, <1>7, <2>1
  <2>3. t = l
    BY <1>1, <2>1, <2>2, SMTT(30)
  <2> QED
    BY <2>3 DEF t
<1>8. ASSUME Len(b) >= n + 3 PROVE SubSeq(b, 3, n + 3) = x
  <2> DEFINE t == SubSeq(b, 3, n + 3)
  <2>1. t \in Seq(Unit) /\ Len(t) = n + 1 /\ \A k \in 1..(n + 1) : t[k] = b[k + 2]
    BY <1>6, <1>8
  <2> HIDE DEF t
  <2>2. ASSUME NEW k \in 1..(n + 1) PROVE t[k] = x[k]
    <3>1. k + 2 \in 3..(n + 3) /\ k + 2 \in 1..Len(b) /\ k + 2 <= Len(f) /\ (k + 2) - 2 = k
      BY <1>1, <1>6, <1>8
    <3>2. b[k + 2] = f[k + 2] /\ f[k + 2] = x[(k + 2) - 2]
      BY <1>4, <1>5, <3>1
    <3> QED
      BY <2>1, <3>1, <3>2
  <2>3. t = x
    BY <1>1, <2>1, <2>2
  <2> QED
    BY <2>3 DEF t
<1>9. LengthUnits = 2 /\ LengthUnits + 1 = 3 /\ LengthUnits + n + TagLen = n + 3
  BY DEF LengthUnits, TagLen
<1>10. Len(b) + Len(w) >= n + 3 /\ (r = <<>> => Len(b) + Len(w) = n + 3)
  BY <1>1, <1>5, <1>6
<1>11. Len(b) >= n + 3 => Drop(b, n + 3) \o w = r
  BY <1>1, <1>5
<1> QED
  BY <1>7, <1>8, <1>9, <1>10, <1>11 DEF FrameAlike, l, x
------------------------------------------------------------------------------
(* How many of the chunks were put on the wire: the one that did not fit in
   the counter was not. *)
Sent == IF finished /\ ~sealed[Len(sealed)].last THEN Len(sealed) - 1 ELSE Len(sealed)

(* No chunk is too long, and only the end of the stream is marked as last. *)
EndMarked ==
  /\ \A i \in DOMAIN sealed : Len(sealed[i].data) <= ChunkSize
  /\ \A i \in DOMAIN sealed : sealed[i].last => finished /\ i = Len(sealed)
  /\ spc = "done" => sealed # <<>> /\ sealed[Len(sealed)].last
  /\ spc = "prelude" => sealed = <<>> /\ ~finished

InTransit == buffer \o wire

(* While nothing has disturbed the stream, what the opener has not consumed is
   the rest of what was sent, from the place where its next step reads. *)
Layout ==
  /\ opc # "failed"
  /\ opc \in {"start", "header"} => openCounter = 0
  /\ spc = "prelude" => opc = "start" /\ buffer = <<>> /\ wire = <<>>
  /\ opc = "start" /\ spc # "prelude" =>
       \E r \in Seq(Unit) : InTransit = Prelude \o r /\ FramesOf(sealed, Sent, 0, r)
  /\ opc = "header" =>
       length = 1 /\ \E r \in Seq(Unit) : InTransit = <<Header>> \o r /\ FramesOf(sealed, Sent, 0, r)
  /\ opc \in {"frame", "body"} => FramesOf(sealed, Sent, openCounter, InTransit)
  /\ opc = "frame" => openCounter = 0 \/ openCounter < Sent
  /\ opc = "body" => openCounter < Sent /\ length = Len(sealed[openCounter + 1].data) + TagLen

Undisturbed == tampers = 0 /\ keyMatches /\ spc # "failed"

LInv == WInv /\ EndMarked /\ (Undisturbed => Layout)

LEMMA SentChunks ==
  ASSUME IInv, EndMarked
  PROVE  /\ Sent \in Nat /\ Sent <= Len(sealed) /\ Len(sealed) <= MaxCounter + 1
         /\ Len(sealed) \in Nat /\ sealed \in Seq(Chunk)
         /\ \A i \in 1..Len(sealed) : /\ sealed[i].data \in Seq(Byte)
                                      /\ Len(sealed[i].data) \in 0..ChunkSize
                                      /\ sealed[i].last \in BOOLEAN
                                      /\ sealed[i].counter = i - 1
                                      /\ ~sealed[i].last => Len(sealed[i].data) = ChunkSize
<1> USE SealerAssumption
<1>1. sealed \in Seq(Chunk) /\ counter \in 0..MaxCounter /\ finished \in BOOLEAN
  BY DEF IInv, SenderTypeOK
<1>2. Len(sealed) = IF finished THEN counter + 1 ELSE counter
  BY DEF IInv, Counting
<1>3. ASSUME NEW i \in 1..Len(sealed)
      PROVE  /\ sealed[i].data \in Seq(Byte) /\ sealed[i].last \in BOOLEAN
             /\ sealed[i].counter = i - 1
             /\ ~sealed[i].last => Len(sealed[i].data) = ChunkSize
  <2>1. sealed[i] \in Chunk
    BY <1>1
  <2> QED
    BY <1>1, <2>1, SMTT(30) DEF Chunk, IInv, Counting, ChunkShape
<1>4. ASSUME NEW i \in 1..Len(sealed) PROVE Len(sealed[i].data) <= ChunkSize
  BY <1>1 DEF EndMarked
<1>5. Len(sealed) \in Nat /\ Len(sealed) <= MaxCounter + 1 /\ (finished => Len(sealed) >= 1)
  BY <1>1, <1>2
<1>6. Sent \in Nat /\ Sent <= Len(sealed)
  BY <1>5 DEF Sent
<1> QED
  BY <1>1, <1>3, <1>4, <1>5, <1>6

LEMMA EndMarkedKept ==
  ASSUME IInv, EndMarked, SenderNext
  PROVE  EndMarked'
<1>1. CASE Silent
  BY <1>1, SenderWires DEF Silent, EndMarked
<1>2. CASE YieldPrelude
  BY <1>2 DEF YieldPrelude, EndMarked
<1>3. CASE Sends
  <2>1. PICK data \in Seq(Byte), last \in BOOLEAN :
          Seal(data, last) /\ spc # "prelude" /\ spc' # "prelude" /\ (spc' = "done" <=> last)
    BY <1>3 DEF Sends
  <2> DEFINE c == [counter |-> counter, last |-> last, data |-> data]
  <2>2. c.data = data /\ c.last = last
    OBVIOUS
  <2>3. /\ ~finished /\ Len(data) <= ChunkSize /\ finished' = (last \/ TooMany(last))
        /\ sealed' = Append(sealed, c) /\ sealed \in Seq(Chunk)
    BY <2>1 DEF Seal, Accepts, Finishes, IInv, SenderTypeOK
  <2> HIDE DEF c
  <2>4. /\ DOMAIN sealed' = 1..(Len(sealed) + 1) /\ Len(sealed') = Len(sealed) + 1
        /\ sealed'[Len(sealed) + 1] = c
        /\ \A i \in DOMAIN sealed : sealed'[i] = sealed[i] /\ ~sealed[i].last
        /\ DOMAIN sealed = 1..Len(sealed) /\ Len(sealed) \in Nat
    BY <2>3 DEF EndMarked
  <2>5. ASSUME NEW i \in DOMAIN sealed'
        PROVE  Len(sealed'[i].data) <= ChunkSize /\ (sealed'[i].last => finished' /\ i = Len(sealed'))
    <3>1. CASE i = Len(sealed) + 1
      BY <2>2, <2>3, <2>4, <3>1
    <3>2. CASE i # Len(sealed) + 1
      <4>1. i \in DOMAIN sealed
        BY <2>4, <3>2
      <4> QED
        BY <2>4, <4>1 DEF EndMarked
    <3> QED
      BY <3>1, <3>2
  <2>6. last => sealed'[Len(sealed')].last /\ sealed' # <<>>
    <3>1. Len(sealed') # 0 /\ Len(<<>>) = 0
      BY <2>4
    <3> QED
      BY <2>2, <2>4, <3>1
  <2> QED
    BY <2>1, <2>5, <2>6 DEF EndMarked
<1> QED
  BY <1>1, <1>2, <1>3, SenderWires

(* Sealing puts one more frame on the wire, or none when the counter is at its
   limit. *)
LEMMA SendsFrame ==
  ASSUME IInv, EndMarked, wire \in Seq(Unit), SenderNext, Sends
  PROVE  /\ Sent \in Nat /\ Sent' \in Nat /\ Sent <= Sent'
         /\ \A i \in 1..Sent : sealed'[i] = sealed[i]
         /\ \E more \in Seq(Unit) :
              /\ wire' = wire \o more
              /\ \A c, rest : FramesOf(sealed, Sent, c, rest) =>
                   FramesOf(sealed', Sent', c, rest \o more)
<1>0. IInv' /\ EndMarked'
  BY NextIInv, EndMarkedKept
<1>1. PICK data \in Seq(Byte), last \in BOOLEAN : Seal(data, last)
  BY DEF Sends
<1> DEFINE c == [counter |-> counter, last |-> last, data |-> data]
<1>2. c.data = data /\ c.last = last
  OBVIOUS
<1>3. /\ ~finished /\ finished' = (last \/ TooMany(last))
      /\ sealed' = Append(sealed, c) /\ sealed \in Seq(Chunk)
  BY <1>1 DEF Seal, Accepts, Finishes, IInv, SenderTypeOK
<1> HIDE DEF c
<1>4. /\ Len(sealed) \in Nat /\ Len(sealed') = Len(sealed) + 1 /\ sealed'[Len(sealed) + 1] = c
      /\ \A i \in 1..Len(sealed) : sealed'[i] = sealed[i]
  BY <1>3
<1>5. Sent = Len(sealed)
  BY <1>3 DEF Sent
<1>6. \A i \in 1..(Len(sealed) + 1) : Len(sealed'[i].data) \in Nat
  BY <1>0, <1>4, SentChunks
<1>7. CASE TooMany(last)
  <2>1. Sent' = Len(sealed)
    <3>1. finished' /\ ~last
      BY <1>3, <1>7 DEF TooMany
    <3>2. ~sealed'[Len(sealed')].last
      BY <1>2, <1>4, <3>1
    <3> QED
      BY <1>4, <3>1, <3>2 DEF Sent
  <2> DEFINE more == <<>>
  <2>2. wire' = wire
    BY <1>1, <1>7 DEF Seal
  <2>3. more \in Seq(Unit)
    OBVIOUS
  <2>5. wire' = wire \o more
    BY <2>2
  <2>4. ASSUME NEW k, NEW rest, FramesOf(sealed, Sent, k, rest)
        PROVE  FramesOf(sealed', Sent', k, rest \o more)
    <3>1. rest \in Seq(Unit)
      BY <2>4 DEF FramesOf
    <3>2. rest \o <<>> = rest
      BY <3>1
    <3>3. FramesOf(sealed', Sent', k, rest)
      <4>1. PICK parts \in [0..Sent -> Seq(Unit)] :
              /\ parts[k] = rest
              /\ parts[Sent] = <<>>
              /\ \A i \in k..(Sent - 1) : parts[i] = Frame(i + 1, Len(sealed[i + 1].data)) \o parts[i + 1]
        BY <2>4 DEF FramesOf
      <4>2. k \in 0..Sent
        BY <2>4 DEF FramesOf
      <4>3. ASSUME NEW i \in k..(Sent - 1)
            PROVE  parts[i] = Frame(i + 1, Len(sealed'[i + 1].data)) \o parts[i + 1]
        <5>1. i + 1 \in 1..Len(sealed)
          BY <1>4, <1>5, <4>2
        <5>2. sealed'[i + 1] = sealed[i + 1]
          BY <1>4, <5>1
        <5> QED
          BY <4>1, <5>2
      <4>4. Sent' = Sent
        BY <1>5, <2>1
      <4> QED
        BY <4>1, <4>2, <4>3, <4>4 DEF FramesOf
    <3> QED
      BY <3>2, <3>3
  <2> HIDE DEF more
  <2>6. Sent \in Nat /\ Sent' \in Nat /\ Sent <= Sent' /\ \A i \in 1..Sent : sealed'[i] = sealed[i]
    BY <1>4, <1>5, <2>1
  <2>7. \E u \in Seq(Unit) :
          /\ wire' = wire \o u
          /\ \A k, rest : FramesOf(sealed, Sent, k, rest) => FramesOf(sealed', Sent', k, rest \o u)
    BY <2>3, <2>4, <2>5
  <2> QED
    BY <2>6, <2>7
<1>8. CASE ~TooMany(last)
  <2>1. Sent' = Len(sealed) + 1
    BY <1>2, <1>3, <1>4, <1>8 DEF Sent
  <2> DEFINE f == Frame(Len(sealed) + 1, Len(sealed'[Len(sealed) + 1].data))
  <2>2. wire' = wire \o f
    BY <1>1, <1>2, <1>4, <1>8 DEF Seal
  <2>3. f \in Seq(Unit)
    <3>1. Len(sealed) + 1 \in Nat /\ Len(sealed) + 1 \in 1..(Len(sealed) + 1)
      BY <1>4
    <3> QED
      BY <1>6, <3>1, FrameUnits
  <2>4. ASSUME NEW k, NEW rest, FramesOf(sealed, Sent, k, rest)
        PROVE  FramesOf(sealed', Sent', k, rest \o f)
    BY <1>4, <1>5, <1>6, <2>1, <2>4, FramesGrow
  <2> HIDE DEF f
  <2> QED
    BY <1>4, <1>5, <2>1, <2>2, <2>3, <2>4, SMTT(30)
<1> QED
  BY <1>7, <1>8

LEMMA SenderLayout ==
  ASSUME OInv, Wired, EndMarked, Layout, Sender, spc' # "failed"
  PROVE  Layout'
<1> IInv
  BY DEF OInv
<1>0. /\ UNCHANGED <<opc, buffer, length, openCounter>>
      /\ SenderNext /\ (Silent \/ YieldPrelude \/ Sends)
  BY SenderWires DEF Sender, openerVars
<1>1. wire \in Seq(Unit) /\ buffer \in Seq(Unit)
  BY DEF Wired
<1>2. CASE Silent
  <2>1. UNCHANGED <<sealed, finished, wire>> /\ spc # "prelude" /\ spc' # "prelude"
    BY <1>2 DEF Silent
  <2>2. Sent' = Sent /\ InTransit' = InTransit
    BY <1>0, <2>1 DEF Sent, InTransit
  <2> QED
    BY <1>0, <2>1, <2>2 DEF Layout
<1>3. CASE YieldPrelude
  <2>1. /\ spc = "prelude" /\ spc' = "pieces" /\ wire' = wire \o Prelude
        /\ UNCHANGED <<finished, sealed>>
    BY <1>3 DEF YieldPrelude
  <2>2. /\ sealed = <<>> /\ ~finished /\ opc = "start" /\ openCounter = 0
        /\ buffer = <<>> /\ wire = <<>>
    BY <2>1 DEF EndMarked, Layout
  <2>3. Sent' = 0
    BY <2>1, <2>2 DEF Sent
  <2>4. InTransit' = Prelude \o <<>>
    <3>1. <<>> \o (<<>> \o Prelude) = Prelude /\ Prelude \o <<>> = Prelude
      BY Units
    <3> QED
      BY <1>0, <2>1, <2>2, <3>1 DEF InTransit
  <2>5. FramesOf(sealed', Sent', 0, <<>>) /\ <<>> \in Seq(Unit)
    BY <2>3, FramesNone
  <2>6. \E r \in Seq(Unit) : InTransit' = Prelude \o r /\ FramesOf(sealed', Sent', 0, r)
    BY <2>4, <2>5
  <2> QED
    BY <1>0, <2>1, <2>2, <2>6 DEF Layout
<1>4. CASE Sends
  <2>0. spc # "prelude" /\ spc' # "prelude"
    BY <1>4 DEF Sends
  <2>1. Sent <= Sent' /\ Sent \in Nat /\ Sent' \in Nat /\ \A i \in 1..Sent : sealed'[i] = sealed[i]
    BY <1>0, <1>1, <1>4, SendsFrame
  <2>2. PICK more \in Seq(Unit) :
          /\ wire' = wire \o more
          /\ \A c, rest : FramesOf(sealed, Sent, c, rest) => FramesOf(sealed', Sent', c, rest \o more)
    BY <1>0, <1>1, <1>4, SendsFrame
  <2>3. InTransit \in Seq(Unit)
    BY <1>1, Joined DEF InTransit
  <2>4. InTransit' = InTransit \o more
    <3>1. (buffer \o wire) \o more = buffer \o (wire \o more)
      BY <1>1, UnitsJoined
    <3> QED
      BY <1>0, <2>2, <3>1 DEF InTransit
  <2>5. ASSUME NEW p \in Seq(Unit),
               \E r \in Seq(Unit) : InTransit = p \o r /\ FramesOf(sealed, Sent, 0, r)
        PROVE  \E r \in Seq(Unit) : InTransit' = p \o r /\ FramesOf(sealed', Sent', 0, r)
    <3>1. PICK r \in Seq(Unit) : InTransit = p \o r /\ FramesOf(sealed, Sent, 0, r)
      BY <2>5
    <3>2. (p \o r) \o more = p \o (r \o more)
      BY UnitsJoined
    <3>3. r \o more \in Seq(Unit)
      BY Joined
    <3>4. FramesOf(sealed', Sent', 0, r \o more)
      BY <2>2, <3>1
    <3>5. InTransit' = p \o (r \o more)
      BY <2>4, <3>1, <3>2
    <3> QED
      BY <3>3, <3>4, <3>5
  <2>6. Prelude \in Seq(Unit) /\ <<Header>> \in Seq(Unit)
    BY Units, SMTT(30)
  <2>7. opc \in {"frame", "body"} => FramesOf(sealed', Sent', openCounter, InTransit')
    BY <2>2, <2>4 DEF Layout
  <2>8. openCounter \in Nat
    BY SealerAssumption DEF OInv, Opened
  <2>9. opc = "body" => openCounter < Sent' /\ length = Len(sealed'[openCounter + 1].data) + TagLen
    <3> SUFFICES ASSUME opc = "body"
                 PROVE  openCounter < Sent' /\ length = Len(sealed'[openCounter + 1].data) + TagLen
      OBVIOUS
    <3>1. openCounter < Sent /\ length = Len(sealed[openCounter + 1].data) + TagLen
      BY DEF Layout
    <3>2. openCounter + 1 \in 1..Sent
      BY <2>1, <2>8, <3>1
    <3> QED
      BY <2>1, <2>8, <3>1, <3>2
  <2>10. opc = "frame" => openCounter = 0 \/ openCounter < Sent'
    BY <2>1, <2>8 DEF Layout
  <2> QED
    BY <1>0, <2>0, <2>5, <2>6, <2>7, <2>9, <2>10 DEF Layout
<1> QED
  BY <1>0, <1>2, <1>3, <1>4

(* A length field that was sealed is read as what it says. *)
LEMMA ReadingsOf ==
  ASSUME NEW max \in Nat, NEW n \in 0..(max + 1)
  PROVE  Readings(Length(n), max) = {n}
<1>1. ASSUME NEW m \in 0..(max + 1) PROVE Length(n) = Length(m) <=> m = n
  <2>1. Length(n)[1] = <<"length", n, 1>> /\ Length(m)[1] = <<"length", m, 1>>
    BY DEF Length
  <2>2. <<"length", n, 1>>[2] = n /\ <<"length", m, 1>>[2] = m
    OBVIOUS
  <2> QED
    BY <2>1, <2>2
<1>2. {m \in 0..(max + 1) : Length(n) = Length(m)} = {n}
  BY <1>1
<1> QED
  BY <1>2 DEF Readings

(* The source ends only after the last chunk. *)
LEMMA SourceEnds ==
  ASSUME IInv, EndMarked, Wired, Undisturbed, sourceEnded
  PROVE  wire = <<>> /\ spc = "done" /\ Sent = Len(sealed) /\ Sent > 0 /\ sealed[Sent].last
<1>1. wire = <<>> /\ spc = "done"
  BY DEF Wired, Undisturbed
<1>2. sealed # <<>> /\ sealed[Len(sealed)].last
  BY <1>1 DEF EndMarked
<1>3. sealed \in Seq(Chunk)
  BY SentChunks
<1> QED
  BY <1>1, <1>2, <1>3 DEF Sent

LEMMA PullLayout ==
  ASSUME OInv, Wired, Layout, Pull
  PROVE  Layout'
<1>1. /\ UNCHANGED <<spc, sealed, finished, opc, length, openCounter>>
      /\ InTransit' = InTransit
  BY PullMoves DEF senderVars, InTransit
<1>2. spc # "prelude"
  BY DEF Layout, Pull, SourceClosed
<1>3. Sent' = Sent
  BY <1>1 DEF Sent
<1> QED
  BY <1>1, <1>2, <1>3 DEF Layout

LEMMA ReadPreludeLayout ==
  ASSUME OInv, Wired, EndMarked, Undisturbed, Layout, ReadPrelude
  PROVE  Layout'
<1> USE SealerAssumption, OpenerAssumption
<1>0. /\ opc = "start" /\ openCounter = 0 /\ Filled
      /\ wire \in Seq(Unit) /\ buffer \in Seq(Unit)
      /\ sourceEnded => wire = <<>> /\ spc = "done"
  BY SourceEnds DEF ReadPrelude, Layout, Wired, OInv
<1>1. Len(buffer) >= 3 \/ sourceEnded
  BY <1>0 DEF Filled, Wanted, LengthUnits
<1>2. spc # "prelude"
  BY <1>0, <1>1 DEF Layout
<1>3. PICK r \in Seq(Unit) : InTransit = Prelude \o r /\ FramesOf(sealed, Sent, 0, r)
  BY <1>0, <1>2 DEF Layout
<1>4. /\ Len(buffer) + Len(wire) = 4 + Len(r)
      /\ \A k \in 1..Len(buffer) : k <= 4 => buffer[k] = Prelude[k]
  <2>1. Joins(buffer, wire, Prelude, r)
    BY <1>3 DEF InTransit, Joins
  <2>2. Prelude \in Seq(Unit) /\ Len(Prelude) = 4
    BY Units
  <2>3. CutAlike(buffer, wire, Prelude, r)
    BY <1>0, <2>1, <2>2, SameJoin, Zenon
  <2> QED
    BY <2>2, <2>3 DEF CutAlike
<1>5. Len(buffer) >= 3 /\ Len(buffer) \in Nat
  <2>1. Len(wire) \in Nat /\ Len(r) \in Nat /\ Len(buffer) \in Nat /\ Len(<<>>) = 0
    BY <1>0
  <2> QED
    BY <1>0, <1>1, <1>4, <2>1
<1>6. buffer[1] = Magic /\ SubSeq(buffer, 2, 3) = Length(1)
  <2>1. buffer[1] = Magic /\ buffer[2] = Length(1)[1] /\ buffer[3] = Length(1)[2]
    BY <1>4, <1>5, Units
  <2> DEFINE t == SubSeq(buffer, 2, 3)
  <2>2. t \in Seq(Unit) /\ Len(t) = 2 /\ t[1] = buffer[2] /\ t[2] = buffer[3]
    BY <1>0, <1>5
  <2>3. Length(1) \in Seq(Unit) /\ Len(Length(1)) = 2
    BY FrameUnits DEF LengthUnits
  <2> HIDE DEF t
  <2>4. t = Length(1)
    BY <2>1, <2>2, <2>3
  <2> QED
    BY <2>1, <2>4 DEF t
<1>7. Readings(SubSeq(buffer, 2, 1 + LengthUnits), MaxHeaderLen) = {1}
  <2>1. 1 \in 0..(MaxHeaderLen + 1) /\ MaxHeaderLen \in Nat
    OBVIOUS
  <2>2. Readings(Length(1), MaxHeaderLen) = {1}
    BY <2>1, ReadingsOf
  <2>3. 1 + LengthUnits = 3
    BY DEF LengthUnits
  <2> QED
    BY <1>6, <2>2, <2>3
<1>8. /\ length' = 1 /\ buffer' = Drop(buffer, 3) /\ opc' = "header"
      /\ UNCHANGED <<senderVars, wire, openCounter>>
  <2>1. ~(Len(buffer) < 1 + LengthUnits \/ buffer[1] # Magic) /\ 1 + LengthUnits = 3
    BY <1>5, <1>6 DEF LengthUnits
  <2>2. \E n \in {1} :
            IF n = 0 \/ n > MaxHeaderLen
            THEN Fail
            ELSE /\ length' = n
                 /\ buffer' = Drop(buffer, 3)
                 /\ opc' = "header"
                 /\ UNCHANGED <<senderVars, wire, sourceEnded, keyMatches, openCounter,
                                delivered, tampers>>
    BY <1>7, <2>1 DEF ReadPrelude
  <2> QED
    BY <2>2
<1>9. InTransit' = <<Header>> \o r
  <2> DEFINE front == <<Magic>> \o Length(1)
             back == <<Header>>
  <2>0. front \in Seq(Unit) /\ back \in Seq(Unit)
    BY Units, FrameUnits, Joined DEF Magic, Header, Unit
  <2>1. front \in Seq(Unit) /\ Len(front) = 3 /\ back \in Seq(Unit)
    <3>1. <<Magic>> \in Seq(Unit) /\ Len(<<Magic>>) = 1 /\ back \in Seq(Unit)
      BY Units DEF Magic, Header, Unit
    <3>2. Length(1) \in Seq(Unit) /\ Len(Length(1)) = 2
      BY FrameUnits DEF LengthUnits
    <3> QED
      BY <3>1, <3>2, Joined, SMTT(30)
  <2>2. Prelude = front \o back
    BY DEF Prelude
  <2> HIDE DEF front, back
  <2>3. (front \o back) \o r = front \o (back \o r)
    BY <2>0, UnitsJoined
  <2>4. back \o r \in Seq(Unit)
    BY <2>0, Joined
  <2>5. Joins(buffer, wire, front, back \o r)
    BY <1>3, <2>2, <2>3 DEF InTransit, Joins
  <2>6. CutAlike(buffer, wire, front, back \o r)
    BY <1>0, <2>0, <2>4, <2>5, SameJoin, Zenon
  <2>7. Drop(buffer, 3) \o wire = back \o r
    BY <1>5, <2>1, <2>6 DEF CutAlike
  <2> QED
    BY <1>8, <2>7 DEF InTransit, back
<1> QED
  BY <1>0, <1>2, <1>3, <1>8, <1>9 DEF Layout, Sent, senderVars

LEMMA ReadHeaderLayout ==
  ASSUME OInv, Wired, EndMarked, Undisturbed, Layout, ReadHeader
  PROVE  Layout'
<1>0. /\ opc = "header" /\ openCounter = 0 /\ length = 1 /\ Filled
      /\ wire \in Seq(Unit) /\ buffer \in Seq(Unit) /\ spc # "prelude"
      /\ sourceEnded => wire = <<>>
  BY SourceEnds DEF ReadHeader, Layout, Wired, OInv
<1>1. PICK r \in Seq(Unit) : InTransit = <<Header>> \o r /\ FramesOf(sealed, Sent, 0, r)
  BY <1>0 DEF Layout
<1> DEFINE front == <<Header>>
<1>2. front \in Seq(Unit) /\ Len(front) = 1 /\ front[1] = Header
  BY DEF Header, Unit
<1>3. Joins(buffer, wire, front, r)
  BY <1>1 DEF InTransit, Joins
<1> HIDE DEF front
<1>4. /\ Len(buffer) + Len(wire) = 1 + Len(r)
      /\ \A k \in 1..Len(buffer) : k <= 1 => buffer[k] = front[k]
      /\ 1 <= Len(buffer) => Drop(buffer, 1) \o wire = r
  <2>1. CutAlike(buffer, wire, front, r)
    BY <1>0, <1>2, <1>3, SameJoin, Zenon
  <2> QED
    BY <1>2, <2>1 DEF CutAlike
<1>5. Len(buffer) >= 1 /\ Len(buffer) \in Nat
  <2>1. Len(wire) \in Nat /\ Len(r) \in Nat /\ Len(buffer) \in Nat /\ Len(<<>>) = 0
    BY <1>0
  <2>2. Len(buffer) >= 1 \/ sourceEnded
    BY <1>0 DEF Filled, Wanted
  <2> QED
    BY <1>0, <1>4, <2>1, <2>2
<1>6. Take(buffer, 1) = <<Header>>
  <2> DEFINE t == Take(buffer, 1)
  <2>0. 1 \in Nat /\ 1 <= Len(buffer)
    BY <1>5
  <2>1. t \in Seq(Unit) /\ Len(t) = 1 /\ \A k \in 1..Len(t) : t[k] = buffer[k]
    BY <1>0, <2>0, Cut
  <2> HIDE DEF t
  <2>2. t[1] = front[1]
    BY <1>4, <1>5, <2>1
  <2>3. t = front
    BY <1>2, <2>1, <2>2
  <2> QED
    BY <2>3 DEF t, front
<1>7. /\ buffer' = Drop(buffer, 1) /\ opc' = "frame"
      /\ UNCHANGED <<senderVars, wire, openCounter>>
  BY <1>0, <1>5, <1>6 DEF ReadHeader
<1>8. InTransit' = r
  BY <1>4, <1>5, <1>7 DEF InTransit
<1> QED
  BY <1>0, <1>1, <1>7, <1>8 DEF Layout, Sent, senderVars

(* Nothing is left only after the last frame. *)
LEMMA FramesEnd ==
  ASSUME NEW chunks, NEW n \in Nat, NEW c, FramesOf(chunks, n, c, <<>>),
         \A i \in 1..n : Len(chunks[i].data) \in Nat
  PROVE  c = n
<1>1. c \in 0..n
  BY DEF FramesOf
<1> SUFFICES ASSUME c < n PROVE FALSE
  BY <1>1
<1>2. PICK others \in Seq(Unit) : <<>> = Frame(c + 1, Len(chunks[c + 1].data)) \o others
  BY FramesNext
<1> DEFINE f == Frame(c + 1, Len(chunks[c + 1].data))
<1>3. f \in Seq(Unit) /\ Len(f) > 0
  <2>1. c + 1 \in Nat /\ c + 1 \in 1..n
    BY <1>1
  <2>2. Len(chunks[c + 1].data) \in Nat
    BY <2>1
  <2>3. f \in Seq(Unit) /\ Len(f) = LengthUnits + Len(chunks[c + 1].data) + TagLen
    BY <2>1, <2>2, FrameUnits
  <2> HIDE DEF f
  <2> QED
    BY <2>2, <2>3 DEF LengthUnits, TagLen
<1>4. <<>> = f \o others
  BY <1>2
<1> HIDE DEF f
<1>5. Len(f \o others) = Len(f) + Len(others) /\ Len(others) \in Nat /\ Len(f) \in Nat
  BY <1>3, Joined
<1>6. Len(f \o others) = 0
  BY <1>4
<1> QED
  BY <1>3, <1>5, <1>6

(* Between frames the next one is in transit, and nothing else is in front
   of it. *)
LEMMA NextFrame ==
  ASSUME OInv, Wired, EndMarked, Undisturbed, Layout, openCounter < Sent,
         opc \in {"frame", "body"}
  PROVE  \E n \in 0..ChunkSize, others \in Seq(Unit) :
           /\ n = Len(sealed[openCounter + 1].data)
           /\ FrameAlike(buffer, wire, openCounter + 1, n, others)
           /\ FramesOf(sealed, Sent, openCounter + 1, others)
<1>1. IInv /\ openCounter \in Nat /\ FramesOf(sealed, Sent, openCounter, InTransit)
  BY SealerAssumption DEF OInv, Opened, Layout
<1>2. /\ Sent \in Nat /\ Sent <= Len(sealed)
      /\ \A i \in 1..Sent : Len(sealed[i].data) \in 0..ChunkSize /\ Len(sealed[i].data) \in Nat
  BY <1>1, SentChunks, SealerAssumption
<1> DEFINE n == Len(sealed[openCounter + 1].data)
<1>3. n \in 0..ChunkSize /\ n \in Nat /\ openCounter + 1 \in Nat
  BY <1>1, <1>2
<1>4. PICK others \in Seq(Unit) :
        /\ InTransit = Frame(openCounter + 1, n) \o others
        /\ FramesOf(sealed, Sent, openCounter + 1, others)
  BY <1>1, <1>2, FramesNext
<1> HIDE DEF n
<1>5. Joins(buffer, wire, Frame(openCounter + 1, n), others)
  BY <1>4 DEF InTransit, Joins
<1>6. buffer \in Seq(Unit) /\ wire \in Seq(Unit)
  BY DEF Wired
<1>7. FrameAlike(buffer, wire, openCounter + 1, n, others)
  BY <1>3, <1>5, <1>6, FrameReads, Zenon
<1> QED
  BY <1>3, <1>4, <1>7 DEF n

LEMMA ReadLengthLayout ==
  ASSUME OInv, Wired, EndMarked, Undisturbed, Layout, ReadLength
  PROVE  Layout'
<1> USE SealerAssumption
<1>0. /\ opc = "frame" /\ Filled
      /\ wire \in Seq(Unit) /\ buffer \in Seq(Unit) /\ spc # "prelude"
      /\ sourceEnded => wire = <<>> /\ Sent > 0
      /\ openCounter \in Nat /\ Sent \in Nat
  BY SourceEnds, SentChunks DEF ReadLength, Layout, Wired, OInv, Opened
<1>1. /\ Len(buffer) >= 2 \/ sourceEnded
      /\ Len(buffer) \in Nat /\ Len(wire) \in Nat
  BY <1>0 DEF Filled, Wanted, LengthUnits
<1>2. openCounter < Sent
  <2> SUFFICES ASSUME ~(openCounter < Sent) PROVE FALSE
    OBVIOUS
  <2>1. openCounter = 0 /\ Sent = 0
    BY <1>0 DEF Layout
  <2>2. InTransit = <<>>
    <3>1. FramesOf(sealed, 0, 0, InTransit)
      BY <1>0, <2>1 DEF Layout
    <3> QED
      BY <3>1 DEF FramesOf
  <2>3. ~sourceEnded
    BY <1>0, <2>1
  <2>4. Len(buffer \o wire) = Len(buffer) + Len(wire)
    BY <1>0, Joined
  <2>5. Len(buffer \o wire) = 0
    BY <2>2 DEF InTransit
  <2> QED
    BY <1>1, <2>3, <2>4, <2>5
<1>3. PICK n \in 0..ChunkSize, others \in Seq(Unit) :
        /\ n = Len(sealed[openCounter + 1].data)
        /\ FrameAlike(buffer, wire, openCounter + 1, n, others)
  BY <1>0, <1>2, NextFrame
<1>4. Len(buffer) >= LengthUnits
  <2>1. Len(buffer) + Len(wire) >= 2 + n + 1
    BY <1>3 DEF FrameAlike, LengthUnits, TagLen
  <2>2. Len(<<>>) = 0
    OBVIOUS
  <2> QED
    BY <1>0, <1>1, <2>1, <2>2 DEF LengthUnits
<1>5. Readings(Take(buffer, LengthUnits), MaxFrame) = {n + TagLen}
  <2>1. Take(buffer, LengthUnits) = Length(n + TagLen)
    BY <1>3, <1>4 DEF FrameAlike
  <2>2. MaxFrame \in Nat /\ n + TagLen \in 0..(MaxFrame + 1)
    BY DEF MaxFrame, TagLen
  <2> QED
    BY <2>1, <2>2, ReadingsOf
<1>6. TagLen <= n + TagLen /\ n + TagLen <= MaxFrame
  BY DEF MaxFrame, TagLen
<1>7. length' = n + TagLen /\ opc' = "body" /\ UNCHANGED <<senderVars, wire, buffer, openCounter>>
  <2>1. \E k \in {n + TagLen} :
            IF k < TagLen \/ k > MaxFrame
            THEN Fail
            ELSE /\ length' = k
                 /\ opc' = "body"
                 /\ UNCHANGED <<senderVars, wire, buffer, sourceEnded, keyMatches, openCounter,
                                delivered, tampers>>
    BY <1>1, <1>4, <1>5 DEF ReadLength, LengthUnits
  <2>2. ~(n + TagLen < TagLen \/ n + TagLen > MaxFrame)
    BY <1>6 DEF MaxFrame, TagLen
  <2> QED
    BY <2>1, <2>2
<1>8. FramesOf(sealed, Sent, openCounter, InTransit)
  BY <1>0 DEF Layout
<1> QED
  BY <1>0, <1>2, <1>3, <1>7, <1>8 DEF Layout, Sent, InTransit, senderVars

LEMMA OpenFrameLayout ==
  ASSUME OInv, Wired, EndMarked, Undisturbed, Layout, OpenFrame
  PROVE  Layout'
<1> USE SealerAssumption
<1> DEFINE rest == Drop(buffer, LengthUnits + length)
           last == rest = <<>>
           units == SubSeq(buffer, LengthUnits + 1, LengthUnits + length)
<1>0. /\ opc = "body" /\ Filled
      /\ wire \in Seq(Unit) /\ buffer \in Seq(Unit) /\ spc # "prelude"
      /\ openCounter \in Nat /\ Sent \in Nat /\ openCounter < Sent
      /\ Len(buffer) \in Nat /\ Len(wire) \in Nat /\ length \in Nat
  BY SentChunks, SMTT(30) DEF OpenFrame, Layout, Wired, OInv, Opened
<1>1. /\ IInv
      /\ sourceEnded => wire = <<>> /\ sealed[Sent].last
      /\ Sent <= Len(sealed) /\ Len(sealed) <= MaxCounter + 1 /\ Len(sealed) \in Nat
  BY SourceEnds, SentChunks DEF OInv
<1>2. PICK n \in 0..ChunkSize, others \in Seq(Unit) :
        /\ n = Len(sealed[openCounter + 1].data)
        /\ FrameAlike(buffer, wire, openCounter + 1, n, others)
        /\ FramesOf(sealed, Sent, openCounter + 1, others)
  BY <1>0, NextFrame
<1>3. length = n + 1 /\ LengthUnits = 2 /\ TagLen = 1
  BY <1>0, <1>2 DEF Layout, LengthUnits, TagLen
<1>4. Len(buffer) >= n + 4 \/ sourceEnded
  BY <1>0, <1>3, SMTT(30) DEF Filled, Wanted
<1>5. Len(buffer) >= n + 3
  <2>1. Len(buffer) + Len(wire) >= 2 + n + 1
    BY <1>2, <1>3 DEF FrameAlike
  <2>2. Len(<<>>) = 0
    OBVIOUS
  <2> QED
    BY <1>0, <1>1, <1>4, <2>1, <2>2
<1>6. units = Ciphertext(openCounter + 1, n) /\ rest \o wire = others
  <2>1. LengthUnits + n + TagLen = LengthUnits + length /\ Len(buffer) >= LengthUnits + n + TagLen
    BY <1>0, <1>3, <1>5
  <2> QED
    BY <1>2, <2>1 DEF FrameAlike
<1>7. rest \in Seq(Unit) /\ Len(rest) = Len(buffer) - (n + 3)
  <2>1. n + 3 \in Nat /\ LengthUnits + length = n + 3
    BY <1>3
  <2> QED
    BY <1>0, <1>5, <2>1, Cut
<1> HIDE DEF rest, units
<1>8. openCounter + 1 <= Len(sealed) /\ openCounter + 1 \in DOMAIN sealed /\ openCounter + 1 \in 1..Len(sealed)
  <2>1. sealed \in Seq(Chunk)
    BY <1>1, SentChunks
  <2> QED
    BY <1>0, <1>1, <2>1
<1>9. /\ sealed[openCounter + 1].counter = openCounter
      /\ sealed[openCounter + 1].last \in BOOLEAN
      /\ ~sealed[openCounter + 1].last => n = ChunkSize
  <2>1. sealed[openCounter + 1].counter = (openCounter + 1) - 1
    BY <1>1, <1>8, SentChunks
  <2> QED
    BY <1>0, <1>1, <1>2, <1>8, <2>1, SentChunks
<1>10. ASSUME last
       PROVE  sealed[openCounter + 1].last
  <2>1. Len(buffer) = n + 3
    <3>1. Len(rest) = 0
      BY <1>10
    <3> QED
      BY <1>0, <1>7, <3>1
  <2>2. sourceEnded /\ wire = <<>> /\ sealed[Sent].last
    BY <1>0, <1>1, <1>4, <2>1
  <2>3. others = <<>>
    <3>1. <<>> \o <<>> = <<>>
      OBVIOUS
    <3> QED
      BY <1>6, <1>10, <2>2, <3>1
  <2>4. openCounter + 1 = Sent
    BY <1>0, <1>1, <1>2, <2>3, FramesEnd
  <2> QED
    BY <2>2, <2>4
<1>11. ASSUME ~last
       PROVE  openCounter + 1 < Sent /\ ~sealed[openCounter + 1].last
  <2>1. others # <<>>
    <3>1. Len(rest) # 0
      BY <1>7, <1>11
    <3>2. Len(rest \o wire) = Len(rest) + Len(wire)
      BY <1>0, <1>7, Joined
    <3>3. Len(<<>>) = 0
      OBVIOUS
    <3> QED
      BY <1>0, <1>6, <1>7, <3>1, <3>2, <3>3
  <2>2. openCounter + 1 # Sent
    BY <1>2, <2>1 DEF FramesOf
  <2>3. openCounter + 1 < Sent
    BY <1>0, <2>2
  <2> QED
    BY <1>0, <1>1, <1>8, <2>3 DEF EndMarked
<1>12. openCounter + 1 \in Authentic(units, last)
  <2>1. sealed[openCounter + 1].last = last
    BY <1>9, <1>10, <1>11
  <2> QED
    BY <1>2, <1>6, <1>8, <1>9, <2>1 DEF Authentic, Undisturbed
<1>13. /\ buffer' = rest /\ UNCHANGED <<senderVars, wire, length>>
       /\ openCounter' = IF last THEN openCounter ELSE openCounter + 1
       /\ opc' = IF last THEN "complete" ELSE "frame"
  <2>1. ~(Len(buffer) < LengthUnits + length)
    BY <1>0, <1>3, <1>5
  <2>2. ~(~last /\ length # MaxFrame)
    BY <1>3, <1>9, <1>11 DEF MaxFrame
  <2>3. Authentic(units, last) # {}
    BY <1>12
  <2>4. ~(~last /\ openCounter = MaxCounter)
    BY <1>0, <1>1, <1>11
  <2> QED
    BY <2>1, <2>2, <2>3, <2>4 DEF OpenFrame, rest, units
<1>14. CASE last
  BY <1>0, <1>13, <1>14 DEF Layout, senderVars
<1>15. CASE ~last
  <2>1. opc' = "frame" /\ openCounter' = openCounter + 1 /\ openCounter + 1 < Sent
    BY <1>11, <1>13, <1>15
  <2>2. InTransit' = others /\ Sent' = Sent /\ sealed' = sealed /\ spc' = spc
    BY <1>6, <1>13 DEF InTransit, Sent, senderVars
  <2>3. FramesOf(sealed', Sent', openCounter', InTransit') /\ openCounter' < Sent'
    BY <1>2, <2>1, <2>2
  <2> QED
    BY <1>0, <2>1, <2>2, <2>3 DEF Layout
<1> QED
  BY <1>14, <1>15

LEMMA OpenerLayout ==
  ASSUME OInv, Wired, EndMarked, Undisturbed, Layout, OpenerNext
  PROVE  Layout'
BY PullLayout, ReadPreludeLayout, ReadHeaderLayout, ReadLengthLayout, OpenFrameLayout DEF OpenerNext

LEMMA StreamInitLInv == StreamInit => LInv
<1> SUFFICES ASSUME StreamInit PROVE LInv
  OBVIOUS
<1>1. WInv
  BY StreamInitWInv
<1>2. /\ spc \in {"prelude", "direct"} /\ finished = FALSE /\ sealed = <<>>
      /\ wire = IF spc = "direct" THEN Prelude ELSE <<>>
      /\ opc = "start" /\ buffer = <<>> /\ openCounter = 0
  BY DEF StreamInit, Init, OpenerInit
<1>3. EndMarked
  BY <1>2 DEF EndMarked
<1>4. Layout
  <2>1. Sent = 0
    BY <1>2 DEF Sent
  <2>2. FramesOf(sealed, Sent, 0, <<>>) /\ <<>> \in Seq(Unit)
    BY <2>1, FramesNone
  <2>3. spc = "direct" => InTransit = Prelude \o <<>>
    <3>1. <<>> \o Prelude = Prelude /\ Prelude \o <<>> = Prelude
      BY Units
    <3> QED
      BY <1>2, <3>1 DEF InTransit
  <2> QED
    BY <1>2, <2>2, <2>3 DEF Layout
<1> QED
  BY <1>1, <1>3, <1>4 DEF LInv

LEMMA NextLInv == LInv /\ [Next]_vars => LInv'
<1> SUFFICES ASSUME LInv, [Next]_vars PROVE LInv'
  OBVIOUS
<1>0. WInv' /\ OInv /\ IInv /\ Wired /\ EndMarked
  BY NextWInv DEF LInv, WInv, OInv
<1>1. CASE Sender
  <2>1. EndMarked'
    BY <1>0, <1>1, EndMarkedKept DEF Sender
  <2>2. UNCHANGED <<tampers, keyMatches>> /\ spc # "failed"
    BY <1>0, <1>1, SenderWires DEF Sender, openerVars
  <2>3. Undisturbed' => Layout'
    BY <1>0, <1>1, <2>2, SenderLayout DEF LInv, Undisturbed
  <2> QED
    BY <1>0, <2>1, <2>3 DEF LInv
<1>2. CASE OpenerNext
  <2>1. UNCHANGED senderVars /\ UNCHANGED tampers /\ (keyMatches' => keyMatches)
    BY <1>2 DEF OpenerNext, Pull, ReadPrelude, ReadHeader, ReadLength, OpenFrame, Fail
  <2>2. EndMarked'
    BY <1>0, <2>1 DEF EndMarked, senderVars
  <2>3. Undisturbed' => Undisturbed
    BY <2>1 DEF Undisturbed, senderVars
  <2>4. Undisturbed' => Layout'
    BY <1>0, <1>2, <2>3, OpenerLayout DEF LInv
  <2> QED
    BY <1>0, <2>2, <2>4 DEF LInv
<1>3. CASE Tamper
  <2>1. UNCHANGED senderVars /\ tampers' = tampers + 1 /\ tampers \in Nat
    BY <1>0, <1>3, OpenerAssumption DEF Tamper, Wired
  <2>2. EndMarked' /\ ~Undisturbed'
    BY <1>0, <2>1 DEF EndMarked, senderVars, Undisturbed
  <2> QED
    BY <1>0, <2>2 DEF LInv
<1>4. CASE UNCHANGED vars
  <2>1. UNCHANGED <<senderVars, wire, openerVars>>
    BY <1>4 DEF vars
  <2>2. EndMarked' /\ Undisturbed' = Undisturbed /\ Layout' = Layout
    BY <1>0, <2>1 DEF EndMarked, Undisturbed, Layout, Sent, InTransit, senderVars, openerVars
  <2> QED
    BY <1>0, <2>2 DEF LInv
<1> QED
  BY <1>1, <1>2, <1>3, <1>4 DEF Next

(* A stream that arrives as it was sent, under the right key, never fails: its
   reader can only wait for more or complete. *)
THEOREM IntactStreamsOpen == Spec => []IntactOpens
<1>1. LInv => IntactOpens
  <2> SUFFICES ASSUME LInv, opc = "failed", tampers = 0, spc # "failed", keyMatches PROVE FALSE
    BY OpenerAssumption DEF IntactOpens, LInv, WInv, Wired
  <2> QED
    BY DEF LInv, Undisturbed, Layout
<1> QED
  BY <1>1, StreamInitLInv, NextLInv, PTL DEF Spec
==============================================================================
