------------------------------ MODULE StreamSealer ------------------------------
(***************************************************************************)
(* Streaming envelopes (protocols/stream.py), the sending side: the        *)
(* StreamSealer object, which owns the chunk counter, and its two kinds of  *)
(* user, the seal_stream generator and an application that cuts its own     *)
(* chunks.  The bytes of the source are numbered 1, 2, ...; the wire is the *)
(* sequence of units sent and not yet read.                                 *)
(***************************************************************************)
EXTENDS Naturals, Sequences

CONSTANTS
  ChunkSize,
  MaxCounter,    \* stands for 0xFFFFFFFF
  MaxPiece,      \* bound: bytes in a piece of the source
  MaxInput       \* bound: bytes the source gives in all

ASSUME SealerAssumption ==
  /\ ChunkSize \in Nat \ {0}
  /\ MaxCounter \in Nat
  /\ MaxPiece \in Nat
  /\ MaxInput \in Nat

VARIABLES
  spc,          \* where the sender is
  taken,        \* how many bytes the source has given
  view,         \* what is left of the current piece
  pending,      \* the bytes carried over between pieces
  counter,
  finished,
  sealed,       \* every chunk encrypted under the stream's key, in order
  wire

senderVars == <<spc, taken, view, pending, counter, finished, sealed>>

(* "direct" is an application that calls seal_chunk itself; the others are the
   steps of seal_stream. *)
SenderSteps == {"prelude", "pieces", "join", "slices", "direct", "done", "failed"}
------------------------------------------------------------------------------
(* The units of the wire.  A length is a field of two units, a ciphertext has
   one unit a byte and one for its tag. *)
TagLen == 1
LengthUnits == 2
Length(n) == <<<<"length", n, 1>>, <<"length", n, 2>>>>
Ciphertext(i, n) == [k \in 1..(n + TagLen) |-> <<"ciphertext", i, k>>]
Frame(i, n) == Length(n + TagLen) \o Ciphertext(i, n)
Magic == <<"magic", 0, 0>>
Header == <<"header", 0, 0>>
Prelude == <<Magic>> \o Length(1) \o <<Header>>

Drop(s, n) == SubSeq(s, n + 1, Len(s))
Take(s, n) == SubSeq(s, 1, IF n < Len(s) THEN n ELSE Len(s))
------------------------------------------------------------------------------
Init ==
  /\ spc \in {"prelude", "direct"}
  /\ taken = 0
  /\ view = <<>>
  /\ pending = <<>>
  /\ counter = 0
  /\ finished = FALSE
  /\ sealed = <<>>
  /\ wire = IF spc = "direct" THEN Prelude ELSE <<>>

(* _advance: a chunk that is not the last needs a next counter value. *)
TooMany(last) == ~last /\ counter = MaxCounter

(* Fault variant of Finishes: the error leaves the stream open. *)
OnlyLastFinishes(last) == last

Finishes(last) == last \/ TooMany(last)

(* _seal refuses a finished stream and a wrong length, without any effect. *)
Accepts(data, last) ==
  /\ ~finished
  /\ Len(data) <= ChunkSize
  /\ last \/ Len(data) = ChunkSize

(* The chunk is encrypted, the counter moves, and only then is the frame
   yielded: the chunk that does not fit is encrypted and lost. *)
Seal(data, last) ==
  /\ Accepts(data, last)
  /\ sealed' = Append(sealed, [counter |-> counter, last |-> last, data |-> data])
  /\ finished' = Finishes(last)
  /\ counter' = IF last \/ TooMany(last) THEN counter ELSE counter + 1
  /\ wire' = IF TooMany(last) THEN wire ELSE wire \o Frame(Len(sealed) + 1, Len(data))
------------------------------------------------------------------------------
(* seal_stream: the prelude first, ... *)
YieldPrelude ==
  /\ spc = "prelude"
  /\ spc' = "pieces"
  /\ wire' = wire \o Prelude
  /\ UNCHANGED <<taken, view, pending, counter, finished, sealed>>

(* ... then the pieces of the source; an empty one changes nothing. *)
ReadPiece ==
  /\ spc = "pieces"
  /\ \E n \in 0..MaxPiece :
       /\ taken + n <= MaxInput
       /\ view' = [k \in 1..n |-> taken + k]
       /\ taken' = taken + n
  /\ spc' = "join"
  /\ UNCHANGED <<pending, counter, finished, sealed, wire>>

(* Fault variant of PendingIsChunk: only a whole chunk is sealed. *)
PendingWaits == Len(pending) = ChunkSize /\ view # <<>>

PendingIsChunk == pending # <<>> /\ Len(pending) + Len(view) > ChunkSize

(* More data exists beyond the carried bytes: they are completed and sealed. *)
SealPending ==
  LET pos == ChunkSize - Len(pending)
  IN
  /\ spc = "join"
  /\ PendingIsChunk
  /\ Seal(pending \o Take(view, pos), FALSE)
  /\ pending' = <<>>
  /\ view' = Drop(view, pos)
  /\ spc' = IF TooMany(FALSE) THEN "failed" ELSE "slices"
  /\ UNCHANGED taken

KeepPending ==
  /\ spc = "join"
  /\ ~PendingIsChunk
  /\ spc' = "slices"
  /\ UNCHANGED <<taken, view, pending, counter, finished, sealed, wire>>

(* Full chunks straight out of the piece, while more data exists beyond them. *)
SealSlice ==
  /\ spc = "slices"
  /\ Len(view) > ChunkSize
  /\ Seal(Take(view, ChunkSize), FALSE)
  /\ view' = Drop(view, ChunkSize)
  /\ spc' = IF TooMany(FALSE) THEN "failed" ELSE "slices"
  /\ UNCHANGED <<taken, pending>>

CarryOver ==
  /\ spc = "slices"
  /\ Len(view) <= ChunkSize
  /\ pending' = pending \o view
  /\ view' = <<>>
  /\ spc' = "pieces"
  /\ UNCHANGED <<taken, counter, finished, sealed, wire>>

(* The source has ended. *)
SealLast ==
  /\ spc = "pieces"
  /\ Seal(pending, TRUE)
  /\ pending' = <<>>
  /\ spc' = "done"
  /\ UNCHANGED <<taken, view>>

(* The source raises, or the consumer stops taking pieces. *)
Abandon ==
  /\ spc \in SenderSteps \ {"done", "failed"}
  /\ spc' = "failed"
  /\ UNCHANGED <<taken, view, pending, counter, finished, sealed, wire>>

(* seal_chunk called by an application, which may go on after an error. *)
SealChunk(n, last) ==
  /\ spc = "direct"
  /\ taken + n <= MaxInput
  /\ Seal([k \in 1..n |-> taken + k], last)
  /\ taken' = taken + n
  /\ spc' = IF last THEN "done" ELSE "direct"
  /\ UNCHANGED <<view, pending>>

SenderNext ==
  \/ YieldPrelude \/ ReadPiece \/ SealPending \/ KeepPending \/ SealSlice
  \/ CarryOver \/ SealLast \/ Abandon
  \/ \E n \in 0..ChunkSize, last \in BOOLEAN : SealChunk(n, last)

SenderSpec == Init /\ [][SenderNext]_senderVars
------------------------------------------------------------------------------
Byte == 1..MaxInput
Chunk == [counter : 0..MaxCounter, last : BOOLEAN, data : Seq(Byte)]

SenderTypeOK ==
  /\ spc \in SenderSteps
  /\ taken \in 0..MaxInput
  /\ view \in Seq(Byte)
  /\ pending \in Seq(Byte)
  /\ counter \in 0..MaxCounter
  /\ finished \in BOOLEAN
  /\ sealed \in Seq(Chunk)

(* No nonce, that is no pair of counter and last flag, ever encrypts two
   chunks, through errors, the counter limit and calls after both. *)
NonceOnce ==
  \A i, j \in DOMAIN sealed :
    sealed[i].counter = sealed[j].counter /\ sealed[i].last = sealed[j].last => i = j

(* Chunk i holds exactly the bytes of the source that belong there: nothing is
   lost, repeated or moved where pieces and chunks meet, whatever their sizes. *)
ChunksInPlace ==
  \A i \in DOMAIN sealed : \A k \in DOMAIN sealed[i].data :
    sealed[i].data[k] = (i - 1) * ChunkSize + k

(* Between two pieces at most a chunk is carried over. *)
CarryBounded == Len(pending) <= ChunkSize
==============================================================================
