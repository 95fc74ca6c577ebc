------------------------------ MODULE StreamOpener ------------------------------
(***************************************************************************)
(* Streaming envelopes (protocols/stream.py), both sides: the open_stream   *)
(* generator with its _Reader and StreamOpener, at the other end of a       *)
(* transport that hands over the wire in pieces of any size and may have    *)
(* cut it, altered it, or dropped, repeated or swapped its frames.          *)
(***************************************************************************)
EXTENDS StreamSealer

CONSTANTS
  AADs,          \* \subseteq BOOLEAN: does the opener pass the sealer's data?
  MaxHeaderLen,
  PullSizes,     \* bound: the units in a piece of the transport
  MaxTampers     \* bound: what the transport does to the wire

ASSUME OpenerAssumption ==
  /\ AADs \subseteq BOOLEAN
  /\ MaxHeaderLen \in Nat \ {0}
  /\ PullSizes \subseteq Nat \ {0}
  /\ MaxTampers \in Nat

VARIABLES
  opc,           \* what open_stream reads next, or how it ended
  buffer,        \* the units _Reader has and has not handed out
  sourceEnded,   \* _Reader saw the end of its source
  length,        \* the header or frame length just peeked
  keyMatches,    \* the derived key and the associated data are the sealer's
  openCounter,   \* StreamOpener's chunk counter
  delivered,     \* the plaintext yielded
  tampers

openerVars == <<opc, buffer, sourceEnded, length, keyMatches, openCounter, delivered, tampers>>
vars == <<senderVars, wire, openerVars>>

OpenerSteps == {"start", "header", "frame", "body", "complete", "failed"}
MaxFrame == ChunkSize + TagLen
------------------------------------------------------------------------------
OpenerInit ==
  /\ opc = "start"
  /\ buffer = <<>>
  /\ sourceEnded = FALSE
  /\ length = 0
  /\ keyMatches \in AADs
  /\ openCounter = 0
  /\ delivered = <<>>
  /\ tampers = 0

(* Fault variant of Wanted: no lookahead. *)
WantedNoLookahead ==
  CASE opc = "start"  -> 1 + LengthUnits
    [] opc = "header" -> length
    [] opc = "frame"  -> LengthUnits
    [] opc = "body"   -> LengthUnits + length
    [] OTHER          -> 0

(* The bytes each step asks _Reader.fill for; a frame together with one byte
   of lookahead. *)
Wanted ==
  CASE opc = "start"  -> 1 + LengthUnits
    [] opc = "header" -> length
    [] opc = "frame"  -> LengthUnits
    [] opc = "body"   -> LengthUnits + length + 1
    [] OTHER          -> 0

SourceClosed == spc \in {"done", "failed"} /\ wire = <<>>

(* Fault variant of Pull: the end of the source is not remembered. *)
PullForever ==
  /\ ~sourceEnded /\ Len(buffer) < Wanted
  /\ wire # <<>>
  /\ \E n \in PullSizes :
       /\ buffer' = buffer \o Take(wire, n)
       /\ wire' = Drop(wire, n)
  /\ UNCHANGED <<senderVars, opc, sourceEnded, length, keyMatches, openCounter, delivered, tampers>>

(* Fault variant of Pull: the source is read to its end, wanted or not. *)
PullAhead ==
  /\ ~sourceEnded
  /\ \/ \E n \in PullSizes :
          /\ wire # <<>>
          /\ buffer' = buffer \o Take(wire, n)
          /\ wire' = Drop(wire, n)
          /\ UNCHANGED sourceEnded
     \/ /\ SourceClosed
        /\ sourceEnded' = TRUE
        /\ UNCHANGED <<buffer, wire>>
  /\ UNCHANGED <<senderVars, opc, length, keyMatches, openCounter, delivered, tampers>>

(* One turn of _Reader.fill: the next piece of the source, or its end. *)
Pull ==
  /\ ~sourceEnded /\ Len(buffer) < Wanted
  /\ \/ \E n \in PullSizes :
          /\ wire # <<>>
          /\ buffer' = buffer \o Take(wire, n)
          /\ wire' = Drop(wire, n)
          /\ UNCHANGED sourceEnded
     \/ /\ SourceClosed
        /\ sourceEnded' = TRUE
        /\ UNCHANGED <<buffer, wire>>
  /\ UNCHANGED <<senderVars, opc, length, keyMatches, openCounter, delivered, tampers>>

Filled == sourceEnded \/ Len(buffer) >= Wanted

Fail ==
  /\ opc' = "failed"
  /\ UNCHANGED <<senderVars, wire, buffer, sourceEnded, length, keyMatches, openCounter,
                 delivered, tampers>>

(* A length field that was sealed says what it says; other units can read as
   any number. *)
Readings(units, max) ==
  LET said == {n \in 0..(max + 1) : units = Length(n)}
  IN IF said = {} THEN 0..(max + 1) ELSE said

(* The magic and the header length. *)
ReadPrelude ==
  /\ opc = "start" /\ Filled
  /\ IF Len(buffer) < 1 + LengthUnits \/ buffer[1] # Magic
     THEN Fail
     ELSE \E n \in Readings(SubSeq(buffer, 2, 1 + LengthUnits), MaxHeaderLen) :
            IF n = 0 \/ n > MaxHeaderLen
            THEN Fail
            ELSE /\ length' = n
                 /\ buffer' = Drop(buffer, 1 + LengthUnits)
                 /\ opc' = "header"
                 /\ UNCHANGED <<senderVars, wire, sourceEnded, keyMatches, openCounter,
                                delivered, tampers>>

(* A header that is not the sealer's is refused, or gives another key. *)
ReadHeader ==
  /\ opc = "header" /\ Filled
  /\ \/ (Len(buffer) < length \/ Take(buffer, length) # <<Header>>) /\ Fail
     \/ /\ Len(buffer) >= length
        /\ keyMatches' = (keyMatches /\ Take(buffer, length) = <<Header>>)
        /\ buffer' = Drop(buffer, length)
        /\ opc' = "frame"
        /\ UNCHANGED <<senderVars, wire, sourceEnded, length, openCounter, delivered, tampers>>

(* Fault variant of ReadLength: the end of the source between two frames ends
   the stream. *)
EndIsEnd ==
  /\ opc = "frame" /\ Filled
  /\ IF Len(buffer) < LengthUnits
     THEN /\ opc' = "complete"
          /\ UNCHANGED <<senderVars, wire, buffer, sourceEnded, length, keyMatches, openCounter,
                         delivered, tampers>>
     ELSE \E n \in Readings(Take(buffer, LengthUnits), MaxFrame) :
            /\ length' = n
            /\ opc' = "body"
            /\ UNCHANGED <<senderVars, wire, buffer, sourceEnded, keyMatches, openCounter,
                           delivered, tampers>>

(* A frame length is peeked, not consumed; without one the stream is
   truncated. *)
ReadLength ==
  /\ opc = "frame" /\ Filled
  /\ IF Len(buffer) < LengthUnits
     THEN Fail
     ELSE \E n \in Readings(Take(buffer, LengthUnits), MaxFrame) :
            IF n < TagLen \/ n > MaxFrame
            THEN Fail
            ELSE /\ length' = n
                 /\ opc' = "body"
                 /\ UNCHANGED <<senderVars, wire, buffer, sourceEnded, keyMatches, openCounter,
                                delivered, tampers>>

(* What AES-GCM accepts: exactly a ciphertext of this stream, at this counter
   and with this last flag. *)
Authentic(units, last) ==
  {i \in DOMAIN sealed : /\ keyMatches
                         /\ units = Ciphertext(i, Len(sealed[i].data))
                         /\ sealed[i].counter = openCounter
                         /\ sealed[i].last = last}

(* The frame is taken; it is the last one when nothing follows it. *)
OpenFrame ==
  LET rest == Drop(buffer, LengthUnits + length)
      last == rest = <<>>
      units == SubSeq(buffer, LengthUnits + 1, LengthUnits + length)
      opened == Authentic(units, last)
  IN
  /\ opc = "body" /\ Filled
  /\ IF \/ Len(buffer) < LengthUnits + length
        \/ ~last /\ length # MaxFrame
        \/ opened = {}
        \/ ~last /\ openCounter = MaxCounter
     THEN Fail
     ELSE /\ \E i \in opened : delivered' = delivered \o sealed[i].data
          /\ buffer' = rest
          /\ openCounter' = IF last THEN openCounter ELSE openCounter + 1
          /\ opc' = IF last THEN "complete" ELSE "frame"
          /\ UNCHANGED <<senderVars, wire, sourceEnded, length, keyMatches, tampers>>

OpenerNext == Pull \/ ReadPrelude \/ ReadHeader \/ ReadLength \/ OpenFrame
------------------------------------------------------------------------------
(* The frames that are still on the wire, as the places where one starts. *)
Starts == {p \in DOMAIN wire : wire[p][1] = "length" /\ wire[p][3] = 1}
Ends == {p \in 1..(Len(wire) + 1) : p \in Starts \/ p = Len(wire) + 1}

(* The transport, once the sender has ended. *)
Tamper ==
  /\ tampers < MaxTampers
  /\ spc \in {"done", "failed"}
  /\ tampers' = tampers + 1
  /\ \/ \E p \in DOMAIN wire : wire' = Take(wire, p - 1)
     \/ \E p \in DOMAIN wire : wire' = [wire EXCEPT ![p] = <<"altered", 0, 0>>]
     \/ \E p, q \in Ends :
          p < q /\ wire' = Take(wire, p - 1) \o Drop(wire, q - 1)
     \/ \E p, q \in Ends :
          p < q /\ wire' = Take(wire, q - 1) \o Drop(wire, p - 1)
     \/ \E p, q, r \in Ends :
          /\ p < q /\ q < r
          /\ wire' = Take(wire, p - 1) \o SubSeq(wire, q, r - 1)
                       \o SubSeq(wire, p, q - 1) \o Drop(wire, r - 1)
  /\ UNCHANGED <<senderVars, opc, buffer, sourceEnded, length, keyMatches, openCounter, delivered>>

Sender == SenderNext /\ UNCHANGED openerVars
Next == Sender \/ OpenerNext \/ Tamper

StreamInit == Init /\ OpenerInit
Spec == StreamInit /\ [][Next]_vars

(* A consumer that keeps asking: open_stream is driven until it ends. *)
FairSpec == Spec /\ WF_vars(OpenerNext)
------------------------------------------------------------------------------
TypeOK ==
  /\ SenderTypeOK
  /\ opc \in OpenerSteps
  /\ sourceEnded \in BOOLEAN
  /\ length \in 0..(MaxFrame + MaxHeaderLen)
  /\ keyMatches \in BOOLEAN
  /\ openCounter \in 0..MaxCounter
  /\ delivered \in Seq(Byte)
  /\ tampers \in 0..MaxTampers

(* Neither side holds more than a frame and a piece, however long the stream
   is: the sealer carries at most a chunk over, and the opener never takes a
   piece while it holds all it asked for. *)
MemoryBounded ==
  /\ CarryBounded
  /\ \E n \in PullSizes \cup {0} :
       \/ Len(buffer) <= LengthUnits + MaxFrame + n
       \/ Len(buffer) < MaxHeaderLen + n

(* A stream that was sealed to its end and arrives as it was opens, wherever
   the pieces were cut on either side; and nothing fails before the sender has
   ended. *)
IntactOpens ==
  opc = "failed" => tampers > 0 \/ spc = "failed" \/ ~keyMatches

(* The two ends make the channel of ByteChannel: what is delivered is always a
   prefix of what was sent, and an opener that ends without an error delivered
   all of it. *)
Channel ==
  INSTANCE ByteChannel WITH
    sent    <- [k \in 1..taken |-> k],
    over    <- spc = "done",
    got     <- delivered,
    verdict <- IF opc \in {"complete", "failed"} THEN opc ELSE "open"

RefinesChannel == Channel!Spec

(* Once the source has ended, the opener ends, with or without an error. *)
OpenerEnds == spc \in {"done", "failed"} ~> opc \in {"complete", "failed"}
==============================================================================
