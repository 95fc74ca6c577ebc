------------------------------ MODULE ByteChannel ------------------------------
(***************************************************************************)
(* What sealing and opening a stream promise together, whatever the         *)
(* transport does: a channel that delivers a prefix of the bytes that were  *)
(* sent and reports success only for all of them, after the sender ended.   *)
(***************************************************************************)
EXTENDS Naturals, Sequences

VARIABLES
  sent,      \* the bytes the sender took
  over,      \* the sender has ended its stream
  got,       \* the bytes the receiver was given
  verdict    \* "open", then "complete" or "failed"

channelVars == <<sent, over, got, verdict>>

Prefixed(s, t) == Len(s) <= Len(t) /\ SubSeq(t, 1, Len(s)) = s

Init == sent = <<>> /\ over = FALSE /\ got = <<>> /\ verdict = "open"

(* More bytes are sent; the last of them may end the stream. *)
Send ==
  /\ ~over
  /\ Prefixed(sent, sent')
  /\ over' \in BOOLEAN
  /\ UNCHANGED <<got, verdict>>

(* The last bytes may come together with the verdict. *)
Deliver ==
  /\ verdict = "open"
  /\ Prefixed(got, got') /\ Prefixed(got', sent)
  /\ verdict' \in {"open", "complete"}
  /\ verdict' = "complete" => over /\ got' = sent
  /\ UNCHANGED <<sent, over>>

Reject ==
  /\ verdict = "open"
  /\ verdict' = "failed"
  /\ UNCHANGED <<sent, over, got>>

Next == Send \/ Deliver \/ Reject

Spec == Init /\ [][Next]_channelVars
================================================================================
