---------------------------- MODULE MCStreamOpener ----------------------------
(***************************************************************************)
(* Instances of StreamOpener for TLC: the transport delivers byte by byte,  *)
(* in pieces that straddle two frames, or in pieces of several frames; the  *)
(* longest wire, 19 units, is more than a frame and the largest piece.      *)
(***************************************************************************)
EXTENDS StreamOpener

MCPullSizes == {1, 4, 12}
==============================================================================
