----------------------------- MODULE MCKeyUpgrade -----------------------------
(***************************************************************************)
(* Instances of KeyUpgrade for TLC: calls one after the other, each of      *)
(* which may fail, be interrupted or be killed anywhere.                    *)
(***************************************************************************)
EXTENDS KeyUpgrade
==============================================================================
