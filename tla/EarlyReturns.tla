----------------------------- MODULE EarlyReturns -----------------------------
(***************************************************************************)
(* A handler that checks its arguments one after the other and leaves at   *)
(* the first check that applies: checks is a sequence of <<condition,      *)
(* result>> pairs, in the order of the code.                               *)
(***************************************************************************)
LOCAL INSTANCE Naturals

FirstOf(checks, otherwise) ==
  LET hits == {i \in DOMAIN checks : checks[i][1]}
      first == CHOOSE i \in hits : \A j \in hits : i <= j
  IN  IF hits = {} THEN otherwise ELSE checks[first][2]
==============================================================================
