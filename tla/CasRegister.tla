----------------------------- MODULE CasRegister -----------------------------
(***************************************************************************)
(* What one entry of a migration store promises to its callers             *)
(* (migrate/file_store.py, compare_and_set, __setitem__ and __delitem__): a *)
(* call takes effect in one atomic step, or fails and changes nothing.     *)
(***************************************************************************)
EXTENDS Naturals

CONSTANTS Callers, Values, Absent, Kinds, NoRequest

VARIABLES
  value,     \* what the entry holds, or Absent
  request,   \* [Callers -> [kind, expected, new] or NoRequest]: undecided calls
  result     \* [Callers -> how the last call was decided]

vars == <<value, request, result>>

Init ==
  /\ value = Absent
  /\ request = [c \in Callers |-> NoRequest]
  /\ result = [c \in Callers |-> "none"]

Decide(c, r) ==
  /\ request[c] # NoRequest
  /\ request' = [request EXCEPT ![c] = NoRequest]
  /\ result' = [result EXCEPT ![c] = r]

Invoke(c) ==
  /\ request[c] = NoRequest
  /\ \E kind \in Kinds, expected \in Values \cup {Absent}, new \in Values \cup {Absent} :
       request' = [request EXCEPT ![c] = [kind |-> kind, expected |-> expected, new |-> new]]
  /\ result' = [result EXCEPT ![c] = "none"]
  /\ UNCHANGED value

(* The compared value is the one the entry holds in this very step. *)
Write(c) ==
  /\ Decide(c, "ok")
  /\ request[c].kind = "cas" => value = request[c].expected
  /\ request[c].kind = "delete" => value # Absent
  /\ value' = request[c].new

Refuse(c) ==
  /\ Decide(c, "refused")
  /\ \/ request[c].kind = "cas" /\ value # request[c].expected
     \/ request[c].kind = "delete" /\ value = Absent
  /\ UNCHANGED value

(* TimeoutError, "the lock was lost", or the caller's death. *)
Fail(c) ==
  /\ \E r \in {"timeout", "lost", "crashed"} : Decide(c, r)
  /\ UNCHANGED value

Next == \E c \in Callers : Invoke(c) \/ Write(c) \/ Refuse(c) \/ Fail(c)

Spec == Init /\ [][Next]_vars
==============================================================================
