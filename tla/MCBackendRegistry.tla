--------------------------- MODULE MCBackendRegistry ---------------------------
(***************************************************************************)
(* An instance of BackendRegistry for TLC: a user that makes one call, a   *)
(* prober that makes two, every kind of request, a full liboqs build, and  *)
(* two that have the probed mechanism of one family and lack that of the   *)
(* other, though not what a request may ask for.                           *)
(***************************************************************************)
EXTENDS BackendRegistry

Req(op, alg, form) == [op |-> op, key |-> [alg |-> alg, form |-> form], long |-> FALSE]

(* Keys of both forms of an algorithm that liboqs is probed for and of others,
   of one pyca lacks and of one only liboqs has; every operation; one long
   context. *)
MCRequests ==
  {Req(op, "ML-DSA-87", f) : op \in {"sign", "sign_native"}, f \in Forms}
  \cup {Req("decapsulate", alg, f) : alg \in PycaKEMs, f \in Forms}
  \cup {Req("decapsulate", "ML-KEM-512", "seed")}
  \cup {Req(op, "ML-DSA-65", "expanded") : op \in {"keygen_from_seed", "verify_native", "verify"}}
  \cup {Req("verify", "ML-DSA-87", "expanded")}
  \cup {Req("sign", "SLH-DSA-SHAKE-128s", "expanded")}
  \cup {Req(op, "ML-KEM-768", "expanded") : op \in {"keygen", "encapsulate"}}
  \cup {[Req("sign", "ML-DSA-65", "expanded") EXCEPT !.long = TRUE]}
MCMaxCalls == [t \in Threads |-> IF t \in Users THEN 1 ELSE 2]
MCBuilds ==
  {Algorithms, {"ML-KEM-768", "ML-DSA-87"}, {"ML-KEM-1024", "ML-DSA-65"}}
==============================================================================
