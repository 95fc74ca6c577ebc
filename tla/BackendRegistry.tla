---------------------------- MODULE BackendRegistry ----------------------------
(***************************************************************************)
(* backends/__init__.py: the threads of one process look for a backend and *)
(* use it, others probe what there is or clear the cache, while packages   *)
(* are installed into the running process.  Looking for the RustCrypto     *)
(* extension reads the remembered ImportError, imports, and remembers a    *)
(* new one: three steps that other threads may come between.               *)
(***************************************************************************)
EXTENDS BackendAdapters

CONSTANTS
  Users,         \* threads that select a backend and call one operation on it
  Probers,       \* threads that list the backends or clear the cache
  Requests,      \* the operations users ask for
  Names,         \* the backend= arguments they pass
  Overrides,     \* values of QUANTUM_SAFE_BACKEND, "" when it is not set
  Builds,        \* the mechanisms a liboqs build may have enabled
  MaxCalls,      \* bound: [Threads -> Nat], calls each thread makes
  NoRequest

Backends == <<"rustcrypto", "liboqs", "pyca">>    \* in the order of preference
Packages == {"rustcrypto", "liboqs", "pyca"}
KnownNames == Packages \cup {"noble", "auto"}
Threads == Users \cup Probers

ASSUME RegistryAssumption ==
  /\ Users \cap Probers = {}
  /\ Requests \subseteq Request
  /\ MaxCalls \in [Threads -> Nat]

VARIABLES
  override,      \* the environment of the process, fixed at its start
  enabled,       \* the mechanisms of the liboqs that is, or will be, installed
  installed,     \* packages that import
  failure,       \* _import_failure is set
  pc,            \* where each thread is
  why,           \* what it looks for the extension for
  request,       \* what a user asked for
  name,          \* the backend= it asked it of
  at,            \* the adapter it is using
  there,         \* what was installed when the call began
  skipped,       \* it was told of a remembered failure
  answer,        \* how its last call ended
  calls,
  late,          \* a probe was between its failed import and remembering it
                 \* when the extension was installed
  cleared        \* the cache was cleared after the extension was installed

local == <<why, request, name, at, there, skipped>>
environment == <<override, enabled>>
vars == <<override, enabled, installed, failure, pc, why, request, name, at, there, skipped,
          answer, calls, late, cleared>>

Looking == {"look", "import", "remember"}
Places == {"idle", "liboqs", "pyca", "call"} \cup Looking
Purposes == {"select", "list", "use"}

TypeOK ==
  /\ override \in Overrides
  /\ enabled \in Builds
  /\ installed \subseteq Packages
  /\ failure \in BOOLEAN /\ late \in BOOLEAN /\ cleared \in BOOLEAN
  /\ pc \in [Threads -> Places]
  /\ why \in [Threads -> Purposes]
  /\ request \in [Threads -> Requests \cup {NoRequest}]
  /\ name \in [Threads -> Names \cup Overrides \cup KnownNames]
  /\ at \in [Threads -> Packages \cup {"none"}]
  /\ there \in [Threads -> SUBSET Packages]
  /\ skipped \in [Threads -> BOOLEAN]
  /\ answer \in [Threads -> Answers \cup {"unknown", "none"}]
  /\ calls \in [Threads -> Nat]
------------------------------------------------------------------------------
Init ==
  /\ override \in Overrides
  /\ enabled \in Builds
  /\ installed \in SUBSET Packages
  /\ failure = FALSE
  /\ pc = [t \in Threads |-> "idle"]
  /\ why = [t \in Threads |-> "select"]
  /\ request = [t \in Threads |-> NoRequest]
  /\ name = [t \in Threads |-> "auto"]
  /\ at = [t \in Threads |-> "none"]
  /\ there = [t \in Threads |-> {}]
  /\ skipped = [t \in Threads |-> FALSE]
  /\ answer = [t \in Threads |-> "none"]
  /\ calls = [t \in Threads |-> 0]
  /\ late = FALSE
  /\ cleared = FALSE

Goto(t, place) == pc' = [pc EXCEPT ![t] = place]
Answer(t, a) == pc' = [pc EXCEPT ![t] = "idle"] /\ answer' = [answer EXCEPT ![t] = a]

(* Fault variant: the environment replaces every name. *)
OverrideAll(n) == IF override # "" THEN override ELSE n

(* The environment replaces "auto" only. *)
Resolve(n) == IF n = "auto" /\ override # "" THEN override ELSE n

Family(r) == IF r.key.alg \in LiboqsKEMs THEN "kem" ELSE "sig"

(* get_kem_backend(name) / get_signature_backend(name) *)
Select(u) ==
  /\ pc[u] = "idle"
  /\ calls[u] < MaxCalls[u]
  /\ calls' = [calls EXCEPT ![u] = @ + 1]
  /\ \E r \in Requests, n \in Names :
       /\ request' = [request EXCEPT ![u] = r]
       /\ name' = [name EXCEPT ![u] = Resolve(n)]
       /\ \/ Resolve(n) \notin KnownNames /\ Answer(u, "unknown")
          \/ Resolve(n) = "noble" /\ Answer(u, "unavailable")
          \/ /\ Resolve(n) \in {"auto"} \cup Packages
             /\ Goto(u, IF Resolve(n) \in {"auto", "rustcrypto"} THEN "look" ELSE Resolve(n))
             /\ answer' = [answer EXCEPT ![u] = "none"]
  /\ why' = [why EXCEPT ![u] = "select"]
  /\ at' = [at EXCEPT ![u] = "none"]
  /\ there' = [there EXCEPT ![u] = installed]
  /\ skipped' = [skipped EXCEPT ![u] = FALSE]
  /\ UNCHANGED <<environment, installed, failure, late, cleared>>

(* list_available_backends(): the answers of the other two leave no trace. *)
List(t) ==
  /\ t \in Probers
  /\ pc[t] = "idle"
  /\ calls[t] < MaxCalls[t]
  /\ calls' = [calls EXCEPT ![t] = @ + 1]
  /\ Goto(t, "look")
  /\ why' = [why EXCEPT ![t] = "list"]
  /\ UNCHANGED <<environment, installed, failure, request, name, at, there, skipped, answer,
                 late, cleared>>

(* Fault variant of Clear: only the adapter objects are dropped. *)
ClearAdaptersOnly(t) ==
  /\ t \in Probers
  /\ pc[t] = "idle"
  /\ calls[t] < MaxCalls[t]
  /\ calls' = [calls EXCEPT ![t] = @ + 1]
  /\ cleared' = (cleared \/ "rustcrypto" \in installed)
  /\ UNCHANGED <<environment, installed, failure, pc, local, answer, late>>

(* clear_backend_cache(): reset_import_probe(), and the adapter objects, which
   hold no state. *)
Clear(t) ==
  /\ t \in Probers
  /\ pc[t] = "idle"
  /\ calls[t] < MaxCalls[t]
  /\ calls' = [calls EXCEPT ![t] = @ + 1]
  /\ failure' = FALSE
  /\ cleared' = (cleared \/ "rustcrypto" \in installed)
  /\ UNCHANGED <<environment, installed, pc, local, answer, late>>
------------------------------------------------------------------------------
(* What the caller does when the extension is there, and when it is not. *)
Found(t) ==
  \/ why[t] = "select" /\ Goto(t, "call") /\ at' = [at EXCEPT ![t] = "rustcrypto"] /\ UNCHANGED answer
  \/ why[t] = "list" /\ Goto(t, "idle") /\ UNCHANGED <<at, answer>>
  \/ why[t] = "use" /\ (\E a \in RustAnswers(request[t]) : Answer(t, a)) /\ UNCHANGED at
Missing(t) ==
  /\ \/ why[t] = "select" /\ name[t] = "auto" /\ Goto(t, "liboqs") /\ UNCHANGED answer
     \/ why[t] = "select" /\ name[t] # "auto" /\ Answer(t, "unavailable")
     \/ why[t] = "list" /\ Goto(t, "idle") /\ UNCHANGED answer
     \/ why[t] = "use" /\ Answer(t, RustUnavailable(request[t]))
  /\ UNCHANGED at

(* _import_qs_py(): a remembered failure is raised again without looking. *)
Look(t) ==
  /\ pc[t] = "look"
  /\ \/ failure /\ Missing(t) /\ skipped' = [skipped EXCEPT ![t] = TRUE]
     \/ ~failure /\ Goto(t, "import") /\ UNCHANGED <<at, answer, skipped>>
  /\ UNCHANGED <<environment, installed, failure, why, request, name, there, calls, late, cleared>>

Import(t) ==
  /\ pc[t] = "import"
  /\ \/ "rustcrypto" \in installed /\ Found(t)
     \/ "rustcrypto" \notin installed /\ Goto(t, "remember") /\ UNCHANGED <<at, answer>>
  /\ UNCHANGED <<environment, installed, failure, why, request, name, there, skipped, calls,
                 late, cleared>>

Remember(t) ==
  /\ pc[t] = "remember"
  /\ failure' = TRUE
  /\ Missing(t)
  /\ UNCHANGED <<environment, installed, why, request, name, there, skipped, calls, late, cleared>>

(* is_available() of the other adapters: the next one is asked, a caller that
   named this one is refused. *)
TryLiboqs(u) ==
  /\ pc[u] = "liboqs"
  /\ IF LiboqsAvailable(Family(request[u]), "liboqs" \in installed, enabled)
     THEN Goto(u, "call") /\ at' = [at EXCEPT ![u] = "liboqs"] /\ UNCHANGED answer
     ELSE /\ UNCHANGED at
          /\ IF name[u] = "auto" THEN Goto(u, "pyca") /\ UNCHANGED answer ELSE Answer(u, "unavailable")
  /\ UNCHANGED <<environment, installed, failure, why, request, name, there, skipped, calls,
                 late, cleared>>

TryPyca(u) ==
  /\ pc[u] = "pyca"
  /\ IF PycaAvailable("pyca" \in installed)
     THEN Goto(u, "call") /\ at' = [at EXCEPT ![u] = "pyca"] /\ UNCHANGED answer
     ELSE Answer(u, "unavailable") /\ UNCHANGED at
  /\ UNCHANGED <<environment, installed, failure, why, request, name, there, skipped, calls,
                 late, cleared>>
------------------------------------------------------------------------------
(* The operation on the selected adapter.  A hand-over is get_*_backend(other),
   by its own name, and the same operation there. *)
HandOver(u, other) ==
  /\ name' = [name EXCEPT ![u] = other]
  /\ Goto(u, Resolve(other))
  /\ UNCHANGED answer

UseLiboqs(u) ==
  LET r == request[u]
  IN
  /\ pc[u] = "call" /\ at[u] = "liboqs"
  /\ \/ LiboqsHandsOver(r) /\ HandOver(u, "pyca")
     \/ /\ ~LiboqsHandsOver(r)
        /\ \E a \in IF Family(r) = "kem"
                    THEN LiboqsKEMAnswers(r, "liboqs" \in installed, enabled)
                    ELSE LiboqsSigAnswers(r, "liboqs" \in installed, enabled) : Answer(u, a)
        /\ UNCHANGED name
  /\ UNCHANGED <<environment, installed, failure, why, request, at, there, skipped, calls, late,
                 cleared>>

UsePyca(u) ==
  LET r == request[u]
  IN
  /\ pc[u] = "call" /\ at[u] = "pyca"
  /\ \/ PycaHandsOver(r) /\ HandOver(u, "liboqs")
     \/ /\ ~PycaHandsOver(r)
        /\ \E a \in PycaAnswers(r, "pyca" \in installed) : Answer(u, a)
        /\ UNCHANGED name
  /\ UNCHANGED <<environment, installed, failure, why, request, at, there, skipped, calls, late,
                 cleared>>

(* Every operation of the RustCrypto adapter looks for the extension again. *)
UseRust(u) ==
  /\ pc[u] = "call" /\ at[u] = "rustcrypto"
  /\ \/ /\ RustNeedsExtension(request[u])
        /\ Goto(u, "look") /\ why' = [why EXCEPT ![u] = "use"]
        /\ UNCHANGED answer
     \/ /\ ~RustNeedsExtension(request[u])
        /\ \E a \in RustInherited(request[u]) : Answer(u, a)
        /\ UNCHANGED why
  /\ UNCHANGED <<environment, installed, failure, request, name, at, there, skipped, calls, late,
                 cleared>>
------------------------------------------------------------------------------
(* pip install, while the process runs. *)
Install(p) ==
  /\ p \notin installed
  /\ installed' = installed \cup {p}
  /\ late' = (late \/ (p = "rustcrypto" /\ \E t \in Threads : pc[t] = "remember"))
  /\ UNCHANGED <<environment, failure, pc, local, answer, calls, cleared>>

Working(t) ==
  \/ Look(t) \/ Import(t) \/ Remember(t)
  \/ TryLiboqs(t) \/ TryPyca(t) \/ UseLiboqs(t) \/ UsePyca(t) \/ UseRust(t)

Done == /\ \A t \in Threads : pc[t] = "idle" /\ calls[t] = MaxCalls[t]
        /\ installed = Packages
        /\ UNCHANGED vars

Next ==
  \/ \E u \in Users : Select(u)
  \/ \E t \in Probers : List(t) \/ Clear(t)
  \/ \E t \in Threads : Working(t)
  \/ \E p \in Packages : Install(p)
  \/ Done

Spec == Init /\ [][Next]_vars

(* A thread inside a call keeps running. *)
FairSpec == Spec /\ \A t \in Threads : WF_vars(Working(t))
------------------------------------------------------------------------------
(* backends/pyca.py: "each backend hands a key of the other form to the other
   backend, so a key works with whichever backend the caller selected, as long
   as both are installed" -- whatever the environment overrides, for the
   algorithms both of them have.  Of liboqs that takes more than being
   installed: an expanded key needs a build with its mechanism, and with the
   one is_available() looks for, or the hand-over is refused. *)
KeyWorksWithEither ==
  \A u \in Users :
    LET r == request[u]
    IN  /\ answer[u] # "none"
        /\ at[u] \in {"liboqs", "pyca"}
        /\ r.op \in SecretOps /\ ~r.long /\ PycaKnows(r)
        /\ {"liboqs", "pyca"} \subseteq there[u]
        /\ r.key.form = "expanded" => {r.key.alg, Probe(Family(r))} \subseteq enabled
        => answer[u] = "ok"

(* "auto" gives the backend of the highest preference: a better one was not
   installed when the caller asked, or is the extension and a failed import of
   it was remembered, or is a liboqs built without the one mechanism of the
   family that is_available() looks for. *)
PicksBest ==
  \A u \in Users :
    name[u] = "auto" /\ at[u] # "none" =>
      \A i, j \in DOMAIN Backends :
        /\ Backends[j] = at[u] /\ i < j /\ Backends[i] \in there[u]
        => \/ Backends[i] = "rustcrypto" /\ skipped[u]
           \/ Backends[i] = "liboqs" /\ Probe(Family(request[u])) \notin enabled

(* clear_backend_cache(): "Call this after installing a backend package into a
   process that is already running."  After it the extension is found, and
   stays found; only a probe that had already failed to import it, and had not
   yet remembered that, can undo this. *)
ClearIsFinal == cleared /\ ~late => ~failure

(* A signature that is good is not called bad for what is or is not installed.
   The exceptions are a liboqs built without the algorithm (but for ML-DSA-65,
   without which it is not available), an extension that lacks the algorithm,
   and an extension installed while the call was looking for it or while a
   failed probe was about to be remembered: verify() turns every exception
   into False, that of a missing mechanism and the remembered failure too. *)
GoodSignatureAccepted ==
  \A u \in Users :
    /\ answer[u] = "rejected" /\ ~request[u].long
    => \/ at[u] = "liboqs" /\ request[u].key.alg \notin enabled \cup {Probe("sig")}
       \/ at[u] = "rustcrypto" /\ (late \/ "rustcrypto" \notin there[u] \/ request[u].key.alg \notin RustSigs)

(* A call ends: two adapters never pass a key back and forth. *)
CallsEnd == \A t \in Threads : pc[t] # "idle" ~> pc[t] = "idle"
==============================================================================
