----------------------------- MODULE SignedTraffic -----------------------------
(***************************************************************************)
(* A sender and a receiver.  The sender's key pair is written to documents *)
(* and read back, by itself and by the receiver; it signs messages, raw    *)
(* bytes, tokens of both kinds, COSE objects and certificates, one after   *)
(* the other and with the same key; the receiver checks whatever has been  *)
(* sent, with the key it has and the parameters it happens to pass.        *)
(***************************************************************************)
EXTENDS Tokens

CONSTANTS
  Owner, Stranger,   \* key material: the sender's, somebody else's
  Suites,            \* the algorithms the sender may have a key for
  Alphabet,          \* pieces of the bytes that applications pass: any
  Contexts,          \* contexts applications pass; none of them is the library's own
  Messages,
  Callers,           \* claims that callers of the JWT signers pass
  Lifetimes,         \* their expires_in
  MaxSent,           \* bound: artefacts sent
  LastIssue,         \* bound: the time after which nothing more is sent
  MaxTime,           \* bound: the end of the clock
  NoDocument

ASSUME TrafficAssumption ==
  /\ Owner # Stranger
  /\ "absent" \notin {Owner, Stranger}
  /\ Suites \subseteq {s \in Suite : Approved(s)}
  /\ Contexts \subseteq Seq(Alphabet) /\ {JwtContext, CosigContext} \cap Contexts = {}
  /\ Messages \subseteq Seq(Alphabet) /\ Nil \notin Messages
  /\ \A e \in Lifetimes : LastIssue + e + Skew < MaxTime
  /\ \A c \in Callers : c.exp.at + Skew < MaxTime

VARIABLES
  held,     \* the pair the sender signs with
  known,    \* the public key the receiver has
  mail,     \* a document handed over, and the pair it was written from
  sent,     \* artefacts, and how each was made
  now

traffic == <<held, known, mail, sent, now>>

(* A pair as generated, or two halves that an application put together. *)
TrafficInit ==
  /\ \E s \in Suites, form \in {"seed", "expanded"}, m \in {Owner, Stranger} :
       held = Pair(Public(m, s), Secret(Owner, s, form))
  /\ known = held.public
  /\ mail = NoDocument
  /\ sent = {}
  /\ now = 0
------------------------------------------------------------------------------
(* The same bytes filed under the name of the other format, which the
   documentation advises against but nothing prevents. *)
Refile ==
  /\ Cardinality(sent) < MaxSent    \* the pair is not used after that
  /\ held' = LET suite == [held.secret.algorithm EXCEPT !.v2 = ~@]
             IN  Pair([held.public EXCEPT !.algorithm = suite], [held.secret EXCEPT !.algorithm = suite])
  /\ UNCHANGED <<known, mail, sent, now>>

(* Upgrader.strip_classical_component: the ML-DSA half goes on alone, and its
   name keeps the "-v2". *)
Strip ==
  /\ Cardinality(sent) < MaxSent
  /\ IsHybrid(held.secret.algorithm)
  /\ held' = LET suite == [held.secret.algorithm EXCEPT !.classical = "none"]
                 stripped(key) == [key EXCEPT !.algorithm = suite, !.state = "pqc_only"]
             IN  Pair(stripped(held.public), stripped(held.secret))
  /\ UNCHANGED <<known, mail, sent, now>>

(* A document as it stands, or as a later release would write it. *)
Newer(docs) == {[d EXCEPT !.v = CurrentVersion + 1] : d \in {d \in docs : d.format \in Library}}

Write ==
  /\ sent = {}
  /\ \E d \in LET docs == PublicDocuments(held) \cup PrivateDocuments(held) IN docs \cup Newer(docs) :
       mail' = [doc |-> d, from |-> held]
  /\ UNCHANGED <<held, known, sent, now>>

Learn ==
  /\ mail # NoDocument
  /\ known' \in PublicReadings(mail.doc)
  /\ mail' = NoDocument
  /\ UNCHANGED <<held, sent, now>>

Restore ==
  /\ mail # NoDocument
  /\ held' \in PairReadings(mail.doc)
  /\ mail' = NoDocument
  /\ UNCHANGED <<known, sent, now>>
------------------------------------------------------------------------------
(* by: the secret that signed; the rest is what the caller passed, a payload
   only to COSE and a lifetime only to the tokens. *)
Made(what, hedged, context) ==
  [what |-> what, by |-> held.secret, hedged |-> hedged, context |-> context,
   payload |-> Nil, lifetime |-> FALSE]

Add(entry) ==
  /\ Cardinality(sent) < MaxSent
  /\ now <= LastIssue
  /\ sent' = sent \cup {entry}
  /\ mail' = NoDocument
  /\ UNCHANGED <<held, known, now>>

Nonce == Cardinality(sent)
Pure == ~IsHybrid(held.secret.algorithm)
Modes == {h \in BOOLEAN : BuildRefusal([suite |-> held.secret.algorithm, hedged |-> h]) = "built"}

(* sign, sign_with_fingerprint *)
SendMessage(hedged, message, context) ==
  LET signer == [suite |-> held.secret.algorithm, hedged |-> hedged]
  IN  /\ SignRefusal(signer, held.secret, message, context) = "signed"
      /\ Add(Made([kind |-> "message",
                     cbor |-> ToCbor(Signed(signer, held.secret, message, context, Nonce))],
                  hedged, context))

SendRaw(message, context) ==
  /\ Pure
  /\ RawSignRefusal([suite |-> held.secret.algorithm, hedged |-> TRUE], held.secret, context) = "signed"
  /\ Add(Made([kind |-> "raw", message |-> message, signature |-> SignRaw(held.secret, message, context)],
              TRUE, context))

(* The caller's own exp replaces the lifetime asked for. *)
GivenLifetime(caller, asked) == caller.exp.is = "number" \/ (caller.exp = Absent /\ asked)

SendJwt(hedged, caller, expiresIn) ==
  LET token == JwtSign(held, hedged, caller, "any", expiresIn, JwtContext, now, Nonce)
  IN  Add([Made(token, hedged, JwtContext) EXCEPT !.lifetime = GivenLifetime(caller, expiresIn > 0)])

SendStandard(caller, expiresIn) ==
  /\ ~StandardSignRefusal(held.secret, expiresIn)
  /\ LET token == StandardSign(held.secret, caller, "any", expiresIn, "none", now)
     IN  Add([Made(token, TRUE, <<>>) EXCEPT !.lifetime = GivenLifetime(caller, expiresIn # 0)])

SendCose(payload, aad, detached) ==
  /\ JoseAlg(held.secret.algorithm)
  /\ LET object == Sign1(payload, held.secret, "none", aad, detached)
     IN  Add([Made(object, TRUE, aad) EXCEPT !.payload = payload])

SendCertificate(hedged) ==
  Add(Made(Cosign("cn", held, hedged, Nonce), hedged, CosigContext))

Send ==
  \/ \E h \in Modes, m \in Messages, c \in Contexts : SendMessage(h, m, c)
  \/ \E m \in Messages, c \in Contexts : SendRaw(m, c)
  \/ \E h \in Modes, c \in Callers, e \in Lifetimes : SendJwt(h, c, e)
  \/ \E c \in Callers, e \in Lifetimes : SendStandard(c, e)
  \/ \E m \in Messages, a \in Contexts, d \in BOOLEAN : SendCose(m, a, d)
  \/ \E h \in Modes : SendCertificate(h)

Tick ==
  /\ now < MaxTime
  /\ now' = now + 1
  /\ UNCHANGED <<held, known, mail, sent>>

TrafficNext == Refile \/ Strip \/ Write \/ Learn \/ Restore \/ Send \/ Tick
TrafficSpec == TrafficInit /\ [][TrafficNext]_traffic

(* Time passes, whatever the two do. *)
FairTraffic == TrafficSpec /\ WF_traffic(Tick)
------------------------------------------------------------------------------
Anyone == Expect("any", "any", TRUE)

(* The receiver checks e with the key k, in hedged mode h or not, passing c as
   the context (or as the external data of a COSE object). *)
Accepted(e, k, h, c) ==
  LET signer == [suite |-> k.algorithm, hedged |-> h]  a == e.what
  IN  "accepted" =
      CASE a.kind = "message" -> IF BuildRefusal(signer) # "built" THEN "invalid"
                                 ELSE Verify(signer, k, FromCbor(a.cbor), c)
        [] a.kind = "raw" -> IF IsHybrid(k.algorithm) THEN "unsupported"
                             ELSE VerifyRaw(signer, k, a.message, a.signature, c)
        [] a.kind = "jwt" -> JwtVerify(a, k, h, c, Anyone, now)
        [] a.kind = "std" -> StandardVerify(a, k, Anyone, now, FALSE)
        [] a.kind = "cose" -> VerifySign1(a, k, c, e.payload)
        [] a.kind = "cosig" -> VerifyCosig(a.cert, a, k, h)

(* Its key, mode and context are those it was signed with, and a token's time
   has come and has not passed. *)
Meant(e, k, h, c) ==
  LET a == e.what
  IN  /\ k.material = e.by.material
      /\ k.algorithm = e.by.algorithm \/ (a.kind = "raw" /\ SpecName(k.algorithm) = SpecName(e.by.algorithm))
      /\ a.kind \in {"message", "jwt", "cosig"} => h = e.hedged
      /\ a.kind \in {"raw", "jwt", "cose"} => c = e.context
      /\ a.kind = "message" => (IF c = Omitted THEN <<>> ELSE c) = e.context
      /\ a.kind \in {"jwt", "std"} => NotExpired(a.claims, now) /\ Started(a.claims, now)

(* The verify docstrings of signatures/core.py, signatures/hybrid.py and
   protocols/: whatever was sent is accepted exactly when the receiver has the
   right key under the right name, the right mode and the right context;
   leaving the context out means the empty one. *)
VerifiesExactlyWhatWasSigned ==
  \A e \in sent, h \in BOOLEAN, c \in Contexts \cup {JwtContext, Omitted} :
    Accepted(e, known, h, c) <=> Meant(e, known, h, c)

(* The primitive signatures inside an artefact, and what the artefact says.
   Only v2 signs the name of the suite: a deterministic v1 signature of a
   hybrid holds one of its ML-DSA half alone. *)
Wrappers == {"message", "jwt", "cosig"}
Sig(a) == IF a.kind = "message" THEN a.cbor.sig ELSE a.signature
Primitives(a) ==
  IF a.kind \in Wrappers THEN {Sig(a).parts[p] : p \in DOMAIN Sig(a).parts \ {"names"}}
  ELSE {Sig(a)}
Signs(suite) == IF suite.v2 THEN suite ELSE [suite EXCEPT !.classical = "none"]
Says(e) ==
  LET a == e.what
  IN  CASE a.kind = "message" -> <<a.kind, Signs(a.cbor.algo), a.cbor.msg, a.cbor.ctx>>
        [] a.kind = "raw" -> <<a.kind, a.message, e.context>>
        [] a.kind \in {"jwt", "std"} -> <<a.kind, a.alg, a.claims>>
        [] a.kind = "cose" -> <<a.kind, a.protected, e.payload, e.context>>
        [] a.kind = "cosig" -> <<a.kind, a.cert>>

(* What d signs the code does not keep apart from what e signs: sign_raw takes
   any bytes under the native contexts of the other interfaces; the length of
   a v1 context is the letter that a token (e), a COSE object (an array of
   four) or the classical half of v2 (q) begins with; and nothing tells the
   random prefix of a v1 message from the message. *)
MayPassFor(d, e) ==
  LET a == d.what  b == e.what
  IN  \/ a.kind = "raw" /\ b.kind # "raw" /\ d.context \in {<<>>, Label}
      \/ /\ a.kind = "message" /\ Sig(a).version = 1
         /\ \/ Len(d.context) = 101 /\ b.kind = "std"
            \/ Len(d.context) = 132 /\ b.kind = "cose"
            \/ Len(d.context) = 113 /\ b.kind \in Wrappers /\ Sig(b).version = 2
            \/ /\ b.kind = "message" /\ Sig(b).version = 1 /\ d.context = e.context
               /\ Sig(b).rand # <<>> /\ a.cbor.msg = Sig(b).rand \o b.cbor.msg

(* docs/guides/context-and-aad.rst: a signature made under one context "cannot
   be presented as" another thing the same key signed.  Whatever the bytes that
   applications choose, whatever the interface, and even with one key in both
   formats and alone after it was half of a hybrid, two artefacts that share a
   primitive signature say the same, unless one may pass for the other:
   signatures/_v2.py admits the message/prefix boundary of v1 and the classical
   halves of both formats. *)
SignaturesNotShared ==
  \A d, e \in sent :
    Primitives(d.what) \cap Primitives(e.what) # {} =>
      Says(d) = Says(e) \/ MayPassFor(d, e) \/ MayPassFor(e, d)

(* What a reader makes of a document is the key it was written from: the same
   bytes under the same algorithm, the state where the format has one, and a
   pair read from a seed is a pair, whatever was put together before. *)
DocumentsCarryTheKey ==
  mail # NoDocument =>
    LET doc == mail.doc  from == mail.from
    IN  /\ \A k \in PublicReadings(doc) :
             /\ <<k.material, k.algorithm>> = <<from.public.material, from.public.algorithm>>
             /\ k.state \in {from.public.state, "hybrid_transition"}
             /\ doc.format \in {"pem", "cbor"} => k.state = from.public.state /\ doc.v = CurrentVersion
        /\ \A p \in PairReadings(doc) :
             /\ p.secret.material = from.secret.material /\ p.secret.algorithm = from.secret.algorithm
             /\ p.public.material = from.public.material
             /\ doc.format \in Standards => p.public.material = p.secret.material

(* standard_jwt.py: "a negative value would silently produce a token without
   exp".  A token that was given a lifetime, by the caller's claim or by
   expires_in, is refused for good after a while. *)
TokensLapse ==
  <>[](\A e \in sent :
         /\ e.what.kind \in {"jwt", "std"}
         /\ e.lifetime
         => ~Accepted(e, [material |-> e.by.material, algorithm |-> e.by.algorithm], e.hedged, e.context))
==============================================================================
