----------------------------- MODULE VerdictProofs -----------------------------
(****************************************************************************)
(* What a verdict means, for every wallet, anchor, predicate and alteration *)
(* on the way; and, in the second half, what a wallet's answers are worth.  *)
(*                                                                          *)
(* A presentation without a hard failure carries the subject's signature    *)
(* and authentic claims, which leave no room for an alteration but for      *)
(* fields left out (Narrower); everything else follows from the wallet      *)
(* holding what issuers signed.                                             *)
(*                                                                          *)
(* The statuses a verifier cannot resolve enter a report in one place, the  *)
(* soft check of a claim.  Resolving them all takes that check out of every *)
(* claim's failures and changes nothing else; so a report that fails in     *)
(* nothing else becomes an accepting one.                                   *)
(****************************************************************************)
EXTENDS Verdict, Wallet, PresentingProofs

-------------------------------------------------------------------------------
(* Type correctness. *)

(* A disclosure of a held claim shows all of its reliance. *)
LEMMA HonestReliance ==
  ASSUME NEW s \in Selections, NEW c \in Range(s)
  PROVE  c.reliance = c.reliance_root
  BY VerdictAssumption, DisclosedParts

LEMMA VdTypeInit == VdInit => VdTypeOK
  <1> SUFFICES ASSUME VdInit PROVE VdTypeOK
    OBVIOUS
  <1>1. anchor \in Anchors
    BY DEF VdInit, Anchors
  <1>2. PICK n \in Nonce, s \in Selections : built = BuildPresentation(Subject, Audience, n, 0, Ttl, s)
    BY DEF VdInit
  <1>3. built.issued_at = 0 /\ built.expires_at = Ttl /\ built.claims = s
    BY <1>2 DEF BuildPresentation
  <1>4. \A c \in Range(built.claims) : c.reliance = c.reliance_root
    BY <1>3, HonestReliance
  <1>5. MaxNow \in Nat
    BY VerdictAssumption
  <1>6. now \in 0..MaxNow /\ seen \in BOOLEAN /\ reqs \subseteq Requests
    <2>1. now = 0 /\ seen = FALSE /\ reqs = {}
      BY Zenon DEF VdInit
    <2>2. now \in 0..MaxNow
      BY <1>5, <2>1
    <2>3. QED
      BY <2>1, <2>2
  <1>7. QED
    BY <1>1, <1>3, <1>4, <1>6 DEF VdTypeOK

(* Whatever a verifier learns, its anchor stays one. *)
LEMMA AnchorNext ==
  ASSUME VdTypeOK, NEW a, Learn(a), a \in Anchors
  PROVE  VdTypeOK'
  BY DEF VdTypeOK, Learn

LEMMA VdTypeNext == VdTypeOK /\ [VdNext]_vdVars => VdTypeOK'
  <1> SUFFICES ASSUME VdTypeOK, [VdNext]_vdVars PROVE VdTypeOK'
    OBVIOUS
  <1>1. anchor \in Anchors
    BY DEF VdTypeOK
  <1>2. CASE Alter
    BY <1>2 DEF Alter, VdTypeOK, world
  <1>3. CASE Tick
    BY <1>3, VerdictAssumption DEF Tick, VdTypeOK
  <1>4. CASE Consume
    BY <1>4 DEF Consume, VdTypeOK
  <1>5. ASSUME NEW req \in Requests, Ask(req) PROVE VdTypeOK'
    BY <1>5 DEF Ask, VdTypeOK
  <1>6. ASSUME NEW id \in Ids, Revoke(id) \/ LoseTrack(id) \/ Resolve(id) PROVE VdTypeOK'
    BY <1>1, <1>6, AnchorNext DEF Revoke, LoseTrack, Resolve, Anchors
  <1>7. ASSUME NEW i \in Issuers, Forget(i) PROVE VdTypeOK'
    BY <1>1, <1>7, AnchorNext DEF Forget, Anchors
  <1>8. ASSUME NEW c \in Categories, Require(c) PROVE VdTypeOK'
    BY <1>1, <1>8, AnchorNext DEF Require, Anchors
  <1>9. ASSUME NEW i \in Issuers, NEW c \in Categories, Accredit(i, c) PROVE VdTypeOK'
    BY <1>1, <1>9, AnchorNext DEF Accredit, Anchors
  <1>10. CASE UNCHANGED vdVars
    BY <1>10 DEF vdVars, world, VdTypeOK
  <1>11. QED
    BY <1>2, <1>3, <1>4, <1>5, <1>6, <1>7, <1>8, <1>9, <1>10 DEF VdNext, Move

(* The verifier's view keeps its type, and what the wallet built keeps its    *)
(* window and all of its reliance (presentation.rs:47-79).                   *)
THEOREM VdTypeCorrect == VdSpec => []VdTypeOK
  BY VdTypeInit, VdTypeNext, PTL DEF VdSpec

-------------------------------------------------------------------------------
(* Amber. *)

Soft == RELIANCE_RESOLVABLE_CHECK

(* Resolving every status changes no other part of the anchor. *)
LEMMA ResolvedAnchor ==
  ASSUME NEW a \in Anchors
  PROVE  /\ Resolved(a) \in Anchors
         /\ Resolved(a).issuers = a.issuers /\ Resolved(a).required = a.required
         /\ Resolved(a).accredited = a.accredited /\ Resolved(a).revoked = a.revoked
         /\ Resolved(a).unresolvable = {}
  BY DEF Resolved, Anchors

(* A resolved anchor finds nothing unresolvable, and revoked what was so. *)
LEMMA ResolvedReliance ==
  ASSUME NEW a \in Anchors, NEW c
  PROVE  /\ Relies(c, Resolved(a), "Revoked") <=> Relies(c, a, "Revoked")
         /\ ~Relies(c, Resolved(a), "Unresolvable")
  BY ResolvedAnchor DEF Relies, Status

(* A claim's failures under a resolved anchor: the soft one is gone. *)
LEMMA ResolvedClaim ==
  ASSUME NEW a \in Anchors, NEW c, NEW presenter, NEW t
  PROVE  ClaimFailures(c, presenter, t, Resolved(a)) = ClaimFailures(c, presenter, t, a) \ {Soft}
  <1>1. OwnFailures(c, t, Resolved(a)) = OwnFailures(c, t, a)
    BY ResolvedAnchor DEF OwnFailures, AccreditedOk
  <1>2. Soft \notin OwnFailures(c, t, a)
    BY DEF OwnFailures, FailsUnless, Soft, RELIANCE_RESOLVABLE_CHECK
  <1>3. TrustFailures(c, t, Resolved(a)) = TrustFailures(c, t, a) \ {Soft}
    BY <1>1, <1>2, ResolvedReliance
    DEF TrustFailures, FailsUnless, Soft, RELIANCE_RESOLVABLE_CHECK
  <1>4. QED
    BY <1>3, ResolvedAnchor
    DEF ClaimFailures, FailsUnless, Soft, RELIANCE_RESOLVABLE_CHECK

(* The checks of the envelope and the signature know no soft failure. *)
LEMMA BindingIsHard ==
  ASSUME NEW q, NEW t, NEW b
  PROVE  Soft \notin BindingFailures(q, Audience, t, b)
  BY DEF BindingFailures, EnvelopeFailures, FailsUnless, Soft, RELIANCE_RESOLVABLE_CHECK

(* A predicate that is settled stays settled when statuses are resolved. *)
LEMMA ResolvedPredicates ==
  ASSUME NEW a \in Anchors, NEW q, NEW t, NEW rs, PredicateFailures(q, t, a, rs) = {}
  PROVE  PredicateFailures(q, t, Resolved(a), rs) = {}
  <1>1. ASSUME NEW req \in rs
        PROVE  \E c \in Range(q.claims) : PredicateHolds(req, c, q.subject_id, t, Resolved(a))
    <2>1. PICK c \in Range(q.claims) : PredicateHolds(req, c, q.subject_id, t, a)
      BY <1>1 DEF PredicateFailures, FailsUnless
    <2>2. PredicateHolds(req, c, q.subject_id, t, Resolved(a))
      BY <2>1, ResolvedClaim DEF PredicateHolds, FullyValid
    <2>3. QED
      BY <2>2
  <1>2. QED
    BY <1>1 DEF PredicateFailures, FailsUnless

(* The report of resolved statuses, part by part. *)
LEMMA AmberRecovers ==
  ASSUME anchor \in Anchors, IsAmber(Failed)
  PROVE  FailedChecks(p, Audience, now, Resolved(anchor), seen, reqs) = {}
  <1>1. Failed \subseteq {Soft}
    BY DEF IsAmber, Soft
  <1>2. BindingFailures(p, Audience, now, seen) = {}
    BY <1>1, BindingIsHard DEF Failed, FailedChecks
  <1>3. PredicateFailures(p, now, anchor, reqs) = {}
    BY <1>1 DEF Failed, FailedChecks, PredicateFailures, FailsUnless, Soft,
                RELIANCE_RESOLVABLE_CHECK
  <1>4. ASSUME NEW c \in Range(p.claims)
        PROVE  ClaimFailures(c, p.subject_id, now, Resolved(anchor)) = {}
    <2>1. ClaimFailures(c, p.subject_id, now, anchor) \subseteq {Soft}
      BY <1>1 DEF Failed, FailedChecks
    <2>2. QED
      BY <2>1, ResolvedClaim
  <1>5. QED
    BY <1>2, <1>3, <1>4, ResolvedPredicates DEF FailedChecks

LEMMA RecoverableIsAmber ==
  ASSUME anchor \in Anchors, reqs = {},
         FailedChecks(p, Audience, now, Resolved(anchor), seen, reqs) = {}
  PROVE  Failed \subseteq {Soft}
  <1>1. BindingFailures(p, Audience, now, seen) = {}
    BY DEF FailedChecks
  <1>2. PredicateFailures(p, now, anchor, reqs) = {}
    BY DEF PredicateFailures, FailsUnless
  <1>3. ASSUME NEW c \in Range(p.claims)
        PROVE  ClaimFailures(c, p.subject_id, now, anchor) \subseteq {Soft}
    <2>1. ClaimFailures(c, p.subject_id, now, Resolved(anchor)) = {}
      BY DEF FailedChecks
    <2>2. QED
      BY <2>1, ResolvedClaim
  <1>4. QED
    BY <1>1, <1>2, <1>3 DEF Failed, FailedChecks

(* Amber is exactly what resolved statuses would turn into acceptance: it     *)
(* hides no other failure, and without predicates nothing recoverable is     *)
(* refused outright (presentation.rs:144-146, 253-259).                      *)
THEOREM AmberHolds == VdSpec => []AmberIsRecoverable
  <1>1. VdTypeOK => AmberIsRecoverable
    <2> SUFFICES ASSUME VdTypeOK PROVE AmberIsRecoverable
      OBVIOUS
    <2>1. anchor \in Anchors
      BY DEF VdTypeOK
    <2>2. IsAmber(Failed) =>
            Accepts(FailedChecks(p, Audience, now, Resolved(anchor), seen, reqs))
      BY <2>1, AmberRecovers DEF Accepts
    <2>3. reqs = {} /\ Accepts(FailedChecks(p, Audience, now, Resolved(anchor), seen, reqs))
            => IsAmber(Failed) \/ Accepts(Failed)
      BY <2>1, RecoverableIsAmber DEF Accepts, IsAmber, Soft
    <2>4. QED
      BY <2>2, <2>3 DEF AmberIsRecoverable
  <1>2. QED
    BY <1>1, VdTypeCorrect, PTL

-------------------------------------------------------------------------------
(* What was signed. *)

(* Replacing further fields of a claim. *)
LEMMA ReplaceRelianceRoot ==
  ASSUME NEW id, NEW su, NEW is, NEW ca, NEW sc, NEW fr, NEW un, NEW bo, NEW re, NEW fi,
         NEW rl, NEW sg, NEW x
  PROVE  [AsClaim(id, su, is, ca, sc, fr, un, bo, re, fi, rl, sg) EXCEPT !.reliance_root = x]
           = AsClaim(id, su, is, ca, sc, fr, un, bo, x, fi, rl, sg)
  BY DEF AsClaim

LEMMA ReplaceUntil ==
  ASSUME NEW id, NEW su, NEW is, NEW ca, NEW sc, NEW fr, NEW un, NEW bo, NEW re, NEW fi,
         NEW rl, NEW sg, NEW x
  PROVE  [AsClaim(id, su, is, ca, sc, fr, un, bo, re, fi, rl, sg) EXCEPT !.until = x]
           = AsClaim(id, su, is, ca, sc, fr, x, bo, re, fi, rl, sg)
  BY DEF AsClaim

LEMMA ReplaceSubject ==
  ASSUME NEW id, NEW su, NEW is, NEW ca, NEW sc, NEW fr, NEW un, NEW bo, NEW re, NEW fi,
         NEW rl, NEW sg, NEW x
  PROVE  [AsClaim(id, su, is, ca, sc, fr, un, bo, re, fi, rl, sg) EXCEPT !.subject_id = x]
           = AsClaim(id, x, is, ca, sc, fr, un, bo, re, fi, rl, sg)
  BY DEF AsClaim

(* A claim as an issuer signed it, with some of its fields revealed. *)
Signed(c) ==
    /\ ClaimShaped(c) /\ Authentic(c)
    /\ c.fields = Restrict(c.body_root, DOMAIN c.fields)

(* c reveals some of the fields of o and is o otherwise. *)
Narrowed(c, o) ==
    \E keys \in SUBSET DOMAIN o.fields : c = [o EXCEPT !.fields = Restrict(o.fields, keys)]

(* Issuing and disclosing make signed claims. *)
LEMMA IssuedIsSigned ==
  ASSUME NEW s \in Selections, NEW c \in Range(s)
  PROVE  /\ Signed(c)
         /\ \E d \in Held :
               /\ c = [d EXCEPT !.fields = c.fields, !.reliance = c.reliance]
               /\ c.claim_id = d.claim_id /\ c.subject_id = d.subject_id
               /\ c.issuer_id = d.issuer_id /\ c.category = d.category
               /\ c.schema_id = d.schema_id /\ c.from = d.from /\ c.until = d.until
               /\ c.body_root = d.body_root /\ c.reliance_root = d.reliance_root
               /\ ClaimShaped(d)
  <1>1. PICK d \in Held : /\ DOMAIN c.fields \subseteq DOMAIN d.body_root
                          /\ c = Disclose(d, DOMAIN c.fields)
    BY VerdictAssumption
  <1>2. AsIssued(d)
    BY VerdictAssumption
  <1>3. Signed(c)
    BY <1>1, <1>2, DisclosedParts DEF Signed
  <1>4. c.fields = Restrict(d.body_root, DOMAIN c.fields) /\ c.reliance = d.reliance_root
    BY <1>1, <1>2, DisclosedParts
  <1>5. c = [d EXCEPT !.fields = c.fields, !.reliance = c.reliance]
    BY <1>1, <1>4 DEF Disclose
  <1>6. /\ c.claim_id = d.claim_id /\ c.subject_id = d.subject_id
        /\ c.issuer_id = d.issuer_id /\ c.category = d.category
        /\ c.schema_id = d.schema_id /\ c.from = d.from /\ c.until = d.until
        /\ c.body_root = d.body_root /\ c.reliance_root = d.reliance_root
    BY <1>1, <1>2, DisclosedParts
  <1>7. ClaimShaped(d)
    BY <1>2, IssuedParts
  <1>8. QED
    BY <1>3, <1>5, <1>6, <1>7

(* Of an altered claim only the revealed fields may still be other ones, if   *)
(* it is still authentic.                                                    *)
LEMMA AlteredAuthentic ==
  ASSUME NEW o, Signed(o), NEW c \in AlteredClaim(o), Authentic(c)
  PROVE  Narrowed(c, o)
  <1>1. /\ ClaimShaped(o) /\ o.fields = Restrict(o.body_root, DOMAIN o.fields)
        /\ o.issuer_signature.over = ClaimSigning(o)
        /\ FieldsProven(o) /\ o.reliance = o.reliance_root
    BY DEF Signed, Authentic, RelianceProven
  <1>2. o.fields = Restrict(o.fields, DOMAIN o.fields)
    BY <1>1 DEF Restrict
  <1>3. [o EXCEPT !.fields = o.fields] = o
    BY <1>1, ReplaceFields DEF ClaimShaped
  <1>4. Narrowed(o, o)
    BY <1>2, <1>3 DEF Narrowed
  <1>5. c.issuer_signature.over = ClaimSigning(c) /\ FieldsProven(c) /\ c.reliance = c.reliance_root
    BY DEF Authentic, RelianceProven
  <1>6. ASSUME NEW keys \in SUBSET DOMAIN o.fields, c = [o EXCEPT !.fields = Restrict(@, keys)]
        PROVE  Narrowed(c, o)
    BY <1>6 DEF Narrowed
  <1>7. ASSUME NEW k \in DOMAIN o.fields, c = [o EXCEPT !.fields[k] = Garbage]
        PROVE  c = o
    <2>1. c = [o EXCEPT !.fields = [o.fields EXCEPT ![k] = Garbage]]
      BY <1>7
    <2>2. c.fields = [o.fields EXCEPT ![k] = Garbage] /\ c.body_root = o.body_root
      BY <1>1, <2>1, ReplaceFields DEF ClaimShaped, AsClaim
    <2>3. k \in DOMAIN c.fields /\ c.fields[k] = Garbage
      BY <2>2
    <2>4. Garbage = o.fields[k]
      BY <1>1, <1>5, <2>2, <2>3 DEF FieldsProven
    <2>5. [o.fields EXCEPT ![k] = Garbage] = o.fields
      BY <1>2, <2>4 DEF Restrict
    <2>6. QED
      BY <1>3, <2>1, <2>5
  <1>8. ASSUME NEW ids \in SUBSET o.reliance, c = [o EXCEPT !.reliance = ids]
        PROVE  c = o
    <2>1. c = AsClaim(o.claim_id, o.subject_id, o.issuer_id, o.category, o.schema_id, o.from,
                      o.until, o.body_root, o.reliance_root, o.fields, ids, o.issuer_signature)
      BY <1>1, <1>8, ReplaceReliance DEF ClaimShaped
    <2>2. c.reliance = ids /\ c.reliance_root = o.reliance_root
      BY <2>1 DEF AsClaim
    <2>3. QED
      BY <1>1, <1>5, <2>1, <2>2 DEF ClaimShaped
  <1>9. ASSUME NEW ids \in SUBSET o.reliance,
               c = [o EXCEPT !.reliance = ids, !.reliance_root = ids]
        PROVE  c = o
    <2>1. c = AsClaim(o.claim_id, o.subject_id, o.issuer_id, o.category, o.schema_id, o.from,
                      o.until, o.body_root, ids, o.fields, ids, o.issuer_signature)
      <3>1. PICK e : e = [o EXCEPT !.reliance = ids] /\ c = [e EXCEPT !.reliance_root = ids]
        BY <1>9, ReplaceTwo
      <3>2. e = AsClaim(o.claim_id, o.subject_id, o.issuer_id, o.category, o.schema_id, o.from,
                        o.until, o.body_root, o.reliance_root, o.fields, ids,
                        o.issuer_signature)
        BY <1>1, <3>1, ReplaceReliance DEF ClaimShaped
      <3>3. QED
        BY <3>1, <3>2 DEF AsClaim
    <2>2. c.reliance_root = ids /\ c.issuer_signature = o.issuer_signature
      BY <2>1 DEF AsClaim
    <2>3. ids = o.reliance_root
      BY <1>1, <1>5, <2>2 DEF ClaimSigning
    <2>4. QED
      BY <1>1, <2>1, <2>3 DEF ClaimShaped
  <1>10. ASSUME c = [o EXCEPT !.until = OpenEnd] PROVE c = o
    <2>1. c = AsClaim(o.claim_id, o.subject_id, o.issuer_id, o.category, o.schema_id, o.from,
                      OpenEnd, o.body_root, o.reliance_root, o.fields, o.reliance,
                      o.issuer_signature)
      BY <1>1, <1>10, ReplaceUntil DEF ClaimShaped
    <2>2. c.until = OpenEnd /\ c.issuer_signature = o.issuer_signature
      BY <2>1 DEF AsClaim
    <2>3. OpenEnd = o.until
      BY <1>1, <1>5, <2>2 DEF ClaimSigning
    <2>4. QED
      BY <1>1, <2>1, <2>3 DEF ClaimShaped
  <1>11. ASSUME c = [o EXCEPT !.subject_id = Elsewhere] PROVE c = o
    <2>1. c = AsClaim(o.claim_id, Elsewhere, o.issuer_id, o.category, o.schema_id, o.from,
                      o.until, o.body_root, o.reliance_root, o.fields, o.reliance,
                      o.issuer_signature)
      BY <1>1, <1>11, ReplaceSubject DEF ClaimShaped
    <2>2. c.subject_id = Elsewhere /\ c.issuer_signature = o.issuer_signature
      BY <2>1 DEF AsClaim
    <2>3. Elsewhere = o.subject_id
      BY <1>1, <1>5, <2>2 DEF ClaimSigning
    <2>4. QED
      BY <1>1, <2>1, <2>3 DEF ClaimShaped
  <1>12. QED
    BY <1>4, <1>6, <1>7, <1>8, <1>9, <1>10, <1>11 DEF AlteredClaim

-------------------------------------------------------------------------------
(* The presentation on its way. *)

BuiltByWallet ==
    \E n \in Nonce, s \in Selections : built = BuildPresentation(Subject, Audience, n, 0, Ttl, s)

Delivered == p = built \/ p \in Altered(built)

(* What the wallet built, field by field. *)
LEMMA BuiltForm ==
  ASSUME BuiltByWallet
  PROVE  \E n \in Nonce, s \in Selections :
             built = AsPres(Subject, Subject, Audience, n, 0, Ttl, s,
                            [by |-> Subject, over |-> PresSigning(built)])
  <1>1. PICK n \in Nonce, s \in Selections : built = BuildPresentation(Subject, Audience, n, 0, Ttl, s)
    BY DEF BuiltByWallet
  <1>2. QED
    BY <1>1, BuiltSigned

SignedBySubject(q) ==
    /\ q.subject_key = q.subject_id
    /\ q.subject_signature = [by |-> q.subject_key, over |-> PresSigning(q)]

(* Of an altered presentation only a claim may still be another one, if the   *)
(* subject's signature holds.                                                *)
LEMMA AlteredSigned ==
  ASSUME BuiltByWallet, NEW q \in Altered(built), SignedBySubject(q)
  PROVE  \/ q = built
         \/ \E i \in DOMAIN built.claims : \E c \in AlteredClaim(built.claims[i]) :
               q = [built EXCEPT !.claims[i] = c]
  <1>1. PICK n \in Nonce, s \in Selections :
            built = AsPres(Subject, Subject, Audience, n, 0, Ttl, s,
                           [by |-> Subject, over |-> PresSigning(built)])
    BY BuiltForm
  <1> DEFINE ids == [i \in DOMAIN s |-> s[i].claim_id]
             content == <<Subject, Audience, n, 0, Ttl, ids>>
             sig == [by |-> Subject, over |-> content]
  <1>2. PresSigning(built) = content
    BY <1>1 DEF PresSigning, AsPres
  <1>3. built = AsPres(Subject, Subject, Audience, n, 0, Ttl, s, sig) /\ built.claims = s
    BY <1>1, <1>2 DEF AsPres
  <1>4. s \in Seq(Range(s)) /\ Ttl \in Nat
    BY VerdictAssumption
  <1>5. ASSUME q.subject_signature = sig PROVE PresSigning(q) = content
    BY <1>5 DEF SignedBySubject
  <1> HIDE DEF sig
  <1>6. ASSUME q = [built EXCEPT !.audience = Elsewhere] PROVE q = built
    <2>1. q = AsPres(Subject, Subject, Elsewhere, n, 0, Ttl, s, sig)
      BY <1>3, <1>6 DEF AsPres
    <2>2. q.subject_signature = sig /\ q.audience = Elsewhere
      BY <2>1 DEF AsPres
    <2>3. Elsewhere = Audience
      BY <1>5, <2>2 DEF PresSigning
    <2>4. QED
      BY <1>3, <2>1, <2>3
  <1>7. q # [built EXCEPT !.expires_at = @ + 1]
    <2> SUFFICES ASSUME q = [built EXCEPT !.expires_at = @ + 1] PROVE FALSE
      OBVIOUS
    <2>1. q.subject_signature = sig /\ q.expires_at = Ttl + 1
      BY <1>3 DEF AsPres
    <2>2. Ttl + 1 = Ttl
      BY <1>5, <2>1 DEF PresSigning
    <2>3. QED
      BY <1>4, <2>2
  <1>8. ASSUME q = [built EXCEPT !.subject_id = Elsewhere] PROVE q = built
    <2>1. q = AsPres(Elsewhere, Subject, Audience, n, 0, Ttl, s, sig)
      BY <1>3, <1>8 DEF AsPres
    <2>2. q.subject_id = Elsewhere /\ q.subject_key = Subject
      BY <2>1 DEF AsPres
    <2>3. QED
      BY <1>3, <2>1, <2>2 DEF SignedBySubject
  <1>9. ASSUME q = [built EXCEPT !.claims = SubSeq(@, 2, Len(@))] PROVE q = built
    <2> DEFINE rest == SubSeq(s, 2, Len(s))
               rest_ids == [i \in DOMAIN rest |-> rest[i].claim_id]
    <2>1. q = AsPres(Subject, Subject, Audience, n, 0, Ttl, rest, sig)
      BY <1>3, <1>9 DEF AsPres
    <2>2. q.subject_signature = sig /\ q.claims = rest
      BY <2>1 DEF AsPres
    <2>3. rest_ids = ids
      BY <1>5, <2>2 DEF PresSigning
    <2>4. DOMAIN rest = DOMAIN s
      BY <2>3
    <2>5. Len(s) = 0
      BY <1>4, <2>4
    <2>6. rest = s
      BY <1>4, <2>5
    <2>7. QED
      BY <1>3, <2>1, <2>6
  <1>10. ASSUME NEW m \in Nonce, q = [built EXCEPT !.nonce = m] PROVE q = built
    <2>1. q = AsPres(Subject, Subject, Audience, m, 0, Ttl, s, sig)
      BY <1>3, <1>10 DEF AsPres
    <2>2. q.subject_signature = sig /\ q.nonce = m
      BY <2>1 DEF AsPres
    <2>3. m = n
      BY <1>5, <2>2 DEF PresSigning
    <2>4. QED
      BY <1>3, <2>1, <2>3
  <1>11. ASSUME q \in UNION {{[built EXCEPT !.claims[i] = c] : c \in AlteredClaim(built.claims[i])} :
                               i \in DOMAIN built.claims}
         PROVE  \E i \in DOMAIN built.claims : \E c \in AlteredClaim(built.claims[i]) :
                    q = [built EXCEPT !.claims[i] = c]
    BY <1>11, Zenon
  <1>12. \/ q = [built EXCEPT !.audience = Elsewhere]
         \/ q = [built EXCEPT !.expires_at = @ + 1]
         \/ q = [built EXCEPT !.subject_id = Elsewhere]
         \/ q = [built EXCEPT !.claims = SubSeq(@, 2, Len(@))]
         \/ \E m \in Nonce : q = [built EXCEPT !.nonce = m]
         \/ q \in UNION {{[built EXCEPT !.claims[i] = c] : c \in AlteredClaim(built.claims[i])} :
                           i \in DOMAIN built.claims}
    BY Zenon DEF Altered
  <1>13. QED
    BY <1>6, <1>7, <1>8, <1>9, <1>10, <1>11, <1>12

(* Every claim as it was built, but for fields left out. *)
Narrower(q) ==
    \E shown : /\ q = [built EXCEPT !.claims = shown]
                /\ DOMAIN shown = DOMAIN built.claims
                /\ (shown = <<>> <=> built.claims = <<>>)
                /\ \A i \in DOMAIN shown : Narrowed(shown[i], built.claims[i])

LEMMA NarrowedSelf == ASSUME NEW o, Signed(o) PROVE Narrowed(o, o)
  <1>1. o.fields = Restrict(o.fields, DOMAIN o.fields)
    BY DEF Signed, Restrict
  <1>2. [o EXCEPT !.fields = o.fields] = o
    BY ReplaceFields DEF Signed, ClaimShaped
  <1>3. QED
    BY <1>1, <1>2 DEF Narrowed

(* The parts of a narrowed claim. *)
LEMMA NarrowedParts ==
  ASSUME NEW o, ClaimShaped(o), NEW c, Narrowed(c, o)
  PROVE  /\ c.claim_id = o.claim_id /\ c.subject_id = o.subject_id
         /\ c.issuer_id = o.issuer_id /\ c.category = o.category
         /\ c.schema_id = o.schema_id /\ c.from = o.from /\ c.until = o.until
         /\ c.body_root = o.body_root /\ c.reliance_root = o.reliance_root
         /\ c.reliance = o.reliance /\ c.issuer_signature = o.issuer_signature
         /\ DOMAIN c.fields \subseteq DOMAIN o.fields
         /\ \A k \in DOMAIN c.fields : c.fields[k] = o.fields[k]
  <1>1. PICK keys \in SUBSET DOMAIN o.fields : c = [o EXCEPT !.fields = Restrict(o.fields, keys)]
    BY DEF Narrowed
  <1> DEFINE shown == Restrict(o.fields, keys)
  <1>2. /\ DOMAIN shown = keys
        /\ \A k \in keys : shown[k] = o.fields[k]
    BY DEF Restrict
  <1> HIDE DEF shown
  <1>3. c = [o EXCEPT !.fields = shown]
    BY <1>1 DEF shown
  <1>4. c = AsClaim(o.claim_id, o.subject_id, o.issuer_id, o.category, o.schema_id, o.from,
                    o.until, o.body_root, o.reliance_root, shown, o.reliance,
                    o.issuer_signature)
    BY <1>3, ReplaceFields DEF ClaimShaped
  <1>5. /\ c.claim_id = o.claim_id /\ c.subject_id = o.subject_id
        /\ c.issuer_id = o.issuer_id /\ c.category = o.category
        /\ c.schema_id = o.schema_id /\ c.from = o.from /\ c.until = o.until
        /\ c.body_root = o.body_root /\ c.reliance_root = o.reliance_root
        /\ c.reliance = o.reliance /\ c.issuer_signature = o.issuer_signature
        /\ c.fields = shown
    BY <1>4 DEF AsClaim
  <1>6. QED
    BY <1>2, <1>5

(* Leaving fields out changes no check of the claim and settles no predicate. *)
LEMMA NarrowedFailures ==
  ASSUME NEW o, Signed(o), NEW c, Narrowed(c, o), NEW presenter, NEW t, NEW a
  PROVE  /\ ClaimFailures(c, presenter, t, a) = ClaimFailures(o, presenter, t, a)
         /\ \A req : Settles(req, c) => Settles(req, o)
  <1>1. ClaimShaped(o) /\ Authentic(o)
    BY DEF Signed
  <1>2. /\ c.claim_id = o.claim_id /\ c.subject_id = o.subject_id
        /\ c.issuer_id = o.issuer_id /\ c.category = o.category
        /\ c.schema_id = o.schema_id /\ c.from = o.from /\ c.until = o.until
        /\ c.body_root = o.body_root /\ c.reliance_root = o.reliance_root
        /\ c.reliance = o.reliance /\ c.issuer_signature = o.issuer_signature
        /\ DOMAIN c.fields \subseteq DOMAIN o.fields
        /\ \A k \in DOMAIN c.fields : c.fields[k] = o.fields[k]
    BY <1>1, NarrowedParts
  <1>3. ClaimSigning(c) = ClaimSigning(o)
    BY <1>2 DEF ClaimSigning
  <1>4. FieldsProven(c)
    BY <1>1, <1>2 DEF Authentic, FieldsProven
  <1>5. Authentic(c)
    BY <1>1, <1>2, <1>3, <1>4 DEF Authentic, RelianceProven
  <1>6. TrustFailures(c, t, a) = TrustFailures(o, t, a)
    BY <1>2 DEF TrustFailures, OwnFailures, WithinValidity, AccreditedOk, Relies
  <1>7. ClaimFailures(c, presenter, t, a) = ClaimFailures(o, presenter, t, a)
    BY <1>1, <1>2, <1>5, <1>6 DEF ClaimFailures
  <1>8. ASSUME NEW req, Settles(req, c) PROVE Settles(req, o)
    BY <1>2, <1>8 DEF Settles
  <1>9. QED
    BY <1>7, <1>8

(* A report that fails in nothing hard is about a presentation of the        *)
(* subject with authentic claims.                                            *)
LEMMA NoHardFailure ==
  ASSUME NEW q, NEW t, NEW a, NEW b, NEW rs,
         FailedChecks(q, Audience, t, a, b, rs) \subseteq {Soft}
  PROVE  /\ SignedBySubject(q)
         /\ BindingFailures(q, Audience, t, b) = {}
         /\ PredicateFailures(q, t, a, rs) = {}
         /\ \A i \in DOMAIN q.claims :
               /\ ClaimFailures(q.claims[i], q.subject_id, t, a) \subseteq {Soft}
               /\ Authentic(q.claims[i]) /\ q.claims[i].subject_id = q.subject_id
  <1>1. BindingFailures(q, Audience, t, b) = {}
    BY BindingIsHard DEF FailedChecks
  <1>2. SignedBySubject(q)
    BY <1>1 DEF BindingFailures, EnvelopeFailures, FailsUnless, SignedBySubject
  <1>3. PredicateFailures(q, t, a, rs) = {}
    BY DEF FailedChecks, PredicateFailures, FailsUnless, Soft, RELIANCE_RESOLVABLE_CHECK
  <1>4. ASSUME NEW i \in DOMAIN q.claims
        PROVE  /\ ClaimFailures(q.claims[i], q.subject_id, t, a) \subseteq {Soft}
               /\ Authentic(q.claims[i]) /\ q.claims[i].subject_id = q.subject_id
    <2>1. q.claims[i] \in Range(q.claims)
      BY DEF Range
    <2>2. ClaimFailures(q.claims[i], q.subject_id, t, a) \subseteq {Soft}
      BY <2>1 DEF FailedChecks
    <2>3. Authentic(q.claims[i]) /\ q.claims[i].subject_id = q.subject_id
      BY <2>2 DEF ClaimFailures, FailsUnless, Soft, RELIANCE_RESOLVABLE_CHECK
    <2>4. QED
      BY <2>2, <2>3
  <1>5. QED
    BY <1>1, <1>2, <1>3, <1>4

(* Whatever arrives without a hard failure is what was built, but for fields *)
(* left out.                                                                 *)
LEMMA AcceptableIsNarrower ==
  ASSUME BuiltByWallet, NEW q, q = built \/ q \in Altered(built),
         SignedBySubject(q), \A i \in DOMAIN q.claims : Authentic(q.claims[i])
  PROVE  Narrower(q)
  <1>1. PICK n \in Nonce, s \in Selections :
            built = AsPres(Subject, Subject, Audience, n, 0, Ttl, s,
                           [by |-> Subject, over |-> PresSigning(built)])
    BY BuiltForm
  <1>2. built.claims = s /\ s \in Seq(Range(s))
    BY <1>1, VerdictAssumption DEF AsPres
  <1>3. \A i \in DOMAIN built.claims : Signed(built.claims[i]) /\ Narrowed(built.claims[i], built.claims[i])
    <2> SUFFICES ASSUME NEW i \in DOMAIN s PROVE Signed(s[i]) /\ Narrowed(s[i], s[i])
      BY <1>2
    <2>1. s[i] \in Range(s)
      BY DEF Range
    <2>2. Signed(s[i])
      BY <2>1, IssuedIsSigned
    <2>3. QED
      BY <2>2, NarrowedSelf
  <1>4. CASE q = built
    <2>1. built = [built EXCEPT !.claims = built.claims]
      BY <1>1 DEF AsPres
    <2>2. QED
      BY <1>3, <1>4, <2>1 DEF Narrower
  <1>5. ASSUME NEW i \in DOMAIN built.claims, NEW c \in AlteredClaim(built.claims[i]),
               q = [built EXCEPT !.claims[i] = c]
        PROVE  Narrower(q)
    <2> DEFINE shown == [built.claims EXCEPT ![i] = c]
    <2>1. q = [built EXCEPT !.claims = shown] /\ q.claims = shown
      BY <1>1, <1>5 DEF AsPres
    <2>2. DOMAIN shown = DOMAIN built.claims /\ shown[i] = c /\ i \in DOMAIN shown
      OBVIOUS
    <2>3. Authentic(c)
      BY <2>1, <2>2
    <2>4. Narrowed(c, built.claims[i])
      BY <1>3, <2>3, AlteredAuthentic
    <2>5. \A j \in DOMAIN shown : Narrowed(shown[j], built.claims[j])
      BY <1>3, <2>4
    <2>6. shown # <<>> /\ built.claims # <<>>
      BY <2>2
    <2>7. QED
      BY <2>1, <2>2, <2>5, <2>6 DEF Narrower
  <1>6. QED
    BY <1>4, <1>5, AlteredSigned

-------------------------------------------------------------------------------
(* The world keeps the presentation as the wallet built it. *)

VInv == VdTypeOK /\ BuiltByWallet /\ Delivered

LEMMA VInvInit == VdInit => VInv
  <1> SUFFICES ASSUME VdInit PROVE VInv
    OBVIOUS
  <1>1. \E n \in Nonce, s \in Selections : built = BuildPresentation(Subject, Audience, n, 0, Ttl, s)
    BY DEF VdInit
  <1>2. p = built
    BY Zenon DEF VdInit
  <1>3. QED
    BY <1>1, <1>2, VdTypeInit DEF VInv, BuiltByWallet, Delivered

(* What a step does to the presentation. *)
LEMMA PresentationStep ==
  ASSUME [VdNext]_vdVars
  PROVE  /\ built' = built
         /\ \/ p' = p
            \/ p = built /\ p' \in Altered(built) /\ UNCHANGED world
  BY DEF VdNext, Move, Alter, Tick, Consume, Ask, Revoke, LoseTrack, Resolve, Forget, Require,
         Accredit, Learn, vdVars, world

LEMMA VInvNext == VInv /\ [VdNext]_vdVars => VInv'
  <1> SUFFICES ASSUME VInv, [VdNext]_vdVars PROVE VInv'
    OBVIOUS
  <1>1. VdTypeOK'
    BY VdTypeNext DEF VInv
  <1>2. BuiltByWallet'
    BY PresentationStep DEF VInv, BuiltByWallet
  <1>3. Delivered'
    <2>1. built' = built
      BY PresentationStep
    <2>2. Altered(built)' = Altered(built')
      BY DEF Altered, AlteredClaim
    <2>3. QED
      BY <2>1, <2>2, PresentationStep DEF VInv, Delivered
  <1>4. QED
    BY <1>1, <1>2, <1>3 DEF VInv

LEMMA VInvariance == VdSpec => []VInv
  BY VInvInit, VInvNext, PTL DEF VdSpec

(* A claim that only leaves fields out is a disclosure of the built one. *)
LEMMA NarrowedIsDisclosed ==
  ASSUME NEW o, Signed(o), NEW c, Narrowed(c, o)
  PROVE  /\ DOMAIN c.fields \subseteq DOMAIN o.fields
         /\ c = Disclose(o, DOMAIN c.fields)
  <1>1. PICK keys \in SUBSET DOMAIN o.fields : c = [o EXCEPT !.fields = Restrict(o.fields, keys)]
    BY DEF Narrowed
  <1>2. /\ ClaimShaped(o) /\ o.fields = Restrict(o.body_root, DOMAIN o.fields)
        /\ o.reliance = o.reliance_root
    BY DEF Signed, Authentic, RelianceProven
  <1> DEFINE shown == Restrict(o.body_root, keys)
             relied == o.reliance_root
  <1>3. Restrict(o.fields, keys) = shown /\ DOMAIN shown = keys
    BY <1>2 DEF Restrict
  <1> HIDE DEF shown, relied
  <1>4. c = [o EXCEPT !.fields = shown]
    BY <1>1, <1>3
  <1>5. c = AsClaim(o.claim_id, o.subject_id, o.issuer_id, o.category, o.schema_id, o.from,
                    o.until, o.body_root, o.reliance_root, shown, relied, o.issuer_signature)
    BY <1>2, <1>4, ReplaceFields DEF ClaimShaped, relied
  <1>6. [c EXCEPT !.reliance = relied] = c
    BY <1>5, ReplaceReliance
  <1>7. DOMAIN c.fields = keys
    BY <1>3, <1>5 DEF AsClaim
  <1>8. Disclose(o, keys) = [o EXCEPT !.fields = shown, !.reliance = relied]
    BY DEF Disclose, shown, relied
  <1>9. PICK e : /\ e = [o EXCEPT !.fields = shown]
                 /\ [o EXCEPT !.fields = shown, !.reliance = relied]
                      = [e EXCEPT !.reliance = relied]
    BY ReplaceTwo
  <1>10. QED
    BY <1>4, <1>6, <1>7, <1>8, <1>9

(* An accepted presentation fails in nothing, so it is what was built. *)
LEMMA AcceptedIsNarrower ==
  ASSUME VInv, Accepts(Failed)
  PROVE  /\ Narrower(p) /\ SignedBySubject(p)
         /\ PredicateFailures(p, now, anchor, reqs) = {}
         /\ \A i \in DOMAIN p.claims :
               Authentic(p.claims[i]) /\ p.claims[i].subject_id = p.subject_id
  <1>1. FailedChecks(p, Audience, now, anchor, seen, reqs) \subseteq {Soft}
    BY DEF Accepts, Failed
  <1>2. /\ SignedBySubject(p) /\ PredicateFailures(p, now, anchor, reqs) = {}
        /\ \A i \in DOMAIN p.claims :
              Authentic(p.claims[i]) /\ p.claims[i].subject_id = p.subject_id
    BY <1>1, NoHardFailure
  <1>3. BuiltByWallet /\ (p = built \/ p \in Altered(built))
    BY DEF VInv, Delivered
  <1>4. Narrower(p)
    BY <1>2, <1>3, AcceptableIsNarrower
  <1>5. QED
    BY <1>2, <1>4

(* The claims the wallet built are signed. *)
LEMMA BuiltIsSigned ==
  ASSUME BuiltByWallet, NEW i \in DOMAIN built.claims
  PROVE  \E s \in Selections : built.claims[i] \in Range(s) /\ Signed(built.claims[i])
  <1>1. PICK n \in Nonce, s \in Selections :
            built = AsPres(Subject, Subject, Audience, n, 0, Ttl, s,
                           [by |-> Subject, over |-> PresSigning(built)])
    BY BuiltForm
  <1>2. built.claims = s
    BY <1>1 DEF AsPres
  <1>3. built.claims[i] \in Range(s)
    BY <1>2 DEF Range
  <1>4. QED
    BY <1>3, IssuedIsSigned

(* The verifier accepts only what the wallet signed and the issuers attested, *)
(* to every revealed value and relied-on claim, with no field added          *)
(* (presentation.rs:156-280, disclosure.rs:120-163).                         *)
THEOREM AcceptedAsSignedHolds == VdSpec => []AcceptedAsSigned
  <1>1. VInv => AcceptedAsSigned
    <2> SUFFICES ASSUME VInv, Accepts(Failed)
                 PROVE  /\ [p EXCEPT !.claims = built.claims] = built
                        /\ DOMAIN p.claims = DOMAIN built.claims
                        /\ \A i \in DOMAIN p.claims :
                              /\ DOMAIN p.claims[i].fields \subseteq DOMAIN built.claims[i].fields
                              /\ p.claims[i] = Disclose(built.claims[i], DOMAIN p.claims[i].fields)
      BY DEF AcceptedAsSigned
    <2>1. PICK shown : /\ p = [built EXCEPT !.claims = shown]
                        /\ DOMAIN shown = DOMAIN built.claims
                        /\ \A i \in DOMAIN shown : Narrowed(shown[i], built.claims[i])
      BY AcceptedIsNarrower DEF Narrower
    <2>2. BuiltByWallet
      BY DEF VInv
    <2>3. p.claims = shown /\ [p EXCEPT !.claims = built.claims] = built
      BY <2>1, <2>2, BuiltForm DEF AsPres
    <2>4. ASSUME NEW i \in DOMAIN p.claims
          PROVE  /\ DOMAIN p.claims[i].fields \subseteq DOMAIN built.claims[i].fields
                 /\ p.claims[i] = Disclose(built.claims[i], DOMAIN p.claims[i].fields)
      <3>1. Narrowed(p.claims[i], built.claims[i])
        BY <2>1, <2>3
      <3>2. Signed(built.claims[i])
        BY <2>1, <2>2, <2>3, BuiltIsSigned
      <3>3. QED
        BY <3>1, <3>2, NarrowedIsDisclosed
    <2>5. QED
      BY <2>1, <2>3, <2>4
  <1>2. QED
    BY <1>1, VInvariance, PTL

(* Every predicate of an accepted presentation is settled by a claim the      *)
(* wallet holds that stands on its own, relied-on claims included            *)
(* (presentation.rs:224-251, claim.rs:97-140).                               *)
THEOREM NoLaunderingHolds == VdSpec => []NoLaundering
  <1>1. VInv => NoLaundering
    <2> SUFFICES ASSUME VInv, Accepts(Failed), NEW req \in reqs
                 PROVE  \E c \in Held :
                          /\ c.claim_id \in {d.claim_id : d \in Range(p.claims)}
                          /\ c.category = req.category /\ c.subject_id = Subject
                          /\ req.scale_version \in {AnyScale, c.schema_id}
                          /\ Holds(req.op, c.body_root[req.field], req.bound)
                          /\ WithinValidity(c, now) /\ AccreditedOk(c, anchor)
                          /\ \A id \in {c.claim_id} \cup c.reliance_root : id \notin anchor.revoked
                          /\ c.reliance_root \cap anchor.unresolvable = {}
      BY DEF NoLaundering
    <2>1. PICK shown : /\ p = [built EXCEPT !.claims = shown]
                        /\ DOMAIN shown = DOMAIN built.claims
                        /\ \A i \in DOMAIN shown : Narrowed(shown[i], built.claims[i])
      BY AcceptedIsNarrower DEF Narrower
    <2>2. BuiltByWallet
      BY DEF VInv
    <2>3. p.claims = shown /\ p.subject_id = Subject
      BY <2>1, <2>2, BuiltForm DEF AsPres
    <2>4. PICK c \in Range(p.claims) : PredicateHolds(req, c, p.subject_id, now, anchor)
      BY AcceptedIsNarrower DEF PredicateFailures, FailsUnless
    <2>5. PICK i \in DOMAIN p.claims : c = p.claims[i]
      BY <2>4 DEF Range
    <2> DEFINE o == built.claims[i]
    <2>6. PICK s \in Selections : o \in Range(s) /\ Signed(o)
      BY <2>1, <2>2, <2>3, BuiltIsSigned
    <2>7. PICK d \in Held :
            /\ o.claim_id = d.claim_id /\ o.subject_id = d.subject_id
            /\ o.issuer_id = d.issuer_id /\ o.category = d.category
            /\ o.schema_id = d.schema_id /\ o.from = d.from /\ o.until = d.until
            /\ o.body_root = d.body_root /\ o.reliance_root = d.reliance_root
      BY ZenonT(60), <2>6, IssuedIsSigned
    <2>8. Narrowed(c, o)
      BY <2>1, <2>3, <2>5
    <2>9. /\ c.claim_id = d.claim_id /\ c.subject_id = d.subject_id
          /\ c.issuer_id = d.issuer_id /\ c.category = d.category
          /\ c.schema_id = d.schema_id /\ c.from = d.from /\ c.until = d.until
          /\ c.body_root = d.body_root /\ c.reliance_root = d.reliance_root
      BY <2>6, <2>7, <2>8, NarrowedParts DEF Signed
    <2>10. Authentic(c) /\ c.subject_id = Subject
      BY <2>3, <2>5, AcceptedIsNarrower
    <2>11. c.issuer_id \in anchor.issuers /\ TrustFailures(c, now, anchor) = {}
      BY <2>4, <2>10 DEF PredicateHolds, FullyValid, ClaimFailures, FailsUnless
    <2>12. /\ WithinValidity(c, now) /\ AccreditedOk(c, anchor)
           /\ c.claim_id \notin anchor.revoked
           /\ ~Relies(c, anchor, "Revoked") /\ ~Relies(c, anchor, "Unresolvable")
      BY <2>11 DEF TrustFailures, OwnFailures, FailsUnless
    <2>13. \A id \in c.reliance_root : id \notin anchor.revoked /\ id \notin anchor.unresolvable
      BY <2>10, <2>12 DEF Authentic, RelianceProven, Relies, Status
    <2>14. Settles(req, c)
      BY <2>4 DEF PredicateHolds
    <2>15. Holds(req.op, c.body_root[req.field], req.bound)
      BY <2>10, <2>14 DEF Settles, Authentic, FieldsProven
    <2>16. WithinValidity(d, now) /\ AccreditedOk(d, anchor)
      BY <2>9, <2>12 DEF WithinValidity, AccreditedOk
    <2>17. QED
      BY <2>4, <2>9, <2>10, <2>12, <2>13, <2>14, <2>15, <2>16 DEF Settles
  <1>2. QED
    BY <1>1, VInvariance, PTL

-------------------------------------------------------------------------------
(* Narrowing. *)

(* b trusts no one a does not, and knows no less of what fails. *)
TrustsLess(b, a) ==
    /\ b.issuers \subseteq a.issuers
    /\ a.required \subseteq b.required
    /\ b.accredited \subseteq a.accredited
    /\ a.revoked \subseteq b.revoked
    /\ a.unresolvable \subseteq b.unresolvable

(* A claim that passes, or fails softly, does no worse with an anchor that    *)
(* trusts more.                                                              *)
LEMMA TrustingClaim ==
  ASSUME NEW a, NEW b, TrustsLess(b, a), NEW c, NEW presenter, NEW t,
         ClaimFailures(c, presenter, t, b) \subseteq {Soft}
  PROVE  /\ ClaimFailures(c, presenter, t, a) \subseteq {Soft}
         /\ ClaimFailures(c, presenter, t, b) = {} => ClaimFailures(c, presenter, t, a) = {}
  <1>1. c.subject_id = presenter /\ c.issuer_id \in b.issuers /\ Authentic(c)
    BY DEF ClaimFailures, FailsUnless, Soft, RELIANCE_RESOLVABLE_CHECK
  <1>2. ClaimFailures(c, presenter, t, b) = TrustFailures(c, t, b)
    BY <1>1 DEF ClaimFailures, FailsUnless
  <1>3. ClaimFailures(c, presenter, t, a) = TrustFailures(c, t, a)
    BY <1>1 DEF ClaimFailures, FailsUnless, TrustsLess
  <1>4. /\ WithinValidity(c, t) /\ AccreditedOk(c, b) /\ c.claim_id \notin b.revoked
        /\ ~Relies(c, b, "Revoked")
    <2>1. /\ OwnFailures(c, t, b) \subseteq {Soft}
          /\ FailsUnless(~Relies(c, b, "Revoked"), "reliance intact") \subseteq {Soft}
      BY <1>2 DEF TrustFailures
    <2>2. ~Relies(c, b, "Revoked")
      BY <2>1 DEF FailsUnless, Soft, RELIANCE_RESOLVABLE_CHECK
    <2>3. /\ FailsUnless(WithinValidity(c, t), "claim within validity") \subseteq {Soft}
          /\ FailsUnless(AccreditedOk(c, b), "issuer accredited") \subseteq {Soft}
          /\ FailsUnless(c.claim_id \notin b.revoked, "claim not revoked") \subseteq {Soft}
      BY <2>1 DEF OwnFailures
    <2>4. WithinValidity(c, t)
      BY <2>3 DEF FailsUnless, Soft, RELIANCE_RESOLVABLE_CHECK
    <2>5. AccreditedOk(c, b)
      BY <2>3 DEF FailsUnless, Soft, RELIANCE_RESOLVABLE_CHECK
    <2>6. c.claim_id \notin b.revoked
      BY <2>3 DEF FailsUnless, Soft, RELIANCE_RESOLVABLE_CHECK
    <2>7. QED
      BY <2>2, <2>4, <2>5, <2>6
  <1>5. OwnFailures(c, t, a) = {}
    BY <1>4 DEF OwnFailures, FailsUnless, AccreditedOk, TrustsLess
  <1>6. ~Relies(c, a, "Revoked")
    BY <1>4 DEF Relies, Status, TrustsLess
  <1>7. TrustFailures(c, t, a) \subseteq {Soft}
    BY <1>5, <1>6 DEF TrustFailures, FailsUnless, Soft
  <1>8. ASSUME TrustFailures(c, t, b) = {} PROVE TrustFailures(c, t, a) = {}
    <2>1. ~Relies(c, b, "Unresolvable")
      BY <1>8 DEF TrustFailures, FailsUnless
    <2>2. ~Relies(c, a, "Unresolvable")
      BY <1>4, <2>1 DEF Relies, Status, TrustsLess
    <2>3. QED
      BY <1>5, <1>6, <2>2 DEF TrustFailures, FailsUnless
  <1>9. QED
    BY <1>2, <1>3, <1>7, <1>8

(* So does the report on the same presentation, also when less was asked and  *)
(* the nonce was not known to be used.                                       *)
LEMMA TrustingReport ==
  ASSUME NEW a, NEW b, TrustsLess(b, a), NEW q, NEW t,
         NEW known \in BOOLEAN, NEW later \in BOOLEAN, known => later,
         NEW rs, NEW more, rs \subseteq more,
         FailedChecks(q, Audience, t, b, later, more) \subseteq {Soft}
  PROVE  /\ FailedChecks(q, Audience, t, a, known, rs) \subseteq {Soft}
         /\ FailedChecks(q, Audience, t, b, later, more) = {}
              => FailedChecks(q, Audience, t, a, known, rs) = {}
  <1>1. BindingFailures(q, Audience, t, later) = {} /\ PredicateFailures(q, t, b, more) = {}
    BY NoHardFailure
  <1>2. BindingFailures(q, Audience, t, known) = {}
    <2>1. later = FALSE
      BY <1>1 DEF BindingFailures, EnvelopeFailures, FailsUnless
    <2>2. known = later
      BY <2>1
    <2>3. QED
      BY <1>1, <2>2
  <1>3. PredicateFailures(q, t, a, rs) = {}
    <2>1. ASSUME NEW req \in rs
          PROVE  \E c \in Range(q.claims) : PredicateHolds(req, c, q.subject_id, t, a)
      <3>1. PICK c \in Range(q.claims) : PredicateHolds(req, c, q.subject_id, t, b)
        BY <1>1 DEF PredicateFailures, FailsUnless
      <3>2. PredicateHolds(req, c, q.subject_id, t, a)
        BY <3>1, TrustingClaim DEF PredicateHolds, FullyValid
      <3>3. QED
        BY <3>2
    <2>2. QED
      BY <2>1 DEF PredicateFailures, FailsUnless
  <1>4. ASSUME NEW c \in Range(q.claims)
        PROVE  /\ ClaimFailures(c, q.subject_id, t, a) \subseteq {Soft}
               /\ FailedChecks(q, Audience, t, b, later, more) = {}
                    => ClaimFailures(c, q.subject_id, t, a) = {}
    <2>1. /\ ClaimFailures(c, q.subject_id, t, b) \subseteq {Soft}
          /\ FailedChecks(q, Audience, t, b, later, more) = {}
                => ClaimFailures(c, q.subject_id, t, b) = {}
      BY DEF FailedChecks
    <2>2. QED
      BY <2>1, TrustingClaim
  <1>5. QED
    BY <1>2, <1>3, <1>4 DEF FailedChecks

(* What is left of a presentation on its way fails at least where the one     *)
(* that was built does.                                                      *)
LEMMA NarrowerReport ==
  ASSUME BuiltByWallet, NEW q, q \in Altered(built), NEW t, NEW a, NEW b, NEW rs,
         FailedChecks(q, Audience, t, a, b, rs) \subseteq {Soft}
  PROVE  FailedChecks(built, Audience, t, a, b, rs) \subseteq FailedChecks(q, Audience, t, a, b, rs)
  <1>1. /\ SignedBySubject(q) /\ BindingFailures(q, Audience, t, b) = {}
        /\ PredicateFailures(q, t, a, rs) = {}
        /\ \A i \in DOMAIN q.claims : Authentic(q.claims[i])
    BY NoHardFailure
  <1>2. PICK shown : /\ q = [built EXCEPT !.claims = shown]
                      /\ DOMAIN shown = DOMAIN built.claims
                      /\ (shown = <<>> <=> built.claims = <<>>)
                      /\ \A i \in DOMAIN shown : Narrowed(shown[i], built.claims[i])
    BY <1>1, AcceptableIsNarrower DEF Narrower
  <1>3. PICK n \in Nonce, s \in Selections :
            built = AsPres(Subject, Subject, Audience, n, 0, Ttl, s,
                           [by |-> Subject, over |-> PresSigning(built)])
    BY BuiltForm
  <1>4. built.subject_signature = [by |-> built.subject_key, over |-> PresSigning(built)]
    BY <1>3 DEF AsPres
  <1>5. /\ q.subject_id = built.subject_id /\ q.subject_key = built.subject_key
        /\ q.audience = built.audience /\ q.nonce = built.nonce
        /\ q.issued_at = built.issued_at /\ q.expires_at = built.expires_at
        /\ q.claims = shown
    BY <1>2, <1>3 DEF AsPres
  <1>6. BindingFailures(built, Audience, t, b) = {}
    <2>1. EnvelopeFailures(built, Audience, t, b) = EnvelopeFailures(q, Audience, t, b)
      BY <1>2, <1>5 DEF EnvelopeFailures
    <2>2. QED
      BY <1>1, <1>4, <2>1 DEF BindingFailures, FailsUnless
  <1>7. ASSUME NEW i \in DOMAIN built.claims
        PROVE  /\ ClaimFailures(q.claims[i], built.subject_id, t, a)
                     = ClaimFailures(built.claims[i], built.subject_id, t, a)
               /\ \A req : Settles(req, q.claims[i]) => Settles(req, built.claims[i])
    <2>1. Signed(built.claims[i]) /\ Narrowed(q.claims[i], built.claims[i])
      BY <1>2, <1>5, BuiltIsSigned
    <2>2. QED
      BY <2>1, NarrowedFailures
  <1>8. PredicateFailures(built, t, a, rs) = {}
    <2>1. ASSUME NEW req \in rs
          PROVE  \E c \in Range(built.claims) : PredicateHolds(req, c, built.subject_id, t, a)
      <3>1. PICK c \in Range(q.claims) : PredicateHolds(req, c, q.subject_id, t, a)
        BY <1>1 DEF PredicateFailures, FailsUnless
      <3>2. PICK i \in DOMAIN built.claims : c = q.claims[i]
        BY <1>2, <1>5, <3>1 DEF Range
      <3>3. PredicateHolds(req, built.claims[i], built.subject_id, t, a)
        BY <1>5, <1>7, <3>1, <3>2 DEF PredicateHolds, FullyValid
      <3>4. QED
        BY <3>3 DEF Range
    <2>2. QED
      BY <2>1 DEF PredicateFailures, FailsUnless
  <1>9. ASSUME NEW c \in Range(built.claims)
        PROVE  ClaimFailures(c, built.subject_id, t, a)
                 \subseteq FailedChecks(q, Audience, t, a, b, rs)
    <2>1. PICK i \in DOMAIN built.claims : c = built.claims[i]
      BY <1>9 DEF Range
    <2>2. q.claims[i] \in Range(q.claims)
      BY <1>2, <1>5 DEF Range
    <2>3. ClaimFailures(c, built.subject_id, t, a) = ClaimFailures(q.claims[i], q.subject_id, t, a)
      BY <1>5, <1>7, <2>1
    <2>4. QED
      BY <2>2, <2>3 DEF FailedChecks
  <1>10. QED
    BY <1>6, <1>8, <1>9 DEF FailedChecks

(* No worse report, no lower grade. *)
LEMMA GradeOrder ==
  ASSUME NEW before, NEW after,
         after \subseteq {Soft} => before \subseteq {Soft},
         after = {} => before = {}
  PROVE  Grade(after) <= Grade(before)
  <1>1. Grade(after) \in 0..2 /\ Grade(before) \in 0..2
    BY DEF Grade
  <1>2. Grade(after) = 2 => Grade(before) = 2
    BY DEF Grade, Accepts
  <1>3. Grade(after) = 1 => Grade(before) >= 1
    BY DEF Grade, Accepts, IsAmber, Soft
  <1>4. QED
    BY <1>1, <1>2, <1>3

(* Asking for more, trusting less, knowing less and altering what was signed  *)
(* never improve a verdict (presentation.rs:144-146, 156-280).               *)
THEOREM NarrowingHolds == VdSpec => NarrowingNeverOpens
  <1>1. VInv /\ VInv' /\ [VdNext]_vdVars
          => [NothingGained => Grade(Failed)' <= Grade(Failed)]_vdVars
    <2> SUFFICES ASSUME VInv, VInv', [VdNext]_vdVars, NothingGained
                 PROVE  Grade(Failed') <= Grade(Failed)
      BY DEF Grade, Accepts, IsAmber
    <2>1. /\ TrustsLess(anchor', anchor) /\ now' = now /\ (seen => seen') /\ reqs \subseteq reqs'
      BY Zenon DEF NothingGained, TrustsLess
    <2>2. seen \in BOOLEAN /\ seen' \in BOOLEAN /\ BuiltByWallet
      BY DEF VInv, VdTypeOK
    <2>3. CASE p' = p
      <3>1. ASSUME Failed' \subseteq {Soft}
            PROVE  Failed \subseteq {Soft} /\ (Failed' = {} => Failed = {})
        <4>1. Failed' = FailedChecks(p, Audience, now, anchor', seen', reqs')
          BY <2>1, <2>3 DEF Failed
        <4>2. Failed = FailedChecks(p, Audience, now, anchor, seen, reqs)
          BY DEF Failed
        <4>3. QED
          BY <2>1, <2>2, <3>1, <4>1, <4>2, TrustingReport
      <3>2. QED
        BY <3>1, GradeOrder
    <2>4. CASE p = built /\ p' \in Altered(built) /\ UNCHANGED world
      <3>1. ASSUME Failed' \subseteq {Soft} PROVE Failed \subseteq Failed'
        <4>1. Failed' = FailedChecks(p', Audience, now, anchor, seen, reqs)
          BY <2>4 DEF Failed, world
        <4>2. Failed = FailedChecks(built, Audience, now, anchor, seen, reqs)
          BY <2>4 DEF Failed
        <4>3. QED
          BY <2>2, <2>4, <3>1, <4>1, <4>2, NarrowerReport
      <3>2. QED
        BY <3>1, GradeOrder
    <2>5. QED
      BY <2>3, <2>4, PresentationStep
  <1>2. QED
    BY <1>1, VInvariance, PTL DEF VdSpec, NarrowingNeverOpens

-------------------------------------------------------------------------------
(* What a wallet's answers are worth, for any claims, selections, requests,   *)
(* times, lifetimes and verifiers.                                            *)
(*                                                                            *)
(* The invariant says what a deed is: the outcome of its call on the claims   *)
(* held, signed by the wallet at the time of the call.  The claims do not     *)
(* change while a deed is looked at.  What a verifier makes of it follows     *)
(* from the lemmas of PresentingProofs.                                       *)

IdLists == {[i \in DOMAIN sel |-> sel[i].claim_id] : sel \in SelectionLists}

(* What a call comes to, with the claims that are held. *)
OutcomeOf(call, asked) ==
    CASE call = "present" -> Present(claims, asked)
      [] call = "present_all" -> PresentAll(claims, asked)
      [] call = "satisfy" -> Satisfy(claims, asked)

AskedRight ==
    \/ deed.call = "present" /\ deed.asked \in SelectionLists
    \/ deed.call = "present_all" /\ deed.asked \in IdLists
    \/ deed.call = "satisfy" /\ deed.asked \in RequestLists

DeedIsOutcome ==
    /\ AskedRight /\ deed.at \in Clock /\ deed.ttl \in Lifetimes
    /\ deed = Deed(deed.call, deed.asked, deed.at, deed.ttl, OutcomeOf(deed.call, deed.asked))

WlInv == claims \in Seq(Claim) /\ (deed.call # "none" => DeedIsOutcome)

-------------------------------------------------------------------------------
(* A deed, part by part. *)
LEMMA DeedParts ==
  ASSUME NEW call, NEW asked, NEW at, NEW ttl, NEW outcome,
         NEW d, d = Deed(call, asked, at, ttl, outcome)
  PROVE  /\ d.call = call /\ d.asked = asked /\ d.at = at /\ d.ttl = ttl
         /\ d.refused = outcome.refused
         /\ d.built = BuildFor(Me, Reader, FreshNonce, at, ttl, outcome.disclosed)
  BY DEF Deed

LEMMA IdleCall == Idle.call = "none"
  BY DEF Idle, Deed

LEMMA WlInitInv == WlInit => WlInv
  <1> SUFFICES ASSUME WlInit PROVE WlInv
    OBVIOUS
  <1>1. deed.call = "none"
    BY IdleCall DEF WlInit
  <1>2. QED
    BY <1>1 DEF WlInit, WlInv

LEMMA AddInv ==
  ASSUME WlInv, NEW c \in Claim, Add(c)
  PROVE  WlInv'
  <1>1. deed.call = "none"
    BY IdleCall DEF Add
  <1>2. claims' \in Seq(Claim) /\ deed' = deed
    BY DEF WlInv, Add
  <1>3. QED
    BY <1>1, <1>2 DEF WlInv

LEMMA HandOverInv ==
  ASSUME WlInv, HandOver
  PROVE  WlInv'
  <1>1. deed'.call = "none"
    BY IdleCall DEF HandOver
  <1>2. QED
    BY <1>1 DEF WlInv, HandOver

LEMMA CallInv ==
  ASSUME WlInv, NEW name, NEW asked, Call(name, asked, OutcomeOf(name, asked)),
         \/ name = "present" /\ asked \in SelectionLists
         \/ name = "present_all" /\ asked \in IdLists
         \/ name = "satisfy" /\ asked \in RequestLists
  PROVE  WlInv'
  <1> DEFINE outcome == OutcomeOf(name, asked)
  <1>1. claims' = claims /\ OutcomeOf(name, asked)' = outcome
    BY DEF Call, OutcomeOf
  <1>2. PICK at \in Clock, ttl \in Lifetimes : deed' = Deed(name, asked, at, ttl, outcome)
    BY DEF Call
  <1>3. deed'.call = name /\ deed'.asked = asked /\ deed'.at = at /\ deed'.ttl = ttl
    BY <1>2, DeedParts
  <1> HIDE DEF outcome
  <1>4. AskedRight'
    BY <1>3 DEF AskedRight
  <1>5. OutcomeOf(deed.call, deed.asked)' = outcome
    BY <1>1, <1>3 DEF OutcomeOf, outcome
  <1>6. deed' = Deed(deed'.call, deed'.asked, deed'.at, deed'.ttl,
                     OutcomeOf(deed.call, deed.asked)')
    BY <1>2, <1>3, <1>5
  <1>7. DeedIsOutcome'
    BY <1>3, <1>4, <1>6 DEF DeedIsOutcome, Deed
  <1>8. QED
    BY <1>1, <1>7 DEF WlInv

LEMMA WlStepInv == WlInv /\ [WlNext]_wlVars => WlInv'
  <1> SUFFICES ASSUME WlInv, [WlNext]_wlVars PROVE WlInv'
    OBVIOUS
  <1>1. ASSUME NEW c \in Claim, Add(c) PROVE WlInv'
    BY <1>1, AddInv
  <1>2. ASSUME NEW sel \in SelectionLists, Call("present", sel, Present(claims, sel)) PROVE WlInv'
    <2>1. OutcomeOf("present", sel) = Present(claims, sel)
      BY DEF OutcomeOf
    <2>2. QED
      BY <1>2, <2>1, CallInv
  <1>3. ASSUME NEW ids \in IdLists, Call("present_all", ids, PresentAll(claims, ids)) PROVE WlInv'
    <2>1. OutcomeOf("present_all", ids) = PresentAll(claims, ids)
      BY DEF OutcomeOf
    <2>2. QED
      BY <1>3, <2>1, CallInv
  <1>4. ASSUME NEW asked \in RequestLists, Call("satisfy", asked, Satisfy(claims, asked)) PROVE WlInv'
    <2>1. OutcomeOf("satisfy", asked) = Satisfy(claims, asked)
      BY DEF OutcomeOf
    <2>2. QED
      BY <1>4, <2>1, CallInv
  <1>5. CASE HandOver
    BY <1>5, HandOverInv
  <1>6. CASE UNCHANGED wlVars
    BY <1>6 DEF wlVars, WlInv, DeedIsOutcome, AskedRight, OutcomeOf
  <1>7. QED
    BY <1>1, <1>2, <1>3, <1>4, <1>5, <1>6 DEF WlNext, IdLists

(* What a wallet shows is the outcome of the call it answers, on the claims  *)
(* it holds (lib.rs:110-154, 163-244).                                       *)
THEOREM WalletInvariant == WlSpec => []WlInv
  BY WlInitInv, WlStepInv, PTL DEF WlSpec

-------------------------------------------------------------------------------
(* What is built. *)

(* The presentation is the wallet's, for the reader, signed, and open for    *)
(* the lifetime asked for.                                                   *)
LEMMA BuiltEnvelope ==
  ASSUME WlInv, Built
  PROVE  /\ deed.built.subject_id = Me /\ deed.built.subject_key = Me
         /\ deed.built.audience = Reader /\ deed.built.nonce = FreshNonce
         /\ deed.built.issued_at = deed.at
         /\ deed.built.expires_at = PlusSeconds(deed.at, deed.ttl)
         /\ SubjectSigned(deed.built)
         /\ deed.at \in Clock /\ deed.ttl \in Lifetimes
         /\ claims \in Seq(Claim) /\ AskedRight
         /\ OutcomeOf(deed.call, deed.asked).refused = NONE
         /\ deed.built.claims = OutcomeOf(deed.call, deed.asked).disclosed
  <1> DEFINE outcome == OutcomeOf(deed.call, deed.asked)
             q == deed.built
  <1>1. DeedIsOutcome /\ claims \in Seq(Claim)
    BY DEF WlInv, Built
  <1>2. deed = Deed(deed.call, deed.asked, deed.at, deed.ttl, outcome)
    BY <1>1 DEF DeedIsOutcome
  <1> HIDE DEF outcome
  <1>3. /\ deed.refused = outcome.refused
        /\ deed.built = BuildFor(Me, Reader, FreshNonce, deed.at, deed.ttl, outcome.disclosed)
    BY <1>2, DeedParts
  <1> DEFINE until == PlusSeconds(deed.at, deed.ttl)
             shown == outcome.disclosed
  <1>4. q = BuildPresentation(Me, Reader, FreshNonce, deed.at, until, shown)
    BY <1>3 DEF BuildFor
  <1> HIDE DEF until, shown, q
  <1>5. /\ q.subject_id = Me /\ q.subject_key = Me /\ q.audience = Reader /\ q.nonce = FreshNonce
        /\ q.issued_at = deed.at /\ q.expires_at = until /\ q.claims = shown
    BY <1>4, BuiltParts
  <1>6. SubjectSigned(q)
    BY <1>4, SubjectSigns
  <1>7. outcome.refused = NONE
    BY <1>3 DEF Built
  <1>8. QED
    BY <1>1, <1>5, <1>6, <1>7 DEF DeedIsOutcome, outcome, until, shown, q

-------------------------------------------------------------------------------
(* The window. *)

(* Time bears on a report in one check. *)
LEMMA UnexpiredCheck ==
  ASSUME NEW q, NEW au, NEW t, NEW a, NEW b, NEW rs
  PROVE  "unexpired" \notin FailedChecks(q, au, t, a, b, rs)
            <=> q.issued_at <= t /\ t <= q.expires_at
  <1>1. "unexpired" \notin BindingFailures(q, au, t, b)
            <=> q.issued_at <= t /\ t <= q.expires_at
    BY DEF BindingFailures, EnvelopeFailures, FailsUnless
  <1>2. "unexpired" \notin PredicateFailures(q, t, a, rs)
    BY DEF PredicateFailures, FailsUnless
  <1>3. ASSUME NEW c PROVE "unexpired" \notin ClaimFailures(c, q.subject_id, t, a)
    BY DEF ClaimFailures, TrustFailures, OwnFailures, FailsUnless, RELIANCE_RESOLVABLE_CHECK
  <1>4. QED
    BY <1>1, <1>2, <1>3 DEF FailedChecks

(* A window that saturates is as long as one counted without bound. *)
LEMMA WindowCounts ==
  ASSUME NEW at \in Clock, NEW ttl \in Lifetimes, NEW t \in 0..MaxSecond
  PROVE  at <= t /\ t <= PlusSeconds(at, ttl) <=> t - at \in 0..ttl
  <1>1. /\ MinSecond \in Int /\ MaxSecond \in Int /\ MinSecond <= 0 /\ 0 <= MaxSecond
        /\ at \in 0..MaxSecond /\ ttl \in MinSecond..MaxSecond
    BY WalletAssumption
  <1>2. QED
    BY <1>1 DEF PlusSeconds

(* A presentation is in its window exactly for the lifetime asked for: an    *)
(* end that saturates is one no clock can pass, and a negative lifetime is   *)
(* over before it begins (time.rs:21-24, presentation.rs:204).               *)
THEOREM WindowHolds == WlSpec => []WindowIsLifetime
  <1>1. WlInv => WindowIsLifetime
    <2> SUFFICES ASSUME WlInv, Built, NEW known \in Anchor, NEW t \in 0..MaxSecond
                 PROVE  "unexpired" \notin Verdicts(known, t, {}) <=> t - deed.at \in 0..deed.ttl
      BY DEF WindowIsLifetime
    <2>1. /\ deed.built.issued_at = deed.at
          /\ deed.built.expires_at = PlusSeconds(deed.at, deed.ttl)
          /\ deed.at \in Clock /\ deed.ttl \in Lifetimes
      BY BuiltEnvelope
    <2>2. "unexpired" \notin Verdicts(known, t, {})
              <=> deed.built.issued_at <= t /\ t <= deed.built.expires_at
      BY UnexpiredCheck DEF Verdicts
    <2>3. QED
      BY <2>1, <2>2, WindowCounts
  <1>2. QED
    BY <1>1, WalletInvariant, PTL

-------------------------------------------------------------------------------
(* What is shown. *)

(* To ask for claims by their ids is to select all of their fields. *)
WholeOf(ids) == [i \in DOMAIN ids |-> [claim_id |-> ids[i], keys |-> AllFields]]

LEMMA WholeOfIsList ==
  ASSUME NEW ids \in IdLists
  PROVE  /\ WholeOf(ids) \in Seq(Range(WholeOf(ids)))
         /\ DOMAIN WholeOf(ids) = DOMAIN ids
         /\ ids # <<>> => WholeOf(ids) # <<>>
         /\ \A i \in DOMAIN ids : WholeOf(ids)[i].claim_id = ids[i]
  <1>1. PICK sel \in SelectionLists : ids = [i \in DOMAIN sel |-> sel[i].claim_id]
    BY DEF IdLists
  <1>2. PICK n \in Nat : DOMAIN ids = 1..n /\ (n = 0 => ids = <<>>)
    <2>1. sel \in Seq(Range(sel))
      BY WalletAssumption
    <2>2. DOMAIN sel = 1..Len(sel) /\ Len(sel) \in Nat
      BY <2>1
    <2>3. DOMAIN ids = 1..Len(sel)
      BY <1>1, <2>2
    <2>4. Len(sel) = 0 => ids = <<>>
      BY <1>1, <2>2
    <2>5. QED
      BY <2>2, <2>3, <2>4
  <1> DEFINE sels == WholeOf(ids)
  <1>3. /\ DOMAIN sels = 1..n /\ \A i \in 1..n : sels[i].claim_id = ids[i]
        /\ sels = [i \in 1..n |-> sels[i]]
    BY <1>2 DEF WholeOf
  <1> HIDE DEF sels
  <1>4. sels \in Seq(Range(sels))
    BY <1>3, SequenceOfSome
  <1>5. ids # <<>> => sels # <<>>
    BY <1>2, <1>3
  <1>6. QED
    BY <1>2, <1>3, <1>4, <1>5 DEF sels

(* Every claim built into a presentation is one held, in part. *)
LEMMA BuiltOfHeld ==
  ASSUME WlInv, Built, NEW c \in Range(deed.built.claims)
  PROVE  Shows(claims, c)
  <1> DEFINE outcome == OutcomeOf(deed.call, deed.asked)
             asked == deed.asked
  <1>1. /\ claims \in Seq(Claim) /\ AskedRight /\ outcome.refused = NONE
        /\ c \in Range(outcome.disclosed)
    BY BuiltEnvelope
  <1>2. CASE deed.call = "present" /\ asked \in SelectionLists
    <2>1. outcome = Present(claims, asked)
      BY <1>2 DEF OutcomeOf
    <2>2. asked \in Seq(Range(asked))
      BY <1>2, WalletAssumption
    <2> HIDE DEF outcome, asked
    <2>3. QED
      BY <1>1, <2>1, <2>2, ShownIsHeld
  <1>3. CASE deed.call = "present_all" /\ asked \in IdLists
    <2>1. outcome = Present(claims, WholeOf(asked))
      BY <1>3 DEF OutcomeOf, PresentAll, WholeOf
    <2>2. WholeOf(asked) \in Seq(Range(WholeOf(asked)))
      BY <1>3, WholeOfIsList
    <2> HIDE DEF outcome, asked
    <2>3. QED
      BY <1>1, <2>1, <2>2, ShownIsHeld
  <1>4. CASE deed.call = "satisfy" /\ asked \in RequestLists
    <2>1. outcome = Satisfy(claims, asked)
      BY <1>4 DEF OutcomeOf
    <2>2. asked \in Seq(Range(asked))
      BY <1>4, WalletAssumption
    <2> HIDE DEF outcome, asked
    <2>3. QED
      BY <1>1, <2>1, <2>2, ShownIsHeld
  <1>5. QED
    BY <1>1, <1>2, <1>3, <1>4 DEF AskedRight

(* A claim shown in part fails no check exactly if the claim is sound. *)
LEMMA SoundShown ==
  ASSUME NEW d, AsIssued(d), NEW keys, keys \subseteq DOMAIN d.body_root,
         NEW c, c = Disclose(d, keys), NEW a, NEW t
  PROVE  ClaimFailures(c, Me, t, a) = {} <=> Sound(d, a, t)
  <1>1. /\ c.claim_id = d.claim_id /\ c.subject_id = d.subject_id
        /\ c.issuer_id = d.issuer_id /\ c.category = d.category
        /\ c.from = d.from /\ c.until = d.until
        /\ c.reliance = d.reliance_root /\ Authentic(c)
    BY DisclosedParts
  <1>2. /\ WithinValidity(c, t) <=> d.from <= t /\ (d.until = OpenEnd \/ t <= d.until)
        /\ AccreditedOk(c, a)
             <=> (d.category \in a.required => <<d.issuer_id, d.category>> \in a.accredited)
    BY <1>1 DEF WithinValidity, AccreditedOk
  <1>3. ({d.claim_id} \cup d.reliance_root) \cap a.revoked = {}
            <=> c.claim_id \notin a.revoked /\ c.reliance \cap a.revoked = {}
    BY <1>1
  <1>4. d.reliance_root \cap a.unresolvable = c.reliance \cap a.unresolvable
    BY <1>1
  <1>5. ClaimFailures(c, Me, t, a) = {} <=>
            /\ c.subject_id = Me /\ c.issuer_id \in a.issuers /\ Authentic(c)
            /\ WithinValidity(c, t) /\ AccreditedOk(c, a) /\ c.claim_id \notin a.revoked
            /\ c.reliance \cap a.revoked = {} /\ c.reliance \cap a.unresolvable = {}
    BY SoundClaim
  <1>6. QED
    BY <1>1, <1>2, <1>3, <1>4, <1>5 DEF Sound

(* Within the window, and with something in it, what is built is accepted    *)
(* exactly if every claim in it passes and every request is met.             *)
LEMMA BuiltAccepted ==
  ASSUME WlInv, Built, deed.built.claims # <<>>, NEW a, NEW t \in 0..MaxSecond,
         t - deed.at \in 0..deed.ttl, NEW asked
  PROVE  Accepts(Verdicts(a, t, asked)) <=>
            /\ \A c \in Range(deed.built.claims) : ClaimFailures(c, Me, t, a) = {}
            /\ \A req \in asked : \E c \in Range(deed.built.claims) : PredicateHolds(req, c, Me, t, a)
  <1> DEFINE q == deed.built
  <1>1. /\ q.subject_id = Me /\ q.subject_key = Me /\ q.audience = Reader
        /\ q.nonce = FreshNonce /\ SubjectSigned(q)
        /\ q.issued_at = deed.at /\ q.expires_at = PlusSeconds(deed.at, deed.ttl)
        /\ deed.at \in Clock /\ deed.ttl \in Lifetimes
    BY BuiltEnvelope
  <1>2. q.issued_at <= t /\ t <= q.expires_at
    BY <1>1, WindowCounts
  <1>3. q.nonce \notin ShortNonce /\ q.claims # <<>>
    BY <1>1, WalletAssumption
  <1>4. q.subject_key = q.subject_id /\ q.audience = Reader /\ SubjectSigned(q)
    BY <1>1
  <1> HIDE DEF q
  <1>5. FailedChecks(q, Reader, t, a, FALSE, asked) = {}
            <=> ClaimsPass(q, t, a) /\ RequestsMet(q, t, a, asked)
    <2> DEFINE again == FALSE
    <2>1. ~again
      OBVIOUS
    <2> HIDE DEF again
    <2>2. FailedChecks(q, Reader, t, a, again, asked) = {}
              <=> ClaimsPass(q, t, a) /\ RequestsMet(q, t, a, asked)
      BY <1>2, <1>3, <1>4, <2>1, AcceptedParts
    <2>3. QED
      BY <2>2 DEF again
  <1>6. QED
    BY <1>1, <1>5 DEF q, Accepts, Verdicts, ClaimsPass, RequestsMet

(* What a wallet builds of its subject's sound claims is accepted, whatever  *)
(* was selected, added twice or left out, and one unsound claim costs the    *)
(* whole (lib.rs:110-154, presentation.rs:198-262).                          *)
THEOREM SoundIsAccepted == WlSpec => []AcceptedIfSound
  <1>1. WlInv => AcceptedIfSound
    <2> SUFFICES ASSUME WlInv, Built, deed.built.claims # <<>>,
                        NEW a \in Anchor, NEW t \in 0..MaxSecond, t - deed.at \in 0..deed.ttl
                 PROVE  Accepts(Verdicts(a, t, {})) <=> \A c \in Shown : Sound(c, a, t)
      BY DEF AcceptedIfSound
    <2>1. Accepts(Verdicts(a, t, {}))
              <=> \A c \in Range(deed.built.claims) : ClaimFailures(c, Me, t, a) = {}
      BY BuiltAccepted
    <2>2. /\ Range(claims) \subseteq Claim
          /\ \A c, d \in Claim : c.claim_id = d.claim_id => c = d
      BY WalletAssumption DEF WlInv, Range
    <2>3. ASSUME NEW c \in Range(deed.built.claims)
          PROVE  \E d \in Range(claims) :
                    d.claim_id = c.claim_id /\ (ClaimFailures(c, Me, t, a) = {} <=> Sound(d, a, t))
      <3>1. PICK d, keys :
                d \in Range(claims) /\ keys \subseteq DOMAIN d.body_root /\ c = Disclose(d, keys)
        BY <2>3, BuiltOfHeld DEF Shows
      <3>2. AsIssued(d)
        BY <2>2, <3>1, WalletAssumption
      <3>3. c.claim_id = d.claim_id
        BY <3>1, <3>2, DisclosedParts
      <3>4. ClaimFailures(c, Me, t, a) = {} <=> Sound(d, a, t)
        BY <3>1, <3>2, SoundShown
      <3>5. QED
        BY <3>1, <3>3, <3>4
    <2>4. ASSUME \A c \in Range(deed.built.claims) : ClaimFailures(c, Me, t, a) = {},
                 NEW e \in Shown
          PROVE  Sound(e, a, t)
      <3>1. PICK c \in Range(deed.built.claims) : c.claim_id = e.claim_id
        BY <2>4 DEF Shown
      <3>2. PICK d \in Range(claims) : d.claim_id = c.claim_id /\ Sound(d, a, t)
        BY <2>3, <2>4
      <3>3. e = d
        BY <2>2, <2>4, <3>1, <3>2 DEF Shown
      <3>4. QED
        BY <3>2, <3>3
    <2>5. ASSUME \A d \in Shown : Sound(d, a, t), NEW c \in Range(deed.built.claims)
          PROVE  ClaimFailures(c, Me, t, a) = {}
      <3>1. PICK d \in Range(claims) :
                d.claim_id = c.claim_id /\ (ClaimFailures(c, Me, t, a) = {} <=> Sound(d, a, t))
        BY <2>3, <2>5
      <3>2. d \in Shown
        BY <2>5, <3>1 DEF Shown
      <3>3. QED
        BY <2>5, <3>1, <3>2
    <2>6. QED
      BY <2>1, <2>4, <2>5
  <1>2. QED
    BY <1>1, WalletInvariant, PTL

-------------------------------------------------------------------------------
(* What was asked for. *)

(* A request that is answered by a claim held is met by what is shown of it. *)
LEMMA AnswerSettles ==
  ASSUME NEW d, AsIssued(d), NEW req, Answers(d, req), req.field \in DOMAIN d.body_root,
         NEW keys, keys \subseteq DOMAIN d.body_root, req.field \in keys,
         NEW c, c = Disclose(d, keys),
         req.scale_version \in {AnyScale, d.schema_id}
  PROVE  Settles(req, c)
  <1>1. /\ c.category = d.category /\ c.schema_id = d.schema_id
        /\ DOMAIN c.fields = keys /\ \A k \in keys : c.fields[k] = d.body_root[k]
    BY DisclosedParts
  <1>2. c.fields[req.field] = FieldValues(d)[req.field]
    BY <1>1, FieldOfBody
  <1>3. d.category = req.category /\ Holds(req.op, FieldValues(d)[req.field], req.bound)
    BY DEF Answers
  <1>4. QED
    BY <1>1, <1>2, <1>3 DEF Settles

(* Whether a claim answers does not depend on the scale asked for.           *)
LEMMA AnyScaleAnswers ==
  ASSUME NEW req, DOMAIN req = {"category", "field", "op", "bound", "scale_version"},
         NEW d, Answers(d, req),
         NEW r, r = [req EXCEPT !.scale_version = AnyScale]
  PROVE  /\ Answers(d, r) /\ r.field = req.field /\ r.scale_version = AnyScale
  <1>1. /\ r.category = req.category /\ r.field = req.field /\ r.op = req.op
        /\ r.bound = req.bound /\ r.scale_version = AnyScale
    OBVIOUS
  <1>2. QED
    BY <1>1 DEF Answers

(* What an answered call built: for each request, that field of a claim held *)
(* that answers it.                                                          *)
LEMMA BuiltAnswers ==
  ASSUME WlInv, Built, deed.call = "satisfy"
  PROVE  /\ DOMAIN deed.built.claims = DOMAIN deed.asked
         /\ deed.asked \in RequestLists
         /\ \A i \in DOMAIN deed.asked : \E d \in Range(claims) :
               /\ Answers(d, deed.asked[i])
               /\ deed.asked[i].field \in DOMAIN d.body_root
               /\ ShowsField(deed.built.claims[i], d, deed.asked[i].field)
  <1> DEFINE outcome == OutcomeOf(deed.call, deed.asked)
             asked == deed.asked
  <1>1. /\ claims \in Seq(Claim) /\ AskedRight /\ outcome.refused = NONE
        /\ deed.built.claims = outcome.disclosed
    BY BuiltEnvelope
  <1>2. asked \in RequestLists /\ asked \in Seq(Range(asked))
    BY <1>1, WalletAssumption DEF AskedRight
  <1>3. outcome = Satisfy(claims, asked)
    BY DEF OutcomeOf
  <1> HIDE DEF outcome, asked
  <1>4. /\ DOMAIN outcome.disclosed = DOMAIN asked
        /\ \A i \in DOMAIN asked : \E n \in DOMAIN claims :
               /\ Answers(claims[n], asked[i])
               /\ asked[i].field \in DOMAIN claims[n].body_root
               /\ ShowsField(outcome.disclosed[i], claims[n], asked[i].field)
    BY <1>1, <1>2, <1>3, SatisfiedShown
  <1>5. \A n \in DOMAIN claims : claims[n] \in Range(claims)
    BY DEF Range
  <1>6. ASSUME NEW i \in DOMAIN asked
        PROVE  \E d \in Range(claims) :
               /\ Answers(d, asked[i])
               /\ asked[i].field \in DOMAIN d.body_root
               /\ ShowsField(outcome.disclosed[i], d, asked[i].field)
    BY <1>4, <1>5
  <1>7. QED
    BY <1>1, <1>2, <1>4, <1>6 DEF asked

(* c discloses that one field of d. *)
OnlyField(c, d, field) == \E keys : c = Disclose(d, keys) /\ \A k : k \in keys <=> k = field

(* To ask for one field is to disclose that field. *)
LEMMA OneFieldShown ==
  ASSUME NEW asked \in RequestLists, NEW req \in Range(asked),
         NEW c, NEW d, ShowsField(c, d, req.field)
  PROVE  OnlyField(c, d, req.field)
  <1> DEFINE keys == {req.field}
  <1>1. keys # AllFields
    BY WalletAssumption
  <1>2. c = Disclose(d, keys)
    BY <1>1 DEF ShowsField, DiscloseBy
  <1>3. \A k : k \in keys <=> k = req.field
    OBVIOUS
  <1> HIDE DEF keys
  <1>4. QED
    BY <1>2, <1>3 DEF OnlyField

(* Settled claims of the property are claims held that answer. *)
LEMMA AnswerIsSound ==
  ASSUME NEW asked \in RequestLists, NEW req \in Range(asked), NEW d \in Claim,
         Answers(d, req), req.field \in DOMAIN d.body_root, NEW a, NEW t,
         Settles([req EXCEPT !.scale_version = AnyScale], Disclose(d, DOMAIN d.body_root))
             => Sound(d, a, t) /\ req.scale_version \in {AnyScale, d.schema_id}
  PROVE  Sound(d, a, t) /\ req.scale_version \in {AnyScale, d.schema_id}
  <1> DEFINE r == [req EXCEPT !.scale_version = AnyScale]
             keys == DOMAIN d.body_root
             c == Disclose(d, keys)
  <1>1. DOMAIN req = {"category", "field", "op", "bound", "scale_version"} /\ AsIssued(d)
    BY WalletAssumption
  <1>2. Answers(d, r) /\ r.field = req.field /\ r.scale_version = AnyScale
    BY <1>1, AnyScaleAnswers
  <1> HIDE DEF r
  <1>3. /\ keys \subseteq DOMAIN d.body_root /\ r.field \in keys
        /\ r.field \in DOMAIN d.body_root /\ r.scale_version \in {AnyScale, d.schema_id}
    BY <1>2
  <1> HIDE DEF c, keys
  <1>4. c = Disclose(d, keys)
    BY DEF c
  <1>5. Settles(r, c)
    BY <1>1, <1>2, <1>3, <1>4, AnswerSettles
  <1>6. QED
    BY <1>5 DEF r, c, keys

(* The wallet's comparison and the verifier's agree: if every claim that     *)
(* could answer a request is sound, and of the scale asked for, the verifier *)
(* who asked takes what is built (lib.rs:163-244, predicate.rs:60-110).      *)
THEOREM AnswersTaken == WlSpec => []AnswersAreTaken
  <1>1. WlInv => AnswersAreTaken
    <2> SUFFICES ASSUME WlInv, Built, deed.call = "satisfy", deed.asked # <<>>,
                        NEW a \in Anchor, NEW t \in 0..MaxSecond, t - deed.at \in 0..deed.ttl,
                        \A req \in Range(deed.asked), c \in Range(claims) :
                            Settles([req EXCEPT !.scale_version = AnyScale],
                                    Disclose(c, DOMAIN c.body_root))
                                => Sound(c, a, t) /\ req.scale_version \in {AnyScale, c.schema_id}
                 PROVE  Accepts(Verdicts(a, t, Range(deed.asked)))
      BY DEF AnswersAreTaken
    <2> DEFINE asked == deed.asked
               shown == deed.built.claims
    <2>1. /\ DOMAIN shown = DOMAIN asked /\ asked \in RequestLists
          /\ asked \in Seq(Range(asked)) /\ Range(claims) \subseteq Claim
      BY BuiltAnswers, WalletAssumption DEF WlInv, Range
    <2>2. ASSUME NEW i \in DOMAIN asked
          PROVE  ClaimFailures(shown[i], Me, t, a) = {} /\ Settles(asked[i], shown[i])
      <3> DEFINE req == asked[i]
                 c == shown[i]
      <3>1. PICK d \in Range(claims) :
                Answers(d, req) /\ req.field \in DOMAIN d.body_root /\ ShowsField(c, d, req.field)
        BY <2>2, BuiltAnswers
      <3>2. req \in Range(asked) /\ d \in Claim /\ AsIssued(d)
        BY <2>1, <3>1, WalletAssumption DEF Range
      <3>3. Settles([req EXCEPT !.scale_version = AnyScale], Disclose(d, DOMAIN d.body_root))
                => Sound(d, a, t) /\ req.scale_version \in {AnyScale, d.schema_id}
        BY <3>1, <3>2
      <3> HIDE DEF req, c
      <3>4. Sound(d, a, t) /\ req.scale_version \in {AnyScale, d.schema_id}
        BY <2>1, <3>1, <3>2, <3>3, AnswerIsSound
      <3>5. PICK keys : c = Disclose(d, keys) /\ \A k : k \in keys <=> k = req.field
        <4>1. OnlyField(c, d, req.field)
          BY <2>1, <3>1, <3>2, OneFieldShown
        <4>2. QED
          BY <4>1 DEF OnlyField
      <3>6. keys \subseteq DOMAIN d.body_root /\ req.field \in keys
        BY <3>1, <3>5
      <3>7. ClaimFailures(c, Me, t, a) = {}
        BY <3>2, <3>4, <3>5, <3>6, SoundShown
      <3>8. Settles(req, c)
        BY <3>1, <3>2, <3>4, <3>5, <3>6, AnswerSettles
      <3>9. QED
        BY <3>7, <3>8 DEF req, c
    <2> HIDE DEF asked, shown
    <2>3. shown # <<>>
      <3>1. asked \in Seq(Range(asked)) /\ asked # <<>>
        BY <2>1 DEF asked
      <3>2. 1 \in DOMAIN asked
        BY <3>1
      <3>3. QED
        BY <2>1, <3>2
    <2>4. \A c \in Range(shown) : ClaimFailures(c, Me, t, a) = {}
      BY <2>1, <2>2 DEF Range
    <2>5. ASSUME NEW req \in Range(asked)
          PROVE  \E c \in Range(shown) : PredicateHolds(req, c, Me, t, a)
      <3>1. PICK i \in DOMAIN asked : req = asked[i]
        BY <2>5 DEF Range
      <3>2. shown[i] \in Range(shown)
        BY <2>1 DEF Range
      <3>3. PredicateHolds(req, shown[i], Me, t, a)
        BY <2>2, <3>1 DEF PredicateHolds, FullyValid
      <3>4. QED
        BY <3>2, <3>3
    <2>6. QED
      BY <2>3, <2>4, <2>5, BuiltAccepted DEF asked, shown
  <1>2. QED
    BY <1>1, WalletInvariant, PTL

-------------------------------------------------------------------------------
(* One claim for each thing asked. *)

(* What a call with selections disclosed: the fields selected of the claim   *)
(* selected.                                                                 *)
LEMMA SelectedExactly ==
  ASSUME claims \in Seq(Claim), NEW U, NEW sels \in Seq(U), sels # <<>>,
         NEW outcome, outcome = Present(claims, sels), outcome.refused = NONE
  PROVE  /\ DOMAIN outcome.disclosed = DOMAIN sels
         /\ \A i \in DOMAIN sels :
               /\ outcome.disclosed[i].claim_id = sels[i].claim_id
               /\ \/ sels[i].keys = AllFields
                  \/ sels[i].keys = DOMAIN outcome.disclosed[i].fields
  <1>1. outcome = DiscloseSelected(claims, sels)
    BY DEF Present
  <1>2. DOMAIN outcome.disclosed = DOMAIN sels
    BY <1>1, SelectedShown
  <1>3. ASSUME NEW i \in DOMAIN sels
        PROVE  /\ outcome.disclosed[i].claim_id = sels[i].claim_id
               /\ \/ sels[i].keys = AllFields
                  \/ sels[i].keys = DOMAIN outcome.disclosed[i].fields
    <2> DEFINE c == outcome.disclosed[i]
               chosen == sels[i].keys
    <2>1. PICK n \in DOMAIN claims :
              claims[n].claim_id = sels[i].claim_id /\ c = DiscloseBy(claims[n], chosen)
      BY <1>1, <1>3, SelectedShown
    <2> DEFINE d == claims[n]
               keys == IF chosen = AllFields THEN DOMAIN d.body_root ELSE chosen
    <2>2. AsIssued(d) /\ c = Disclose(d, keys)
      BY <2>1, WalletAssumption DEF DiscloseBy
    <2>3. chosen # AllFields => keys = chosen
      OBVIOUS
    <2> HIDE DEF c, d, keys
    <2>4. c.claim_id = d.claim_id /\ DOMAIN c.fields = keys
      BY <2>2, DisclosedParts
    <2>5. QED
      BY <2>1, <2>3, <2>4 DEF c, d
  <1>4. QED
    BY <1>2, <1>3

(* A wallet shows what it was asked for, one claim for each thing asked, and *)
(* nothing besides, and shows nothing if a call is wrong in any place        *)
(* (lib.rs:110-154, 163-244).                                                *)
THEOREM WhatWasAsked == WlSpec => []ShowsWhatWasAsked
  <1>1. WlInv => ShowsWhatWasAsked
    <2> SUFFICES ASSUME WlInv, Built, deed.asked # <<>> \/ deed.call = "satisfy"
                 PROVE  /\ DOMAIN deed.built.claims = DOMAIN deed.asked
                        /\ \A i \in DOMAIN deed.asked :
                              LET d == deed.built.claims[i]
                                  ask == deed.asked[i]
                              IN  CASE deed.call = "present_all" -> d.claim_id = ask
                                    [] deed.call = "present" ->
                                          /\ d.claim_id = ask.claim_id
                                          /\ ask.keys \in {AllFields, DOMAIN d.fields}
                                    [] deed.call = "satisfy" ->
                                          d.category = ask.category /\ DOMAIN d.fields = {ask.field}
      BY DEF ShowsWhatWasAsked
    <2> DEFINE outcome == OutcomeOf(deed.call, deed.asked)
               asked == deed.asked
               shown == deed.built.claims
    <2>1. /\ claims \in Seq(Claim) /\ AskedRight /\ outcome.refused = NONE
          /\ shown = outcome.disclosed
      BY BuiltEnvelope
    <2>2. CASE deed.call = "present" /\ asked \in SelectionLists
      <3>1. outcome = Present(claims, asked)
        BY <2>2 DEF OutcomeOf
      <3>2. asked \in Seq(Range(asked)) /\ asked # <<>>
        BY <2>2, WalletAssumption
      <3> HIDE DEF outcome
      <3>3. /\ DOMAIN shown = DOMAIN asked
            /\ \A i \in DOMAIN asked :
                  /\ shown[i].claim_id = asked[i].claim_id
                  /\ asked[i].keys = AllFields \/ asked[i].keys = DOMAIN shown[i].fields
        <4> HIDE DEF asked, shown
        <4>1. QED
          BY <2>1, <3>1, <3>2, SelectedExactly
      <3>4. QED
        BY <2>2, <3>3
    <2>3. CASE deed.call = "present_all" /\ asked \in IdLists
      <3> DEFINE sels == WholeOf(asked)
      <3>1. outcome = Present(claims, sels)
        BY <2>3 DEF OutcomeOf, PresentAll, WholeOf
      <3>2. /\ sels \in Seq(Range(sels)) /\ sels # <<>> /\ DOMAIN sels = DOMAIN asked
            /\ \A i \in DOMAIN asked : sels[i].claim_id = asked[i]
        BY <2>3, WholeOfIsList
      <3> HIDE DEF outcome, sels
      <3>3. /\ DOMAIN shown = DOMAIN sels
            /\ \A i \in DOMAIN sels : shown[i].claim_id = sels[i].claim_id
        <4> HIDE DEF asked, shown
        <4>1. QED
          BY <2>1, <3>1, <3>2, SelectedExactly
      <3>4. QED
        BY <2>3, <3>2, <3>3
    <2>4. CASE deed.call = "satisfy" /\ asked \in RequestLists
      <3>1. DOMAIN shown = DOMAIN asked
        BY <2>4, BuiltAnswers
      <3>2. ASSUME NEW i \in DOMAIN asked
            PROVE  /\ shown[i].category = asked[i].category
                   /\ \A k : k \in DOMAIN shown[i].fields <=> k = asked[i].field
        <4> DEFINE c == shown[i]
                   req == asked[i]
        <4>1. PICK d \in Range(claims) : Answers(d, req) /\ ShowsField(c, d, req.field)
          BY <2>4, <3>2, BuiltAnswers
        <4>2. req \in Range(asked) /\ AsIssued(d) /\ asked \in RequestLists
          BY <2>1, <2>4, <4>1, WalletAssumption DEF Range
        <4> HIDE DEF c, req, asked, shown
        <4>3. OnlyField(c, d, req.field)
          BY <4>1, <4>2, OneFieldShown
        <4>4. PICK keys : c = Disclose(d, keys) /\ \A k : k \in keys <=> k = req.field
          BY <4>3 DEF OnlyField
        <4>5. c.category = d.category /\ DOMAIN c.fields = keys
          BY <4>2, <4>4, DisclosedParts
        <4>6. QED
          BY <4>1, <4>4, <4>5 DEF Answers, c, req
      <3>3. ASSUME NEW i \in DOMAIN asked
            PROVE  shown[i].category = asked[i].category /\ DOMAIN shown[i].fields = {asked[i].field}
        BY <3>2, <3>3
      <3>4. QED
        BY <2>4, <3>1, <3>3
    <2>5. QED
      BY <2>1, <2>2, <2>3, <2>4 DEF AskedRight
  <1>2. QED
    BY <1>1, WalletInvariant, PTL
================================================================================
