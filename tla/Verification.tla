----------------------------- MODULE Verification -----------------------------
(****************************************************************************)
(* What travels between wallet and verifier, and the offline verdict        *)
(* (aion-trust-claims/src/presentation.rs, disclosure.rs, predicate.rs).    *)
(*                                                                          *)
(* Cryptography is what it proves.  A signature is the key that made it and *)
(* the content it covers.  A commitment root is the committed data itself;  *)
(* a revealed leaf is proven against it when it agrees with that data.  A   *)
(* did is the key it is derived from.  A nonce is its bytes, which are what *)
(* is signed: how they are spelled matters to the nonce store alone.  The   *)
(* purpose, a text nobody compares, is signed too and left out.             *)
(*                                                                          *)
(* A presentation that does not decode at all yields an error and no        *)
(* report; it is not a presentation here.                                   *)
(****************************************************************************)
EXTENDS Integers, Sequences, FiniteSets, Functions

CONSTANTS
    Hash(_),       \* the id of a signed claim content
    ShortNonce,    \* nonces below MIN_NONCE_LEN
    OpenEnd,       \* the `until` of a claim without an end
    AnyScale       \* a predicate that pins no scale version

RELIANCE_RESOLVABLE_CHECK == "reliance resolvable"

-------------------------------------------------------------------------------
(* Claims and presentations.  A claim in a wallet and its disclosure are one  *)
(* record: the signed scalars with the commitments body_root and              *)
(* reliance_root, and the revealed `fields` and `reliance`.                   *)

(* Mutant of ClaimSigning: the relied-on set is outside the signature. *)
ClaimSigningNoReliance(c) ==
    <<c.subject_id, c.issuer_id, c.category, c.schema_id, c.from, c.until, c.body_root>>

ClaimSigning(c) ==
    <<c.subject_id, c.issuer_id, c.category, c.schema_id, c.from, c.until,
      c.body_root, c.reliance_root>>

(* An issuer signs a content, in the order ClaimSigning lists it. *)
IssueClaim(subject, issuer, category, schema, from, until, body, relies_on) ==
    LET content == <<subject, issuer, category, schema, from, until, body, relies_on>>
    IN  [claim_id |-> Hash(content), subject_id |-> subject, issuer_id |-> issuer,
         category |-> category, schema_id |-> schema, from |-> from, until |-> until,
         body_root |-> body, reliance_root |-> relies_on,
         fields |-> <<>>, reliance |-> {},
         issuer_signature |-> [by |-> issuer, over |-> content]]

(* c is a claim as its issuer hands it out. *)
AsIssued(c) ==
    c = IssueClaim(c.subject_id, c.issuer_id, c.category, c.schema_id, c.from, c.until,
                   c.body_root, c.reliance_root)

(* A claim discloses some of its fields and all of its relied-on claims. *)
Disclose(c, keys) ==
    [c EXCEPT !.fields = Restrict(c.body_root, keys), !.reliance = c.reliance_root]

(* The subject signs the ids of the claims, not which fields are revealed. *)
PresSigning(p) ==
    <<p.subject_id, p.audience, p.nonce, p.issued_at, p.expires_at,
      [i \in DOMAIN p.claims |-> p.claims[i].claim_id]>>

BuildPresentation(subject, audience, nonce, from, until, disclosed) ==
    LET p == [subject_id |-> subject, subject_key |-> subject, audience |-> audience,
              nonce |-> nonce, issued_at |-> from, expires_at |-> until,
              claims |-> disclosed, subject_signature |-> <<>>]
    IN  [p EXCEPT !.subject_signature = [by |-> subject, over |-> PresSigning(p)]]

-------------------------------------------------------------------------------
(* One disclosed claim.  An anchor is what the verifier trusts: the issuers  *)
(* it recognizes, the categories that require accreditation, who is          *)
(* accredited for what, and what it knows of claim statuses.                 *)

(* Mutant of RelianceProven: a relied-on claim may be left out. *)
RelianceProvenPartly(c) == c.reliance \subseteq c.reliance_root

RelianceProven(c) == c.reliance = c.reliance_root

(* Mutant of FieldsProven: the revealed keys are checked, the values are not. *)
KeysProven(c) == DOMAIN c.fields \subseteq DOMAIN c.body_root

FieldsProven(c) ==
    \A k \in DOMAIN c.fields : k \in DOMAIN c.body_root /\ c.fields[k] = c.body_root[k]

Authentic(c) ==
    /\ c.issuer_signature = [by |-> c.issuer_id, over |-> ClaimSigning(c)]
    /\ c.claim_id = Hash(ClaimSigning(c))
    /\ FieldsProven(c)
    /\ RelianceProven(c)

Status(anchor, id) ==
    IF id \in anchor.revoked THEN "Revoked"
    ELSE IF id \in anchor.unresolvable THEN "Unresolvable" ELSE "Live"

WithinValidity(c, now) == c.from <= now /\ (c.until = OpenEnd \/ now <= c.until)

AccreditedOk(c, anchor) ==
    c.category \in anchor.required => <<c.issuer_id, c.category>> \in anchor.accredited

Relies(c, anchor, status) == \E id \in c.reliance : Status(anchor, id) = status

FailsUnless(passed, check) == IF passed THEN {} ELSE {check}

(* What the claim itself must satisfy. *)
OwnFailures(c, now, anchor) ==
    FailsUnless(WithinValidity(c, now), "claim within validity")
        \cup FailsUnless(AccreditedOk(c, anchor), "issuer accredited")
        \cup FailsUnless(c.claim_id \notin anchor.revoked, "claim not revoked")

(* Mutant of TrustFailures: an unresolvable dependency is a hard failure too. *)
NeverSoft(c, now, anchor) ==
    OwnFailures(c, now, anchor)
        \cup FailsUnless(~Relies(c, anchor, "Revoked") /\ ~Relies(c, anchor, "Unresolvable"),
                         "reliance intact")

TrustFailures(c, now, anchor) ==
    OwnFailures(c, now, anchor)
        \cup FailsUnless(~Relies(c, anchor, "Revoked"), "reliance intact")
        \cup FailsUnless(~Relies(c, anchor, "Unresolvable"), RELIANCE_RESOLVABLE_CHECK)

(* Mutant of ClaimFailures: whose claim it is goes unchecked. *)
AnySubjectFailures(c, presenter, now, anchor) ==
    IF c.issuer_id \notin anchor.issuers THEN {"issuer recognized"}
    ELSE IF ~Authentic(c) THEN {"claim authentic"}
    ELSE TrustFailures(c, now, anchor)

ClaimFailures(c, presenter, now, anchor) ==
    FailsUnless(c.subject_id = presenter, "claim subject matches presenter")
        \cup IF c.issuer_id \notin anchor.issuers THEN {"issuer recognized"}
             ELSE IF ~Authentic(c) THEN {"claim authentic"}
             ELSE TrustFailures(c, now, anchor)

-------------------------------------------------------------------------------
(* Predicates.  Values are comparable within a kind: numbers and texts. *)

Holds(op, x, y) ==
    /\ x.kind = y.kind /\ x.kind \in {"number", "text"}
    /\ \/ op = "Ge" /\ x.rank >= y.rank
       \/ op = "Gt" /\ x.rank > y.rank
       \/ op = "Le" /\ x.rank <= y.rank
       \/ op = "Lt" /\ x.rank < y.rank
       \/ op = "Eq" /\ x.rank = y.rank

FullyValid(c, presenter, now, anchor) == ClaimFailures(c, presenter, now, anchor) = {}

Settles(req, c) ==
    /\ c.category = req.category
    /\ req.scale_version \in {AnyScale, c.schema_id}
    /\ req.field \in DOMAIN c.fields
    /\ Holds(req.op, c.fields[req.field], req.bound)

(* Mutant of PredicateHolds: a withheld field passes every predicate on it.  *)
HoldsWhenHidden(req, c, presenter, now, anchor) ==
    /\ FullyValid(c, presenter, now, anchor)
    /\ c.category = req.category
    /\ req.field \in DOMAIN c.fields => Settles(req, c)

PredicateHolds(req, c, presenter, now, anchor) ==
    FullyValid(c, presenter, now, anchor) /\ Settles(req, c)

-------------------------------------------------------------------------------
(* The report: which checks fail. *)

(* What the presentation says of itself. *)
EnvelopeFailures(p, audience, now, seen) ==
    FailsUnless(p.subject_key = p.subject_id, "subject_id binds to key")
        \cup FailsUnless(p.audience = audience, "audience matches verifier")
        \cup FailsUnless(p.issued_at <= now /\ now <= p.expires_at, "unexpired")
        \cup FailsUnless(~seen, "nonce fresh")
        \cup FailsUnless(p.nonce \notin ShortNonce, "nonce sufficiently long")
        \cup FailsUnless(p.claims # <<>>, "discloses at least one claim")

BindingFailures(p, audience, now, seen) ==
    EnvelopeFailures(p, audience, now, seen)
        \cup FailsUnless(p.subject_signature = [by |-> p.subject_key, over |-> PresSigning(p)],
                         "subject signature valid")

(* Mutant of PredicateFailures: asking for something forgives the rest. *)
PredicateFailuresAny(p, now, anchor, reqs) ==
    IF \E req \in reqs, c \in Range(p.claims) : PredicateHolds(req, c, p.subject_id, now, anchor)
    THEN {} ELSE FailsUnless(reqs = {}, "predicate satisfied")

PredicateFailures(p, now, anchor, reqs) ==
    FailsUnless(\A req \in reqs : \E c \in Range(p.claims) :
                    PredicateHolds(req, c, p.subject_id, now, anchor),
                "predicate satisfied")

FailedChecks(p, audience, now, anchor, seen, reqs) ==
    BindingFailures(p, audience, now, seen)
        \cup (UNION {ClaimFailures(c, p.subject_id, now, anchor) : c \in Range(p.claims)})
        \cup PredicateFailures(p, now, anchor, reqs)

Accepts(failed) == failed = {}

(* Mutant of IsAmber: any report with the soft failure among others. *)
AmberAmongOthers(failed) == RELIANCE_RESOLVABLE_CHECK \in failed

IsAmber(failed) == failed # {} /\ failed \subseteq {RELIANCE_RESOLVABLE_CHECK}
===============================================================================
