-------------------------------- MODULE Verdict --------------------------------
(****************************************************************************)
(* One presentation on its way to one verifier while the world around it    *)
(* moves: time passes, claims are revoked, the verifier loses or regains    *)
(* sight of a claim's status, a category starts to require accreditation,   *)
(* issuers are recognized or accredited, the verifier asks for more, the    *)
(* nonce is consumed, and the presentation itself may arrive altered in one *)
(* place.  The verdict is recomputed from scratch in every state, as        *)
(* verify_presentation_with_predicates does on every call.                  *)
(****************************************************************************)
EXTENDS Verification

CONSTANTS
    Subject, Audience,
    Nonce,
    Held,          \* the claims in the subject's wallet
    Selections,    \* sequences of disclosed claims the wallet may present
    Requests,      \* predicates the verifier may ask for
    Elsewhere,     \* a did that is neither the subject nor the audience
    Garbage,       \* a field value no issuer attested
    Ttl, MaxNow,   \* the presentation's window and a bound on the clock
    MaxChanges     \* bound on how far the world moves from where it began

(* The wallet holds what issuers signed and presents disclosures of it. *)
ASSUME VerdictAssumption ==
    /\ Ttl \in Nat /\ MaxNow \in Nat /\ MaxChanges \in Nat
    /\ \A c \in Held : AsIssued(c)
    /\ \A s \in Selections : s \in Seq(Range(s))
    /\ \A s \in Selections : \A c \in Range(s) :
          \E d \in Held : DOMAIN c.fields \subseteq DOMAIN d.body_root
                           /\ c = Disclose(d, DOMAIN c.fields)

VARIABLES
    built,     \* the presentation as the wallet signed it
    p,         \* the presentation as it arrives
    now, anchor, seen, reqs

world == <<now, anchor, seen, reqs>>
vdVars == <<built, p, world>>

Ids == UNION {{c.claim_id} \cup c.reliance_root : c \in Held}
Categories == {c.category : c \in Held}
Issuers == {c.issuer_id : c \in Held}

Anchors ==
    [issuers : SUBSET Issuers, required : SUBSET Categories,
     accredited : SUBSET (Issuers \X Categories),
     revoked : SUBSET Ids, unresolvable : SUBSET Ids]

Failed == FailedChecks(p, Audience, now, anchor, seen, reqs)

-------------------------------------------------------------------------------
VdInit ==
    /\ built \in {BuildPresentation(Subject, Audience, n, 0, Ttl, s) : n \in Nonce, s \in Selections}
    /\ p = built
    /\ now = 0 /\ seen = FALSE /\ reqs = {}
    /\ anchor = [issuers |-> Issuers, required |-> {}, accredited |-> {},
                 revoked |-> {}, unresolvable |-> {}]

(* One place of a disclosed claim, or of the presentation, is not as built. *)
AlteredClaim(c) ==
    {[c EXCEPT !.fields = Restrict(@, keys)] : keys \in SUBSET DOMAIN c.fields}
        \cup {[c EXCEPT !.fields[k] = Garbage] : k \in DOMAIN c.fields}
        \cup {[c EXCEPT !.reliance = ids] : ids \in SUBSET c.reliance}
        \cup {[c EXCEPT !.reliance = ids, !.reliance_root = ids] : ids \in SUBSET c.reliance}
        \cup {[c EXCEPT !.until = OpenEnd], [c EXCEPT !.subject_id = Elsewhere]}

Altered(q) ==
    {[q EXCEPT !.audience = Elsewhere], [q EXCEPT !.expires_at = @ + 1],
     [q EXCEPT !.subject_id = Elsewhere], [q EXCEPT !.claims = SubSeq(@, 2, Len(@))]}
        \cup {[q EXCEPT !.nonce = n] : n \in Nonce}
        \cup UNION {{[q EXCEPT !.claims[i] = c] : c \in AlteredClaim(q.claims[i])} :
                        i \in DOMAIN q.claims}

Alter ==
    /\ p = built
    /\ p' \in Altered(built)
    /\ UNCHANGED <<built, world>>

Tick == now < MaxNow /\ now' = now + 1 /\ UNCHANGED <<built, p, anchor, seen, reqs>>

Consume == seen' = TRUE /\ UNCHANGED <<built, p, now, anchor, reqs>>

Ask(req) == reqs' = reqs \cup {req} /\ UNCHANGED <<built, p, now, anchor, seen>>

Learn(a) == anchor' = a /\ UNCHANGED <<built, p, now, seen, reqs>>

Revoke(id) == Learn([anchor EXCEPT !.revoked = @ \cup {id}])

LoseTrack(id) == Learn([anchor EXCEPT !.unresolvable = @ \cup {id}])

Resolve(id) == Learn([anchor EXCEPT !.unresolvable = @ \ {id}])

Forget(i) == Learn([anchor EXCEPT !.issuers = @ \ {i}])

Require(c) == Learn([anchor EXCEPT !.required = @ \cup {c}])

Accredit(i, c) == Learn([anchor EXCEPT !.accredited = @ \cup {<<i, c>>}])

Changes ==
    now + Cardinality(reqs)
        + Cardinality(anchor.revoked) + Cardinality(anchor.unresolvable)
        + Cardinality(anchor.required) + Cardinality(anchor.accredited)
        + Cardinality(Issuers \ anchor.issuers)
        + (IF seen THEN 1 ELSE 0) + (IF p # built THEN 1 ELSE 0)

Move ==
    \/ Alter \/ Tick \/ Consume
    \/ \E req \in Requests : Ask(req)
    \/ \E id \in Ids : Revoke(id) \/ LoseTrack(id) \/ Resolve(id)
    \/ \E i \in Issuers : Forget(i)
    \/ \E c \in Categories : Require(c)
    \/ \E i \in Issuers, c \in Categories : Accredit(i, c)

VdNext == Move /\ Changes' <= MaxChanges

VdSpec == VdInit /\ [][VdNext]_vdVars

-------------------------------------------------------------------------------
(* Properties. *)

VdTypeOK ==
    /\ now \in 0..MaxNow /\ seen \in BOOLEAN /\ reqs \subseteq Requests
    /\ anchor \in Anchors
    /\ built.issued_at = 0 /\ built.expires_at = Ttl
    /\ \A c \in Range(built.claims) : c.reliance = c.reliance_root

(* What the verifier accepts is what the wallet signed and the issuers       *)
(* attested, down to every revealed value and every relied-on claim; only    *)
(* fewer fields may be revealed than the wallet chose to (the subject's      *)
(* signature covers claim ids, presentation.rs:435-437).                     *)
AcceptedAsSigned ==
    Accepts(Failed) =>
        /\ [p EXCEPT !.claims = built.claims] = built
        /\ DOMAIN p.claims = DOMAIN built.claims
        /\ \A i \in DOMAIN p.claims :
              /\ DOMAIN p.claims[i].fields \subseteq DOMAIN built.claims[i].fields
              /\ p.claims[i] = Disclose(built.claims[i], DOMAIN p.claims[i].fields)

Resolved(a) == [a EXCEPT !.unresolvable = {}]

(* Amber means exactly "would be accepted if the statuses that cannot be     *)
(* resolved turned out Live"; a predicate over such a claim forgoes amber    *)
(* (presentation.rs:144-146, DEPENDENCY-TRUST.md:220-246).                   *)
AmberIsRecoverable ==
    LET recoverable == Accepts(FailedChecks(p, Audience, now, Resolved(anchor), seen, reqs))
    IN  /\ IsAmber(Failed) => recoverable
        /\ reqs = {} /\ recoverable => IsAmber(Failed) \/ Accepts(Failed)

(* A predicate is settled by what an issuer attested in a claim of this      *)
(* subject that stands on its own: in its window, not revoked, and relying   *)
(* only on claims known to be live.  A withdrawn basis is never laundered    *)
(* through the claim that relies on it (DEPENDENCY-TRUST.md:115-116).        *)
NoLaundering ==
    Accepts(Failed) =>
        \A req \in reqs : \E c \in Held :
            /\ c.claim_id \in {d.claim_id : d \in Range(p.claims)}
            /\ c.category = req.category /\ c.subject_id = Subject
            /\ req.scale_version \in {AnyScale, c.schema_id}
            /\ Holds(req.op, c.body_root[req.field], req.bound)
            /\ WithinValidity(c, now) /\ AccreditedOk(c, anchor)
            /\ \A id \in {c.claim_id} \cup c.reliance_root : id \notin anchor.revoked
            /\ c.reliance_root \cap anchor.unresolvable = {}

Grade(failed) == IF Accepts(failed) THEN 2 ELSE IF IsAmber(failed) THEN 1 ELSE 0

NothingGained ==
    /\ now' = now /\ (seen => seen') /\ reqs \subseteq reqs'
    /\ anchor'.issuers \subseteq anchor.issuers
    /\ anchor.required \subseteq anchor'.required
    /\ anchor'.accredited \subseteq anchor.accredited
    /\ anchor.revoked \subseteq anchor'.revoked
    /\ anchor.unresolvable \subseteq anchor'.unresolvable

(* Asking for more, trusting less, knowing less and altering what was signed *)
(* never improve a verdict: not from red to amber, not from amber to         *)
(* accepted ("a predicate can only narrow acceptance", presentation.rs:172). *)
NarrowingNeverOpens == [][NothingGained => Grade(Failed)' <= Grade(Failed)]_vdVars
===============================================================================
