-------------------------------- MODULE Wallet --------------------------------
(****************************************************************************)
(* A wallet of aion-trust-wallet/src/lib.rs in memory: claims are added, in *)
(* any order, foreign ones and doubles included, and it answers calls with  *)
(* presentations or refusals.  What the last call came to is looked at by a *)
(* verifier at every time.                                                  *)
(*                                                                          *)
(* Loading and saving are in WalletFile.                                    *)
(****************************************************************************)
EXTENDS Presenting

CONSTANTS
    Me, Reader,      \* the wallet's did and the verifier's
    Claim,           \* the claims it may be given
    SelectionLists,  \* what `present` may be called with
    RequestLists,    \* what `satisfy` may be called with
    Clock,           \* the times a call may be made at
    Lifetimes,       \* the lifetimes it may ask for, negative ones included
    Anchor,          \* what verifiers may trust and know
    FreshNonce,      \* the nonce drawn; that it is new is NonceStore's matter
    MaxClaims        \* bound on the claims held

(* Claims are as issuers sign them, an id names one of them, and a nonce is  *)
(* drawn of full length.  To select every field is no set of keys.           *)
ASSUME WalletAssumption ==
    /\ MinSecond \in Int /\ MaxSecond \in Int /\ MinSecond <= 0 /\ 0 <= MaxSecond
    /\ Clock \subseteq 0..MaxSecond /\ Lifetimes \subseteq MinSecond..MaxSecond
    /\ FreshNonce \notin ShortNonce
    /\ \A c \in Claim : AsIssued(c)
    /\ \A c, d \in Claim : c.claim_id = d.claim_id => c = d
    /\ \A sel \in SelectionLists : sel \in Seq(Range(sel))
    /\ \A reqs \in RequestLists :
          /\ reqs \in Seq(Range(reqs))
          /\ \A req \in Range(reqs) :
                /\ DOMAIN req = {"category", "field", "op", "bound", "scale_version"}
                /\ {req.field} # AllFields

VARIABLES
    claims,  \* the claims held
    deed     \* the last call: what it asked and what came of it

wlVars == <<claims, deed>>

Deed(call, asked, at, ttl, outcome) ==
    [call |-> call, asked |-> asked, at |-> at, ttl |-> ttl,
     refused |-> outcome.refused,
     built |-> BuildFor(Me, Reader, FreshNonce, at, ttl, outcome.disclosed)]

Idle == Deed("none", <<>>, 0, 0, Refuse("none yet"))

-------------------------------------------------------------------------------
WlInit == claims = <<>> /\ deed = Idle

Add(c) ==
    /\ deed = Idle /\ Len(claims) < MaxClaims
    /\ claims' = Append(claims, c)
    /\ UNCHANGED deed

Call(name, asked, outcome) ==
    /\ deed = Idle
    /\ \E at \in Clock, ttl \in Lifetimes : deed' = Deed(name, asked, at, ttl, outcome)
    /\ UNCHANGED claims

(* What came of the call is handed over; the wallet keeps no trace of it. *)
HandOver == deed # Idle /\ deed' = Idle /\ UNCHANGED claims

WlNext ==
    \/ \E c \in Claim : Add(c)
    \/ \E sel \in SelectionLists : Call("present", sel, Present(claims, sel))
    \/ \E ids \in {[i \in DOMAIN sel |-> sel[i].claim_id] : sel \in SelectionLists} :
          Call("present_all", ids, PresentAll(claims, ids))
    \/ \E reqs \in RequestLists : Call("satisfy", reqs, Satisfy(claims, reqs))
    \/ HandOver

WlSpec == WlInit /\ [][WlNext]_wlVars

-------------------------------------------------------------------------------
(* Properties. *)

Built == deed.call # "none" /\ deed.refused = NONE

Verdicts(anchor, t, reqs) == FailedChecks(deed.built, Reader, t, anchor, FALSE, reqs)

(* A presentation is in its window exactly for the lifetime that was asked   *)
(* for, counted without any bound: an end that saturates is one no clock can *)
(* pass, and a negative lifetime is over before it begins, not a long one    *)
(* (time.rs:21-24, presentation.rs:204).                                     *)
WindowIsLifetime ==
    Built => \A anchor \in Anchor, t \in 0..MaxSecond :
        "unexpired" \notin Verdicts(anchor, t, {}) <=> t - deed.at \in 0..deed.ttl

(* Nothing stands against the claim: what issuers and registry say of it. *)
Sound(c, anchor, t) ==
    /\ c.subject_id = Me /\ c.issuer_id \in anchor.issuers
    /\ c.from <= t /\ (c.until = OpenEnd \/ t <= c.until)
    /\ c.category \in anchor.required => <<c.issuer_id, c.category>> \in anchor.accredited
    /\ ({c.claim_id} \cup c.reliance_root) \cap anchor.revoked = {}
    /\ c.reliance_root \cap anchor.unresolvable = {}

Shown == {c \in Range(claims) : \E d \in Range(deed.built.claims) : d.claim_id = c.claim_id}

(* What a wallet builds of its subject's sound claims is accepted: whatever  *)
(* was selected, added twice or left out, no check of the verifier fails a   *)
(* presentation for anything but its window or an unsound claim in it, and   *)
(* one unsound claim, a stranger's included, costs the whole.                *)
AcceptedIfSound ==
    Built /\ deed.built.claims # <<>> =>
        \A anchor \in Anchor, t \in 0..MaxSecond :
            t - deed.at \in 0..deed.ttl =>
                (Accepts(Verdicts(anchor, t, {})) <=> \A c \in Shown : Sound(c, anchor, t))

(* The wallet's comparison and the verifier's agree: if every claim that     *)
(* could answer a request is sound, and of the scale asked for, the verifier *)
(* who asked takes what is built.  (The wallet takes the first claim that    *)
(* answers; an unsound one hides a sound one behind it, lib.rs:208-217.)     *)
AnswersAreTaken ==
    Built /\ deed.call = "satisfy" /\ deed.asked # <<>> =>
        \A anchor \in Anchor, t \in 0..MaxSecond :
            /\ t - deed.at \in 0..deed.ttl
            /\ \A req \in Range(deed.asked), c \in Range(claims) :
                  Settles([req EXCEPT !.scale_version = AnyScale], Disclose(c, DOMAIN c.body_root))
                      => Sound(c, anchor, t) /\ req.scale_version \in {AnyScale, c.schema_id}
            => Accepts(Verdicts(anchor, t, Range(deed.asked)))

(* A wallet shows what it was asked for, one claim for each thing asked, and *)
(* nothing besides: the selected fields of the selected claim, or the one    *)
(* field of a request; a call that is wrong in any place shows nothing, and  *)
(* only an empty list of selections means everything (lib.rs:110-154,        *)
(* 163-244).                                                                 *)
ShowsWhatWasAsked ==
    Built /\ (deed.asked # <<>> \/ deed.call = "satisfy") =>
        /\ DOMAIN deed.built.claims = DOMAIN deed.asked
        /\ \A i \in DOMAIN deed.asked :
              LET d == deed.built.claims[i]
                  ask == deed.asked[i]
              IN  CASE deed.call = "present_all" -> d.claim_id = ask
                    [] deed.call = "present" ->
                          d.claim_id = ask.claim_id /\ ask.keys \in {AllFields, DOMAIN d.fields}
                    [] deed.call = "satisfy" ->
                          d.category = ask.category /\ DOMAIN d.fields = {ask.field}
===============================================================================
