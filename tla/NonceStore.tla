------------------------------ MODULE NonceStore ------------------------------
(****************************************************************************)
(* The verifier's single-use memory (aion-trust-claims/src/nonce.rs):       *)
(* InMemoryNonceStore and verify_presentation_with_store.                   *)
(*                                                                          *)
(* A presentation, once built, may reach any verifier at any time and any   *)
(* number of times: it is never removed from Presentation, so delivery is   *)
(* delayed, repeated, misdirected or never happens.  The verdict depends on *)
(* checks this module does not look into (signatures, issuers, revocation,  *)
(* predicates: PresentationChecks); here their outcome is `rest`, any       *)
(* Boolean.  `now` is the honest monotonic clock the source asks for        *)
(* (nonce.rs:16), capped at MaxNow.                                         *)
(*                                                                          *)
(* The store is keyed by the nonce's text, while the subject signs the      *)
(* bytes that the text decodes to (decode_nonce, presentation.rs:185, 231). *)
(* from_hex takes letters of either case (encoding.rs:24-29), so one signed *)
(* nonce has several texts: the one that wallets write (to_hex, lower case) *)
(* and others a copy may arrive with, its signature intact.  A text is here *)
(* its bytes and the case of its letters.                                   *)
(****************************************************************************)
EXTENDS Integers, Sequences, Functions

CONSTANTS
    Verifier,       \* the verifying processes
    AudienceOf,     \* AudienceOf[v]: the did verifier v answers to
    StoreOf,        \* StoreOf[v]: the store verifier v was given
    Presentation,   \* what may arrive: audience, nonce, issued_at, expires_at
    Did, Nonce,     \* audiences and nonce texts
    MaxNow          \* bound on the clock

ASSUME NonceStoreAssumption ==
    /\ AudienceOf \in [Verifier -> Did]
    /\ MaxNow \in Int
    /\ \A p \in Presentation : /\ p.audience \in Did /\ p.nonce \in Nonce
                               /\ p.nonce = [bytes |-> p.nonce.bytes, letters |-> p.nonce.letters]
                               /\ p.issued_at \in Int /\ p.expires_at \in Int

VARIABLES
    now,
    seen,    \* seen[s]: (audience, nonce) |-> expires_at, for the store s
    log      \* history: acceptances in order, [verifier, presentation, at]

nsVars == <<now, seen, log>>

Stores == {StoreOf[v] : v \in Verifier}
Key == Did \X Nonce
Acceptance == [verifier : Verifier, presentation : Presentation, at : Int]

TypeOK ==
    /\ now \in Int
    /\ DOMAIN seen = Stores
    /\ \A s \in Stores : /\ DOMAIN seen[s] \subseteq Key
                         /\ \A k \in DOMAIN seen[s] : seen[s][k] \in Int
    /\ log \in Seq(Acceptance)

NSInit ==
    /\ now = 0
    /\ seen = [s \in Stores |-> [k \in {} |-> 0]]
    /\ log = <<>>

-------------------------------------------------------------------------------
(* Nonces. *)

DecodeNonce(text) == text.bytes

ToHex(bytes) == [bytes |-> bytes, letters |-> "lower"]

(* What p answers, as its subject signed it: pres_signing_bytes covers the  *)
(* audience and the decoded nonce.                                          *)
SignedChallenge(p) == <<p.audience, DecodeNonce(p.nonce)>>

SameChallenge(p, q) == SignedChallenge(p) = SignedChallenge(q)

AsWritten(p) == p.nonce = ToHex(DecodeNonce(p.nonce))

-------------------------------------------------------------------------------
(* The store: seen, record and evict_expired. *)

KeyOf(v, p) == <<AudienceOf[v], p.nonce>>

AlreadySeen(v, p) == KeyOf(v, p) \in DOMAIN seen[StoreOf[v]]

Insert(f, k, x) == [j \in DOMAIN f \cup {k} |-> IF j = k THEN x ELSE f[j]]

(* Mutant of Record: the entry remembers when the presentation was built. *)
RecordIssuedAt(v, p) == [seen EXCEPT ![StoreOf[v]] = Insert(@, KeyOf(v, p), p.issued_at)]

Record(v, p) == [seen EXCEPT ![StoreOf[v]] = Insert(@, KeyOf(v, p), p.expires_at)]

(* Mutant of Retained: eviction at the boundary the expiry check accepts. *)
RetainedStrictly(f, t) == {k \in DOMAIN f : t < f[k]}

Retained(f, t) == {k \in DOMAIN f : t <= f[k]}

EvictExpired(s) ==
    /\ seen' = [seen EXCEPT ![s] = Restrict(@, Retained(@, now))]
    /\ UNCHANGED <<now, log>>

-------------------------------------------------------------------------------
(* The checks that bind a presentation to this verifier, now, once. *)

(* Mutants of Bound: the freshness check, or the expiry check, is gone. *)
BoundNotFresh(v, p) ==
    /\ p.audience = AudienceOf[v]
    /\ p.issued_at <= now /\ now <= p.expires_at

BoundNoExpiry(v, p) ==
    /\ p.audience = AudienceOf[v]
    /\ p.issued_at <= now
    /\ ~AlreadySeen(v, p)

Bound(v, p) ==
    /\ p.audience = AudienceOf[v]
    /\ p.issued_at <= now /\ now <= p.expires_at
    /\ ~AlreadySeen(v, p)

Accepting(v, p) == [verifier |-> v, presentation |-> p, at |-> now]

(* Mutant of VerifyWithStore: the nonce is recorded whatever the verdict. *)
RecordAlways(v, p, accepted) ==
    /\ seen' = Record(v, p)
    /\ log' = IF accepted THEN Append(log, Accepting(v, p)) ELSE log
    /\ UNCHANGED now

(* Read the store, verify, and record the nonce only on acceptance: one    *)
(* step, since the store is borrowed mutably for the whole call.  A report *)
(* that is not accepted, and a decoding error, leave the store alone.      *)
VerifyWithStore(v, p, accepted) ==
    /\ IF accepted
       THEN seen' = Record(v, p) /\ log' = Append(log, Accepting(v, p))
       ELSE UNCHANGED <<seen, log>>
    /\ UNCHANGED now

Tick == now < MaxNow /\ now' = now + 1 /\ UNCHANGED <<seen, log>>

NSNext ==
    \/ \E v \in Verifier, p \in Presentation, rest \in BOOLEAN :
            VerifyWithStore(v, p, Bound(v, p) /\ rest)
    \/ \E s \in Stores : EvictExpired(s)
    \/ Tick

NSSpec == NSInit /\ [][NSNext]_nsVars

-------------------------------------------------------------------------------
(* Properties. *)

SamePool(d, e) == StoreOf[d.verifier] = StoreOf[e.verifier]

(* A presentation, letter for letter, is accepted at most once by all the    *)
(* verifiers that share a store, however often it is delivered and whenever  *)
(* the store is evicted (nonce.rs:60-63: forgetting an expired nonce reopens *)
(* no replay window).                                                        *)
AtMostOnce ==
    \A i, j \in DOMAIN log :
        /\ i # j /\ SamePool(log[i], log[j])
        => log[i].presentation # log[j].presentation

(* "A nonce is the verifier's freshness challenge, so uniqueness need only   *)
(* hold within the audience that would reject the replay" (nonce.rs:24-27):  *)
(* a challenge that a subject signed is not answered a second time while the *)
(* first answer could still be used.                                         *)
ChallengeAnsweredOnce ==
    \A i, j \in DOMAIN log :
        /\ i < j /\ SamePool(log[i], log[j])
        /\ SameChallenge(log[i].presentation, log[j].presentation)
        => log[i].presentation.expires_at < log[j].at

(* What remains of it: only an answer whose nonce is spelled otherwise is    *)
(* accepted again, so at most one of those that arrive as they were written; *)
(* not even by two verifiers of one store (nonce.rs:72, 95).                 *)
NonceNotReused ==
    \A i, j \in DOMAIN log :
        /\ i < j /\ SamePool(log[i], log[j])
        /\ SameChallenge(log[i].presentation, log[j].presentation)
        => \/ log[i].presentation.expires_at < log[j].at
           \/ log[i].presentation.nonce # log[j].presentation.nonce

(* As long as an accepted presentation could still be replayed, its nonce is *)
(* remembered, with the expiry that eviction will compare.                   *)
RemembersUnexpired ==
    \A i \in DOMAIN log :
        LET v == log[i].verifier
            p == log[i].presentation
        IN  now <= p.expires_at =>
                AlreadySeen(v, p) /\ seen[StoreOf[v]][KeyOf(v, p)] = p.expires_at

(* Once a challenge has been answered to the satisfaction of one verifier,   *)
(* no verifier of its store can report another answer to it green or amber   *)
(* while the first could still be shown, not even a lenient one that lets    *)
(* amber through and never consumes a nonce itself (presentation.rs:134-136, *)
(* nonce.rs:98-100), unless that answer spells the nonce otherwise.          *)
SpentIsRed ==
    \A i \in DOMAIN log, v \in Verifier, p \in Presentation :
        /\ StoreOf[v] = StoreOf[log[i].verifier]
        /\ SameChallenge(p, log[i].presentation)
        /\ now <= log[i].presentation.expires_at
        /\ Bound(v, p)
        => p.nonce # log[i].presentation.nonce

(* Every remembered nonce was consumed by an accepted presentation of that   *)
(* audience: a rejected one never burns a nonce (nonce.rs:83-84), and the    *)
(* same nonce at another audience of the store is not affected.              *)
OnlyAcceptedBurns ==
    \A s \in Stores : \A k \in DOMAIN seen[s] :
        \E i \in DOMAIN log :
            /\ StoreOf[log[i].verifier] = s
            /\ k = <<log[i].presentation.audience, log[i].presentation.nonce>>

(* An acceptance, as the abstract promise sees it: which pool, which signed  *)
(* challenge, in which window and when.                                      *)
Answer(e) ==
    [pool |-> StoreOf[e.verifier], challenge |-> SignedChallenge(e.presentation),
     from |-> e.presentation.issued_at, until |-> e.presentation.expires_at, at |-> e.at]

AnswersAsWritten == [i \in {i \in DOMAIN log : AsWritten(log[i].presentation)} |-> Answer(log[i])]

(* The table of consumed nonces implements the promise of SingleUse for the  *)
(* challenges that subjects signed, among the presentations that arrive as   *)
(* wallets write them, whatever else is accepted in between (nonce.rs:1-9).  *)
Abs == INSTANCE SingleUse WITH accepted <- AnswersAsWritten
ImplementsSingleUse == Abs!Spec
===============================================================================
