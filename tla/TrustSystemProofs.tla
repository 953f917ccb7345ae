---------------------------- MODULE TrustSystemProofs ---------------------------
(****************************************************************************)
(* What the whole path of a claim guarantees, for every set of subjects,    *)
(* issuers, verifiers, claims, policies, records and bounds.                *)
(*                                                                          *)
(* The invariant has a part for each party.  The holders' part says that    *)
(* whatever travels is a disclosure of claims its subject holds, which      *)
(* issuers signed.  The federation's part adds to the registry's types that *)
(* no revocation lies ahead of the epoch, so that to be listed is to be     *)
(* revoked now.  A report without failures then speaks, through the anchor, *)
(* of the federation as it is at that very step.                            *)
(****************************************************************************)
EXTENDS TrustSystem, PresentingProofs, FiniteSetTheorems

(* What a sequence holds after an append. *)
LEMMA AppendRange ==
  ASSUME NEW T, NEW s \in Seq(T), NEW e
  PROVE  /\ Len(Append(s, e)) > Len(s) /\ Append(s, e)[Len(Append(s, e))] = e
         /\ \A x : x \in Range(Append(s, e)) <=> x \in Range(s) \/ x = e
  <1> DEFINE t == Append(s, e)
             n == Len(s)
  <1>1. s \in Seq(T \cup {e})
    OBVIOUS
  <1>2. /\ n \in Nat /\ DOMAIN s = 1..n
        /\ Len(t) = n + 1 /\ DOMAIN t = 1..n + 1
        /\ \A i \in 1..n : t[i] = s[i]
        /\ t[n + 1] = e
    BY <1>1
  <1> HIDE DEF t, n
  <1>3. ASSUME NEW x \in Range(t) PROVE x \in Range(s) \/ x = e
    BY <1>2 DEF Range
  <1>4. ASSUME NEW x \in Range(s) PROVE x \in Range(t)
    <2>1. PICK i \in 1..n : x = s[i]
      BY <1>2 DEF Range
    <2>2. i \in DOMAIN t /\ t[i] = x
      BY <1>2, <2>1
    <2>3. QED
      BY <2>2 DEF Range
  <1>5. e \in Range(t)
    <2>1. n + 1 \in DOMAIN t
      BY <1>2
    <2>2. QED
      BY <1>2, <2>1 DEF Range
  <1>6. n < n + 1
    BY <1>2
  <1>7. QED
    BY <1>2, <1>3, <1>4, <1>5, <1>6 DEF t, n

-------------------------------------------------------------------------------
(* The inductive invariant, party by party. *)

HeldBy(s, c) ==
    \E d \in Range(wallet[s]) : c.claim_id = d.claim_id /\ c = Disclose(d, DOMAIN c.fields)

HoldersOK ==
    /\ issued \subseteq Claim
    /\ wallet \in [Subject -> Seq(issued)]
    /\ \A p \in net : p.subject_id \in Subject /\ p.nonce \in Nonce
    /\ \A p \in net : \A c \in Range(p.claims) : HeldBy(p.subject_id, c)
    /\ \A p, q \in net : p.nonce = q.nonce => p = q

(* What never changes, and that no revocation lies ahead. *)
FederationOK ==
    /\ R!RegTypeOK
    /\ issuer_keys = Issuer /\ accreditor_keys = Accreditor /\ policy = Policy
    /\ \A id \in DOMAIN revoked : revoked[id] <= epoch

Acceptances == [verifier : Verifier, presentation : net, at : 0..MaxNow]

VerifiersOK ==
    /\ now \in 0..MaxNow
    /\ DOMAIN seen = NS!Stores
    /\ \A s \in NS!Stores : DOMAIN seen[s] \subseteq Did \X Nonce
    /\ log \in Seq(Acceptances)

TSInv == HoldersOK /\ FederationOK /\ VerifiersOK /\ AcceptedSpeaksForPresenter

LEMMA TypesOfInv == TSInv => TSTypeOK
  <1> SUFFICES ASSUME TSInv PROVE TSTypeOK
    OBVIOUS
  <1>1. \A s \in Subject : Range(wallet[s]) \subseteq issued
    BY DEF TSInv, HoldersOK, Range
  <1>2. \A e \in Range(log) : e.verifier \in Verifier /\ e.presentation \in net
    <2>1. log \in Seq(Acceptances)
      BY DEF TSInv, VerifiersOK
    <2>2. ASSUME NEW e \in Range(log) PROVE e \in Acceptances
      BY <2>1 DEF Range
    <2>3. QED
      BY <2>2 DEF Acceptances
  <1>3. QED
    BY <1>1, <1>2 DEF TSInv, HoldersOK, HeldBy, FederationOK, VerifiersOK, TSTypeOK

LEMMA TSInvInit == TSInit => TSInv
  <1> SUFFICES ASSUME TSInit PROVE TSInv
    OBVIOUS
  <1>1. now = 0 /\ seen = [s \in NS!Stores |-> [k \in {} |-> 0]] /\ log = <<>>
    BY DEF TSInit, NS!NSInit
  <1>2. HoldersOK
    BY DEF TSInit, HoldersOK
  <1>3. R!RegTypeOK
    <2>1. /\ issuer_keys = Issuer /\ accreditor_keys = Accreditor /\ accreditations = {}
          /\ policy = Policy /\ revoked = [id \in {} |-> 0] /\ epoch = 0
      BY DEF TSInit
    <2>2. DOMAIN policy \subseteq Category /\ \A c \in DOMAIN policy : policy[c] \in Range(Policy)
      BY <2>1, TrustAssumption DEF Range
    <2>3. epoch \in R!Epoch
      BY <2>1, TrustAssumption DEF R!Epoch
    <2>4. QED
      BY <2>1, <2>2, <2>3 DEF R!RegTypeOK, R!NoDraft
  <1>4. FederationOK
    BY <1>3 DEF TSInit, FederationOK
  <1>5. VerifiersOK
    <2>1. log \in Seq(Acceptances)
      BY <1>1
    <2>2. QED
      BY <1>1, <2>1, TrustAssumption DEF VerifiersOK
  <1>6. AcceptedSpeaksForPresenter
    BY <1>1 DEF AcceptedSpeaksForPresenter, Range
  <1>7. QED
    BY <1>2, <1>4, <1>5, <1>6 DEF TSInv
-------------------------------------------------------------------------------
(* The holders' steps. *)

(* A step that leaves the federation and the verifiers alone, and takes no   *)
(* claim or presentation away, keeps their parts.                            *)
LEMMA HoldersStep ==
  ASSUME TSInv, HoldersOK', UNCHANGED <<federation, verifiers>>,
         issued \subseteq issued', net \subseteq net'
  PROVE  TSInv'
  <1>1. FederationOK'
    BY DEF TSInv, FederationOK, federation, R!RegTypeOK
  <1>2. VerifiersOK'
    <2>1. Acceptances \subseteq Acceptances'
      BY DEF Acceptances
    <2>2. log \in Seq(Acceptances)
      BY DEF TSInv, VerifiersOK
    <2>3. log \in Seq(Acceptances')
      BY <2>1, <2>2
    <2>4. QED
      BY <2>3 DEF TSInv, VerifiersOK, verifiers
  <1>3. AcceptedSpeaksForPresenter'
    BY DEF TSInv, AcceptedSpeaksForPresenter, verifiers, federation
  <1>4. QED
    BY <1>1, <1>2, <1>3 DEF TSInv

LEMMA IssueInv == ASSUME TSInv, NEW c \in Claim, Issue(c) PROVE TSInv'
  <1>1. \A s \in Subject : wallet[s] \in Seq(issued')
    BY DEF TSInv, HoldersOK, Issue
  <1>2. HoldersOK'
    BY <1>1 DEF TSInv, HoldersOK, HeldBy, Issue
  <1>3. QED
    BY <1>2, HoldersStep DEF Issue

(* What was held stays held. *)
LEMMA AddToWalletInv ==
  ASSUME TSInv, NEW s \in Subject, NEW c, AddToWallet(s, c) PROVE TSInv'
  <1>1. c \in issued /\ wallet' = [wallet EXCEPT ![s] = Append(@, c)] /\ issued' = issued /\ net' = net
    BY DEF AddToWallet
  <1>2. wallet \in [Subject -> Seq(issued)]
    BY DEF TSInv, HoldersOK
  <1>3. wallet' \in [Subject -> Seq(issued')]
    BY <1>1, <1>2
  <1>4. \A t \in Subject : Range(wallet[t]) \subseteq Range(wallet'[t])
    <2>1. wallet[s] \in Seq(issued)
      BY <1>2
    <2>2. Range(wallet[s]) \subseteq Range(Append(wallet[s], c))
      BY <2>1, AppendRange
    <2>3. QED
      BY <1>1, <1>2, <2>2
  <1>5. \A p \in net : \A d \in Range(p.claims) : HeldBy(p.subject_id, d)'
    BY <1>4 DEF TSInv, HoldersOK, HeldBy
  <1>6. HoldersOK'
    BY <1>1, <1>3, <1>5 DEF TSInv, HoldersOK
  <1>7. QED
    BY <1>6, HoldersStep DEF AddToWallet

(* What a call discloses is held, and its nonce is new. *)
LEMMA SendInv ==
  ASSUME TSInv, NEW s \in Subject, NEW audience, NEW U, NEW asked \in Seq(U),
         NEW held, held = wallet[s],
         NEW outcome, outcome = Present(held, asked) \/ outcome = Satisfy(held, asked),
         Send(s, audience, outcome)
  PROVE  TSInv'
  <1>1. PICK n \in FreshNonce :
            net' = net \cup {BuildFor(s, audience, n, now, Ttl, outcome.disclosed)}
    BY DEF Send
  <1> DEFINE p == BuildFor(s, audience, n, now, Ttl, outcome.disclosed)
  <1>2. p.subject_id = s /\ p.nonce = n /\ p.claims = outcome.disclosed
    <2> DEFINE until == PlusSeconds(now, Ttl)
    <2>1. p = BuildPresentation(s, audience, n, now, until, outcome.disclosed)
      BY DEF BuildFor
    <2> HIDE DEF p, until
    <2>2. QED
      BY <2>1, BuiltParts
  <1>3. outcome.refused = NONE /\ UNCHANGED <<issued, wallet, federation, verifiers>>
    BY DEF Send
  <1>4. issued \subseteq Claim /\ held \in Seq(issued)
    BY DEF TSInv, HoldersOK
  <1> HIDE DEF p
  <1>5. ASSUME NEW c \in Range(p.claims) PROVE HeldBy(s, c)
    <2>1. PICK d, keys : d \in Range(held) /\ c = Disclose(d, keys)
      <3> SUFFICES Shows(held, c)
        BY DEF Shows
      <3>1. c \in Range(outcome.disclosed)
        BY <1>2
      <3>2. outcome.refused = NONE /\ held \in Seq(issued) /\ asked \in Seq(U)
        BY <1>3, <1>4
      <3>3. QED
        BY <3>1, <3>2, ShownIsHeld
    <2>2. d \in Claim
      BY <1>4, <2>1 DEF Range
    <2>3. c.claim_id = d.claim_id /\ c = Disclose(d, DOMAIN c.fields)
      BY <2>1, <2>2, TrustAssumption, DisclosedParts
    <2>4. QED
      BY <2>1, <2>3 DEF HeldBy
  <1>6. n \in Nonce /\ \A q \in net : q.nonce # n
    BY DEF FreshNonce
  <1>7. net' = net \cup {p}
    BY <1>1 DEF p
  <1>8. \A t, c : HeldBy(t, c)' <=> HeldBy(t, c)
    BY <1>3 DEF HeldBy
  <1>9. \A q \in net' : q.subject_id \in Subject /\ q.nonce \in Nonce
    BY <1>2, <1>6, <1>7 DEF TSInv, HoldersOK
  <1>10. \A q \in net' : \A c \in Range(q.claims) : HeldBy(q.subject_id, c)'
    BY <1>2, <1>5, <1>7, <1>8 DEF TSInv, HoldersOK
  <1>11. \A q, r \in net' : q.nonce = r.nonce => q = r
    BY <1>2, <1>6, <1>7 DEF TSInv, HoldersOK
  <1>12. HoldersOK'
    BY <1>3, <1>9, <1>10, <1>11 DEF TSInv, HoldersOK
  <1>13. QED
    BY <1>3, <1>7, <1>12, HoldersStep

LEMMA SendSelectedInv ==
  ASSUME TSInv, NEW s \in Subject, NEW a, NEW sel \in Selection(s), SendSelected(s, a, sel)
  PROVE  TSInv'
  <1>1. \E U : sel \in Seq(U)
    <2>1. sel = <<>> \/ \E r : sel = <<r>>
      BY DEF Selection
    <2>2. CASE sel = <<>>
      BY <2>2
    <2>3. ASSUME NEW r, sel = <<r>> PROVE \E U : sel \in Seq(U)
      <3>1. sel \in Seq({r})
        BY <2>3
      <3>2. QED
        BY <3>1
    <2>4. QED
      BY <2>1, <2>2, <2>3
  <1>2. QED
    BY <1>1, SendInv DEF SendSelected

LEMMA SendAnswersInv ==
  ASSUME TSInv, NEW s \in Subject, NEW a, NEW req, SendAnswers(s, a, <<req>>)
  PROVE  TSInv'
  <1>1. <<req>> \in Seq({req})
    OBVIOUS
  <1>2. QED
    BY <1>1, SendInv DEF SendAnswers

-------------------------------------------------------------------------------
(* The federation's steps. *)

(* A step that leaves the holders and the verifiers alone keeps their parts. *)
LEMMA FederationStep ==
  ASSUME TSInv, FederationOK', UNCHANGED <<holders, verifiers>> PROVE TSInv'
  <1>1. HoldersOK'
    BY DEF TSInv, HoldersOK, HeldBy, holders
  <1>2. VerifiersOK'
    BY DEF TSInv, VerifiersOK, Acceptances, holders, verifiers
  <1>3. AcceptedSpeaksForPresenter'
    <2>1. issuer_keys' = issuer_keys
      BY DEF TSInv, FederationOK
    <2>2. QED
      BY <2>1 DEF TSInv, AcceptedSpeaksForPresenter, holders, verifiers
  <1>4. QED
    BY <1>1, <1>2, <1>3 DEF TSInv

LEMMA RevokeInv == ASSUME TSInv, NEW id \in ClaimId, Revoke(id) PROVE TSInv'
  <1>1. revoked' = R!Put(revoked, id, epoch)
        /\ UNCHANGED <<issuer_keys, accreditor_keys, accreditations, policy, epoch>>
    BY DEF Revoke, R!Revoke
  <1>2. /\ DOMAIN revoked' = DOMAIN revoked \cup {id}
        /\ revoked'[id] = epoch
        /\ \A x \in DOMAIN revoked \ {id} : revoked'[x] = revoked[x]
    BY <1>1 DEF R!Put
  <1>3. R!RegTypeOK /\ epoch \in Nat
    BY TrustAssumption DEF TSInv, FederationOK, R!RegTypeOK, R!Epoch
  <1>4. DOMAIN revoked' \subseteq ClaimId /\ \A x \in DOMAIN revoked' : revoked'[x] \in R!Epoch
    BY <1>2, <1>3 DEF R!RegTypeOK
  <1>5. \A x \in DOMAIN revoked' : revoked'[x] <= epoch'
    BY <1>1, <1>2, <1>3 DEF TSInv, FederationOK
  <1>6. FederationOK'
    BY <1>1, <1>3, <1>4, <1>5 DEF TSInv, FederationOK, R!RegTypeOK
  <1>7. QED
    BY <1>6, FederationStep DEF Revoke

(* The epoch moves away from every revocation. *)
LEMMA AdvanceEpochInv == ASSUME TSInv, AdvanceEpoch PROVE TSInv'
  <1>1. /\ epoch < MaxEpoch /\ epoch' = epoch + 1
        /\ UNCHANGED <<issuer_keys, accreditor_keys, accreditations, policy, revoked>>
    BY DEF AdvanceEpoch, R!SetEpoch
  <1>2. R!RegTypeOK
    BY DEF TSInv, FederationOK
  <1>3. epoch \in Nat /\ MaxEpoch \in Nat /\ \A x \in DOMAIN revoked : revoked[x] \in Nat
    BY <1>2, TrustAssumption DEF R!RegTypeOK, R!Epoch
  <1>4. epoch' \in R!Epoch
    BY <1>1, <1>3 DEF R!Epoch
  <1>5. \A x \in DOMAIN revoked' : revoked'[x] <= epoch'
    BY <1>1, <1>3 DEF TSInv, FederationOK
  <1>6. FederationOK'
    BY <1>1, <1>2, <1>4, <1>5 DEF TSInv, FederationOK, R!RegTypeOK
  <1>7. QED
    BY <1>6, FederationStep DEF AdvanceEpoch

LEMMA AddRecordInv == ASSUME TSInv, NEW a \in Records, AddRecord(a) PROVE TSInv'
  <1>1. accreditations' = accreditations \cup {a}
        /\ UNCHANGED <<issuer_keys, accreditor_keys, policy, revoked, epoch>>
    BY DEF AddRecord, R!AddRecord
  <1>2. a \in R!Record
    BY TrustAssumption
  <1>3. FederationOK'
    BY <1>1, <1>2 DEF TSInv, FederationOK, R!RegTypeOK
  <1>4. QED
    BY <1>3, FederationStep DEF AddRecord

-------------------------------------------------------------------------------
(* The verifiers' steps. *)

(* Issued claim d is what c discloses, and anchor a has nothing against it. *)
StandsFor(d, p, c, a) ==
    /\ d.claim_id = c.claim_id /\ d.subject_id = p.subject_id
    /\ d.issuer_id \in issuer_keys
    /\ \A k \in DOMAIN c.fields : c.fields[k] = d.body_root[k]
    /\ d.category \in a.required => <<d.issuer_id, d.category>> \in a.accredited
    /\ d.claim_id \notin a.revoked /\ d.reliance_root \cap a.revoked = {}

(* What a claim of an accepted presentation stands for: the one issued claim *)
(* with its id, as the anchor sees it at that step.                          *)
LEMMA AcceptedEvidence ==
  ASSUME TSInv, NEW v, NEW p \in net, NEW reqs, NEW b,
         FailedChecks(p, AudienceOf[v], now, AnchorOf(v), b, reqs) = {},
         NEW c \in Range(p.claims)
  PROVE  \E d \in issued : StandsFor(d, p, c, AnchorOf(v))
  <1> DEFINE a == AnchorOf(v)
  <1>1. a.issuers = issuer_keys
    BY DEF AnchorOf, RegistryAnchor, DirectoryAnchor
  <1> HIDE DEF a
  <1>2. ClaimFailures(c, p.subject_id, now, a) = {}
    <2>1. ClaimsPass(p, now, a)
      BY AcceptedParts DEF a
    <2>2. QED
      BY <2>1 DEF ClaimsPass
  <1>3. /\ c.subject_id = p.subject_id /\ c.issuer_id \in issuer_keys /\ Authentic(c)
        /\ AccreditedOk(c, a) /\ c.claim_id \notin a.revoked /\ c.reliance \cap a.revoked = {}
    BY <1>1, <1>2, SoundClaim
  <1>4. p.subject_id \in Subject /\ HeldBy(p.subject_id, c)
    BY DEF TSInv, HoldersOK
  <1>5. PICK d \in Range(wallet[p.subject_id]) : c = Disclose(d, DOMAIN c.fields)
    BY <1>4 DEF HeldBy
  <1>6. d \in issued /\ AsIssued(d)
    <2>1. wallet[p.subject_id] \in Seq(issued) /\ issued \subseteq Claim
      BY <1>4 DEF TSInv, HoldersOK
    <2>2. QED
      BY <1>5, <2>1, TrustAssumption DEF Range
  <1>7. /\ c.claim_id = d.claim_id /\ c.subject_id = d.subject_id /\ c.issuer_id = d.issuer_id
        /\ c.category = d.category /\ c.reliance = d.reliance_root
        /\ \A k \in DOMAIN c.fields : c.fields[k] = d.body_root[k]
    BY <1>5, <1>6, DisclosedParts
  <1>8. QED
    BY <1>3, <1>6, <1>7 DEF AccreditedOk, StandsFor, a

(* A step that leaves the holders and the federation alone, and logs nothing *)
(* new, keeps their parts.                                                   *)
LEMMA VerifiersStep ==
  ASSUME TSInv, VerifiersOK', UNCHANGED <<holders, federation, log>> PROVE TSInv'
  <1>1. HoldersOK'
    BY DEF TSInv, HoldersOK, HeldBy, holders
  <1>2. FederationOK'
    BY DEF TSInv, FederationOK, federation, R!RegTypeOK
  <1>3. AcceptedSpeaksForPresenter'
    BY DEF TSInv, AcceptedSpeaksForPresenter, holders, federation
  <1>4. QED
    BY <1>1, <1>2, <1>3 DEF TSInv

(* What a verifier's call does to the log. *)
LEMMA VerifyEffect ==
  ASSUME TSInv, NEW v \in Verifier, NEW p \in net, NEW reqs, Verify(v, p, reqs)
  PROVE  \/ UNCHANGED <<holders, federation, verifiers>>
         \/ /\ FailedChecks(p, AudienceOf[v], now, AnchorOf(v), NS!AlreadySeen(v, p), reqs) = {}
            /\ seen' = NS!Record(v, p) /\ log' = Append(log, NS!Accepting(v, p))
            /\ UNCHANGED <<holders, federation, now>>
  <1> DEFINE failed == FailedChecks(p, AudienceOf[v], now, AnchorOf(v), NS!AlreadySeen(v, p), reqs)
  <1>1. NS!VerifyWithStore(v, p, Accepts(failed)) /\ UNCHANGED <<holders, federation>>
    BY DEF Verify
  <1> HIDE DEF failed
  <1>2. CASE failed = {}
    BY <1>1, <1>2 DEF Accepts, NS!VerifyWithStore, failed
  <1>3. CASE failed # {}
    BY <1>1, <1>3 DEF Accepts, NS!VerifyWithStore, verifiers
  <1>4. QED
    BY <1>2, <1>3

LEMMA VerifyInv ==
  ASSUME TSInv, NEW v \in Verifier, NEW p \in net, NEW reqs, Verify(v, p, reqs) PROVE TSInv'
  <1>1. CASE UNCHANGED <<holders, federation, verifiers>>
    <2>1. VerifiersOK'
      BY <1>1 DEF TSInv, VerifiersOK, Acceptances, verifiers, holders
    <2>2. QED
      BY <1>1, <2>1, VerifiersStep DEF verifiers
  <1>2. ASSUME FailedChecks(p, AudienceOf[v], now, AnchorOf(v), NS!AlreadySeen(v, p), reqs) = {},
               seen' = NS!Record(v, p), log' = Append(log, NS!Accepting(v, p)),
               UNCHANGED <<holders, federation, now>>
        PROVE  TSInv'
    <2> DEFINE e == NS!Accepting(v, p)
               k == NS!KeyOf(v, p)
    <2>1. e \in Acceptances /\ e.presentation = p
      BY DEF NS!Accepting, Acceptances, TSInv, VerifiersOK
    <2>2. k \in Did \X Nonce
      BY TrustAssumption DEF NS!KeyOf, TSInv, HoldersOK
    <2>3. log \in Seq(Acceptances)
      BY DEF TSInv, VerifiersOK
    <2>4. \A x : x \in Range(log') <=> x \in Range(log) \/ x = e
      <3> HIDE DEF e
      <3>1. log' = Append(log, e)
        BY <1>2 DEF e
      <3>2. QED
        BY <2>3, <3>1, AppendRange
    <2>5. DOMAIN seen' = NS!Stores /\ \A s \in NS!Stores : DOMAIN seen'[s] \subseteq Did \X Nonce
      <3>1. seen' = [seen EXCEPT ![StoreOf[v]] = NS!Insert(@, k, p.expires_at)]
        BY <1>2 DEF NS!Record
      <3>2. DOMAIN NS!Insert(seen[StoreOf[v]], k, p.expires_at)
              = DOMAIN seen[StoreOf[v]] \cup {k}
        BY DEF NS!Insert
      <3>3. StoreOf[v] \in NS!Stores
        BY DEF NS!Stores
      <3> HIDE DEF k
      <3>4. QED
        BY <2>2, <3>1, <3>2, <3>3 DEF TSInv, VerifiersOK
    <2>6. Acceptances' = Acceptances
      BY <1>2 DEF Acceptances, holders
    <2>7. log' \in Seq(Acceptances')
      BY <1>2, <2>1, <2>3, <2>6
    <2>8. VerifiersOK'
      BY <1>2, <2>5, <2>7 DEF TSInv, VerifiersOK
    <2>9. HoldersOK' /\ FederationOK'
      BY <1>2 DEF TSInv, HoldersOK, HeldBy, holders, FederationOK, federation, R!RegTypeOK
    <2>10. AcceptedSpeaksForPresenter'
      <3> SUFFICES ASSUME NEW x \in Range(log'), NEW c \in Range(x.presentation.claims)
                   PROVE  \E d \in issued :
                             /\ d.claim_id = c.claim_id
                             /\ d.subject_id = x.presentation.subject_id
                             /\ d.issuer_id \in issuer_keys
                             /\ \A f \in DOMAIN c.fields : c.fields[f] = d.body_root[f]
        BY <1>2 DEF AcceptedSpeaksForPresenter, holders, federation
      <3>1. CASE x \in Range(log)
        BY <3>1 DEF TSInv, AcceptedSpeaksForPresenter
      <3>2. CASE x = e
        <4>1. x.presentation = p /\ c \in Range(p.claims)
          BY <2>1, <3>2
        <4> HIDE DEF e, k
        <4>2. PICK d \in issued : StandsFor(d, p, c, AnchorOf(v))
          BY <1>2, <4>1, AcceptedEvidence
        <4>3. QED
          BY <4>1, <4>2 DEF StandsFor
      <3>3. QED
        BY <2>4, <3>1, <3>2
    <2>11. QED
      BY <2>8, <2>9, <2>10 DEF TSInv
  <1>3. QED
    BY <1>1, <1>2, VerifyEffect

LEMMA EvictExpiredInv == ASSUME TSInv, NEW s \in NS!Stores, EvictExpired(s) PROVE TSInv'
  <1> DEFINE kept == NS!Retained(seen[s], now)
  <1>1. seen' = [seen EXCEPT ![s] = Restrict(@, kept)] /\ UNCHANGED <<holders, federation, now, log>>
    BY DEF EvictExpired, NS!EvictExpired, NS!Restrict, Restrict
  <1>2. DOMAIN Restrict(seen[s], kept) \subseteq DOMAIN seen[s]
    BY DEF Restrict, NS!Retained
  <1> HIDE DEF kept
  <1>3. VerifiersOK'
    BY <1>1, <1>2 DEF TSInv, VerifiersOK, Acceptances, holders
  <1>4. QED
    BY <1>1, <1>3, VerifiersStep

LEMMA TickInv == ASSUME TSInv, Tick PROVE TSInv'
  <1>1. now < MaxNow /\ now' = now + 1 /\ UNCHANGED <<holders, federation, seen, log>>
    BY DEF Tick, NS!Tick
  <1>2. now' \in 0..MaxNow
    BY <1>1, TrustAssumption DEF TSInv, VerifiersOK
  <1>3. VerifiersOK'
    BY <1>1, <1>2 DEF TSInv, VerifiersOK, Acceptances, holders
  <1>4. QED
    BY <1>1, <1>3, VerifiersStep

-------------------------------------------------------------------------------
LEMMA TSInvNext == TSInv /\ [TSNext]_tsVars => TSInv'
  <1> SUFFICES ASSUME TSInv, [TSNext]_tsVars PROVE TSInv'
    OBVIOUS
  <1>1. ASSUME NEW c \in Claim, Issue(c) PROVE TSInv'
    BY <1>1, IssueInv
  <1>2. ASSUME NEW s \in Subject, NEW c \in Claim, AddToWallet(s, c) PROVE TSInv'
    BY <1>2, AddToWalletInv
  <1>3. ASSUME NEW s \in Subject, NEW a \in Did, NEW sel \in Selection(s), SendSelected(s, a, sel)
        PROVE  TSInv'
    BY <1>3, SendSelectedInv
  <1>4. ASSUME NEW s \in Subject, NEW a \in Did, NEW reqs \in RequestSets, NEW req \in reqs,
               SendAnswers(s, a, <<req>>)
        PROVE  TSInv'
    BY <1>4, SendAnswersInv
  <1>5. ASSUME NEW id \in ClaimId, Revoke(id) PROVE TSInv'
    BY <1>5, RevokeInv
  <1>6. CASE AdvanceEpoch
    BY <1>6, AdvanceEpochInv
  <1>7. ASSUME NEW a \in Records, AddRecord(a) PROVE TSInv'
    BY <1>7, AddRecordInv
  <1>8. ASSUME NEW v \in Verifier, NEW p \in net, NEW reqs \in RequestSets, Verify(v, p, reqs)
        PROVE  TSInv'
    BY <1>8, VerifyInv
  <1>9. ASSUME NEW s \in NS!Stores, EvictExpired(s) PROVE TSInv'
    BY <1>9, EvictExpiredInv
  <1>10. CASE Tick
    BY <1>10, TickInv
  <1>11. CASE UNCHANGED tsVars
    <2>1. UNCHANGED <<holders, federation, verifiers>>
      BY <1>11 DEF tsVars
    <2>2. VerifiersOK'
      BY <2>1 DEF TSInv, VerifiersOK, Acceptances, verifiers, holders
    <2>3. QED
      BY <2>1, <2>2, VerifiersStep DEF verifiers
  <1>12. QED
    BY <1>1, <1>2, <1>3, <1>4, <1>5, <1>6, <1>7, <1>8, <1>9, <1>10, <1>11 DEF TSNext

(* The invariant: what issuers, wallets, registry, verifiers and the network *)
(* hold fits together at every step.                                         *)
THEOREM TSInvariant == TSSpec => []TSInv
  BY TSInvInit, TSInvNext, PTL DEF TSSpec

(* Wallets, presentations, registry and stores keep their types; what        *)
(* travels shows claims its subject holds; no two presentations share a      *)
(* nonce.                                                                    *)
THEOREM TSTypeCorrect == TSSpec => []TSTypeOK
  BY TSInvariant, TypesOfInv, PTL

(* Whatever anchor it uses, a verifier accepts only what issuers attested of *)
(* the presenter, unaltered (presentation.rs:262-411).                       *)
THEOREM AcceptedSpeaks == TSSpec => []AcceptedSpeaksForPresenter
  <1>1. TSInv => AcceptedSpeaksForPresenter
    BY DEF TSInv
  <1>2. QED
    BY TSInvariant, <1>1, PTL

-------------------------------------------------------------------------------
(* Acceptances and the federation. *)

(* The call that accepts. *)
LEMMA AcceptingStep ==
  ASSUME TSInv, [TSNext]_tsVars, NEW e, AcceptedNow(e)
  PROVE  \E v \in Verifier, p \in net, reqs \in RequestSets :
            /\ e.verifier = v /\ e.presentation = p
            /\ FailedChecks(p, AudienceOf[v], now, AnchorOf(v), NS!AlreadySeen(v, p), reqs) = {}
  <1>1. log' # log
    <2>1. log \in Seq(Acceptances)
      BY DEF TSInv, VerifiersOK
    <2>2. ~(Len(log) > Len(log))
      BY <2>1
    <2>3. QED
      BY <2>2 DEF AcceptedNow
  <1>2. PICK v \in Verifier, p \in net, reqs \in RequestSets : Verify(v, p, reqs)
    <2>1. ASSUME NEW c, Issue(c) PROVE UNCHANGED log
      BY <2>1 DEF Issue, verifiers
    <2>2. ASSUME NEW s, NEW c, AddToWallet(s, c) PROVE UNCHANGED log
      BY <2>2 DEF AddToWallet, verifiers
    <2>3. ASSUME NEW s, NEW a, NEW outcome, Send(s, a, outcome) PROVE UNCHANGED log
      BY <2>3 DEF Send, verifiers
    <2>4. ASSUME NEW id, Revoke(id) PROVE UNCHANGED log
      BY <2>4 DEF Revoke, verifiers
    <2>5. AdvanceEpoch => UNCHANGED log
      BY DEF AdvanceEpoch, verifiers
    <2>6. ASSUME NEW a, AddRecord(a) PROVE UNCHANGED log
      BY <2>6 DEF AddRecord, verifiers
    <2>7. ASSUME NEW s, EvictExpired(s) PROVE UNCHANGED log
      BY <2>7 DEF EvictExpired, NS!EvictExpired
    <2>8. Tick => UNCHANGED log
      BY DEF Tick, NS!Tick
    <2>9. UNCHANGED tsVars => UNCHANGED log
      BY DEF tsVars, verifiers
    <2>10. QED
      BY <1>1, <2>1, <2>2, <2>3, <2>4, <2>5, <2>6, <2>7, <2>8, <2>9
         DEF TSNext, SendSelected, SendAnswers
  <1>3. /\ FailedChecks(p, AudienceOf[v], now, AnchorOf(v), NS!AlreadySeen(v, p), reqs) = {}
        /\ log' = Append(log, NS!Accepting(v, p))
    BY <1>1, <1>2, VerifyEffect DEF verifiers
  <1>4. e = NS!Accepting(v, p)
    <2> DEFINE a == NS!Accepting(v, p)
    <2>1. log \in Seq(Acceptances) /\ log' = Append(log, a) /\ e = log'[Len(log')]
      BY <1>3 DEF TSInv, VerifiersOK, AcceptedNow
    <2> HIDE DEF a
    <2>2. e = a
      BY <2>1, AppendRange
    <2>3. QED
      BY <2>2 DEF a
  <1>5. e.verifier = v /\ e.presentation = p
    BY <1>4 DEF NS!Accepting
  <1>6. QED
    BY <1>3, <1>5

(* The issued claims behind an acceptance passed every check of the anchor:  *)
(* an id names one claim.                                                    *)
LEMMA EvidencePassed ==
  ASSUME TSInv, [TSNext]_tsVars, NEW e, AcceptedNow(e), NEW d \in Evidence(e)
  PROVE  \E c : StandsFor(d, e.presentation, c, AnchorOf(e.verifier))
  <1>1. PICK v \in Verifier, p \in net, reqs \in RequestSets :
            /\ e.verifier = v /\ e.presentation = p
            /\ FailedChecks(p, AudienceOf[v], now, AnchorOf(v), NS!AlreadySeen(v, p), reqs) = {}
    BY AcceptingStep
  <1>2. PICK c \in Range(p.claims) : c.claim_id = d.claim_id
    BY <1>1 DEF Evidence
  <1>3. PICK x \in issued : StandsFor(x, p, c, AnchorOf(v))
    BY <1>1, AcceptedEvidence
  <1>4. x = d
    BY <1>2, <1>3, TrustAssumption DEF StandsFor, Evidence, TSInv, HoldersOK
  <1>5. QED
    BY <1>1, <1>3, <1>4

(* A verifier on the registry never accepts evidence that was withdrawn, or  *)
(* that was issued in reliance on withdrawn evidence, however long ago and   *)
(* however late it is delivered (presentation.rs:379-411, lib.rs:169-180).   *)
THEOREM WithdrawnIsRefused == TSSpec => NoWithdrawnEvidence
  <1>1. ASSUME TSInv, [TSNext]_tsVars, NEW e, AcceptedNow(e), e.verifier \in UsesRegistry,
               NEW d \in Evidence(e)
        PROVE  ({d.claim_id} \cup d.reliance_root) \cap DOMAIN revoked = {}
    <2>1. PICK c : StandsFor(d, e.presentation, c, RegistryAnchor)
      BY <1>1, EvidencePassed DEF AnchorOf
    <2>2. DOMAIN revoked \subseteq RegistryAnchor.revoked
      BY <1>1 DEF RegistryAnchor, R!IsRevoked, TSInv, FederationOK, R!RegTypeOK
    <2>3. QED
      BY <2>1, <2>2 DEF StandsFor
  <1>2. TSInv /\ [TSNext]_tsVars =>
          [\A e \in Range(log') : AcceptedNow(e) /\ e.verifier \in UsesRegistry =>
              \A d \in Evidence(e) : ({d.claim_id} \cup d.reliance_root) \cap DOMAIN revoked = {}]_tsVars
    BY <1>1
  <1>3. QED
    BY TSInvariant, <1>2, PTL DEF TSSpec, NoWithdrawnEvidence

(* A standing of the registry has its quorum: what RegistryProofs shows of    *)
(* the registry alone, of its instance here.                                 *)
LEMMA QuorumHere ==
  ASSUME TSInv, NEW i \in Issuer, NEW c \in DOMAIN policy, R!Standing(i, c).accredited
  PROVE  Cardinality(R!Vouchers(i, c) \cap policy[c].accreditors \cap accreditor_keys)
            >= policy[c].k
  <1> DEFINE rule == policy[c]
             V == R!Vouchers(i, c) \cap rule.accreditors \cap accreditor_keys
             E(a) == {x \in rule.accreditors \cap accreditor_keys :
                         \E s \in Range(a.signatures) : s.accreditor = x /\ s.over = R!Content(a)}
  <1>1. rule.k \in Nat /\ IsFiniteSet(rule.accreditors)
    BY TrustAssumption DEF TSInv, FederationOK
  <1>2. PICK a \in accreditations :
            /\ a.issuer_id = i /\ a.category = c /\ R!ActiveAt(a, epoch)
            /\ R!ValidEndorsements(a, rule) >= rule.k
    BY DEF R!Standing, R!IsAccredited
  <1>3. R!ValidEndorsements(a, rule) = Cardinality(E(a))
    BY DEF R!ValidEndorsements, R!Cardinality, Cardinality, R!Range, Range
  <1>4. E(a) \subseteq V
    <2> SUFFICES ASSUME NEW x \in E(a) PROVE x \in V
      OBVIOUS
    <2>1. PICK s \in Range(a.signatures) : s.accreditor = x /\ s.over = R!Content(a)
      OBVIOUS
    <2>2. x \in rule.accreditors /\ x \in accreditor_keys /\ x \in Accreditor
      BY DEF TSInv, FederationOK
    <2>3. /\ s.over[1] = i /\ s.over[2] = c
          /\ s.over[3] = a.from_epoch /\ s.over[4] = a.until_epoch
      BY <1>2, <2>1 DEF R!Content
    <2>4. R!WindowHolds(s.over[3], s.over[4], epoch)
      BY <1>2, <2>3 DEF R!ActiveAt
    <2>5. x \in R!Vouchers(i, c)
      BY <2>1, <2>2, <2>3, <2>4 DEF R!Vouchers, R!Range, Range
    <2>6. QED
      BY <2>2, <2>5
  <1>5. IsFiniteSet(V)
    BY <1>1, FS_Subset
  <1>6. IsFiniteSet(E(a))
    BY <1>4, <1>5, FS_Subset
  <1>7. /\ Cardinality(E(a)) <= Cardinality(V)
        /\ Cardinality(V) \in Nat /\ Cardinality(E(a)) \in Nat
    BY <1>4, <1>5, <1>6, FS_Subset, FS_CardinalityType
  <1>8. QED
    BY <1>1, <1>2, <1>3, <1>7

(* A verifier on the registry accepts only evidence whose issuer has, at     *)
(* this very epoch, the quorum that the federation requires for its category *)
(* (presentation.rs:379-411, lib.rs:182-214).                                *)
THEOREM AcceptedHasQuorum == TSSpec => AcceptedIsAuthoritative
  <1>1. ASSUME TSInv, [TSNext]_tsVars, NEW e, AcceptedNow(e), e.verifier \in UsesRegistry,
               NEW d \in Evidence(e), d.category \in DOMAIN policy
        PROVE  Cardinality(R!Vouchers(d.issuer_id, d.category)
                              \cap policy[d.category].accreditors \cap accreditor_keys)
                  >= policy[d.category].k
    <2>1. PICK c : StandsFor(d, e.presentation, c, RegistryAnchor)
      BY <1>1, EvidencePassed DEF AnchorOf
    <2>2. <<d.issuer_id, d.category>> \in RegistryAnchor.accredited
      <3>1. RegistryAnchor.required = DOMAIN policy
        BY DEF RegistryAnchor
      <3>2. QED
        BY <1>1, <2>1, <3>1 DEF StandsFor
    <2>3. d.issuer_id \in Issuer /\ R!Standing(d.issuer_id, d.category).accredited
      BY <2>2 DEF RegistryAnchor
    <2>4. QED
      BY <1>1, <2>3, QuorumHere
  <1>2. TSInv /\ [TSNext]_tsVars =>
          [\A e \in Range(log') : AcceptedNow(e) /\ e.verifier \in UsesRegistry =>
              \A d \in Evidence(e) : d.category \in DOMAIN policy =>
                  Cardinality(R!Vouchers(d.issuer_id, d.category)
                                  \cap policy[d.category].accreditors \cap accreditor_keys)
                      >= policy[d.category].k]_tsVars
    BY <1>1
  <1>3. QED
    BY TSInvariant, <1>2, PTL DEF TSSpec, AcceptedIsAuthoritative
=================================================================================
