------------------------------ MODULE TrustSystem ------------------------------
(****************************************************************************)
(* The whole path of a claim: issuers sign claims, subjects keep them in    *)
(* wallets and build presentations, verifiers decide offline against a      *)
(* trust anchor and a nonce store, while the federation accredits, revokes  *)
(* and moves its epoch.                                                     *)
(*                                                                          *)
(* Registry and NonceStore are instances: their actions change their own    *)
(* state here.  Presentations are handed over outside the system: a member  *)
(* of `net` may reach any verifier, late, again, or never, with its nonce   *)
(* as the wallet wrote it (NonceStore has the other ways to write it).      *)
(****************************************************************************)
EXTENDS Presenting

CONSTANTS
    Subject,
    Claim,            \* the claims issuers may sign (as IssueClaim builds them)
    ClaimId, Issuer, Category,
    Accreditor,
    Records,          \* accreditation records that may be added
    OpenEnded,        \* the until_epoch of an accreditation without an end
    Policy,           \* the federation's rules, category |-> [k, accreditors]
    Verifier, Did,
    AudienceOf,       \* AudienceOf[v]: the did v answers to
    StoreOf,          \* StoreOf[v]: the nonce store v was given
    UsesRegistry,     \* verifiers whose anchor is the registry, not a directory
    RequestSets,      \* sets of predicates a verifier may ask for
    Nonce,            \* the nonces the wallets' generator draws, in any order
    Ttl,
    MaxNow, MaxEpoch  \* bounds on the clock and the epoch

VARIABLES
    issued,           \* claims the issuers handed out
    wallet,           \* wallet[s]: the claims s holds, oldest first
    net,              \* presentations built so far
    issuer_keys, accreditor_keys, accreditations, policy, revoked, epoch,
    now, seen, log    \* the verifiers' clock, nonce stores and acceptances

holders == <<issued, wallet, net>>
federation == <<issuer_keys, accreditor_keys, accreditations, policy, revoked, epoch>>
verifiers == <<now, seen, log>>
tsVars == <<holders, federation, verifiers>>

(* The registry's author-side drafts and its operator's inputs are not used. *)
R == INSTANCE Registry WITH
        draft <- [issuer_id |-> "none"], Rules <- Range(Policy),
        Windows <- {<<a.from_epoch, a.until_epoch>> : a \in Records},
        MaxRecords <- 0, MaxSigs <- 0

(* The presentations a store sees are the members of net, not a fixed set. *)
NS == INSTANCE NonceStore WITH Presentation <- {}

(* Issuers sign what IssueClaim builds, nobody finds two contents with one   *)
(* id, and the federation's records and rules have the types of Registry.    *)
ASSUME TrustAssumption ==
    /\ MaxNow \in Nat /\ MaxEpoch \in Nat
    /\ AudienceOf \in [Verifier -> Did]
    /\ \A c \in Claim : AsIssued(c)
    /\ \A c, d \in Claim : c.claim_id = d.claim_id => c = d
    /\ DOMAIN Policy \subseteq Category
    /\ \A c \in DOMAIN Policy : Policy[c].k \in Nat /\ IsFiniteSet(Policy[c].accreditors)
    /\ Records \subseteq R!Record

-------------------------------------------------------------------------------
(* Issuers and wallets. *)

Issue(c) ==
    /\ issued' = issued \cup {c}
    /\ UNCHANGED <<wallet, net, federation, verifiers>>

(* A wallet takes any claim it is given, another subject's included. *)
AddToWallet(s, c) ==
    /\ c \in issued \ Range(wallet[s])
    /\ wallet' = [wallet EXCEPT ![s] = Append(@, c)]
    /\ UNCHANGED <<issued, net, federation, verifiers>>

(* Mutant of FreshNonce: the generator repeats itself. *)
AnyNonce == Nonce

FreshNonce == Nonce \ {p.nonce : p \in net}

(* A call of a wallet that is not refused builds a presentation and sends it. *)
Send(s, audience, outcome) ==
    /\ outcome.refused = NONE
    /\ \E n \in FreshNonce :
          net' = net \cup {BuildFor(s, audience, n, now, Ttl, outcome.disclosed)}
    /\ UNCHANGED <<issued, wallet, federation, verifiers>>

SendSelected(s, audience, selections) == Send(s, audience, Present(wallet[s], selections))

SendAnswers(s, audience, requests) == Send(s, audience, Satisfy(wallet[s], requests))

-------------------------------------------------------------------------------
(* The federation. *)

(* The issuer revokes as of the current epoch. *)
Revoke(id) == R!Revoke(id, epoch) /\ UNCHANGED <<holders, verifiers>>

(* Mutant of AdvanceEpoch: the epoch may be set to any value. *)
SetAnyEpoch == \E e \in 0..MaxEpoch : R!SetEpoch(e) /\ UNCHANGED <<holders, verifiers>>

AdvanceEpoch == epoch < MaxEpoch /\ R!SetEpoch(epoch + 1) /\ UNCHANGED <<holders, verifiers>>

AddRecord(a) == R!AddRecord(a) /\ UNCHANGED <<holders, verifiers>>

-------------------------------------------------------------------------------
(* Verifiers. *)

(* Mutant of RegistryAnchor: accredited once, accredited for good. *)
NeverLapses ==
    [issuers |-> issuer_keys, required |-> DOMAIN policy,
     accredited |-> {<<a.issuer_id, a.category>> : a \in accreditations},
     revoked |-> {id \in ClaimId : R!IsRevoked(id)}, unresolvable |-> {}]

RegistryAnchor ==
    [issuers |-> issuer_keys, required |-> DOMAIN policy,
     accredited |-> {x \in Issuer \X Category : R!Standing(x[1], x[2]).accredited},
     revoked |-> {id \in ClaimId : R!IsRevoked(id)}, unresolvable |-> {}]

(* An IssuerDirectory knows keys, no accreditation and no revocation. *)
DirectoryAnchor ==
    [issuers |-> issuer_keys, required |-> {}, accredited |-> {}, revoked |-> {},
     unresolvable |-> {}]

AnchorOf(v) == IF v \in UsesRegistry THEN RegistryAnchor ELSE DirectoryAnchor

Verify(v, p, reqs) ==
    LET failed == FailedChecks(p, AudienceOf[v], now, AnchorOf(v), NS!AlreadySeen(v, p), reqs)
    IN  NS!VerifyWithStore(v, p, Accepts(failed)) /\ UNCHANGED <<holders, federation>>

EvictExpired(s) == NS!EvictExpired(s) /\ UNCHANGED <<holders, federation>>

Tick == NS!Tick /\ UNCHANGED <<holders, federation>>

-------------------------------------------------------------------------------
TSInit ==
    /\ issued = {} /\ wallet = [s \in Subject |-> <<>>] /\ net = {}
    /\ issuer_keys = Issuer /\ accreditor_keys = Accreditor /\ accreditations = {}
    /\ policy = Policy /\ revoked = [id \in {} |-> 0] /\ epoch = 0
    /\ NS!NSInit

Selection(s) ==
    {<<>>} \cup UNION {{<<[claim_id |-> c.claim_id, keys |-> {k}]>> : k \in DOMAIN c.body_root} :
                           c \in Range(wallet[s])}

TSNext ==
    \/ \E c \in Claim : Issue(c)
    \/ \E s \in Subject, c \in Claim : AddToWallet(s, c)
    \/ \E s \in Subject, a \in Did : \E sel \in Selection(s) : SendSelected(s, a, sel)
    \/ \E s \in Subject, a \in Did, reqs \in RequestSets : \E req \in reqs : SendAnswers(s, a, <<req>>)
    \/ \E id \in ClaimId : Revoke(id)
    \/ AdvanceEpoch
    \/ \E a \in Records : AddRecord(a)
    \/ \E v \in Verifier, p \in net, reqs \in RequestSets : Verify(v, p, reqs)
    \/ \E s \in NS!Stores : EvictExpired(s)
    \/ Tick

TSSpec == TSInit /\ [][TSNext]_tsVars

-------------------------------------------------------------------------------
(* Properties. *)

(* Wallets hold issued claims, presentations show claims their subject held, *)
(* no two answer one challenge, and stores and log have their types.         *)
TSTypeOK ==
    /\ issued \subseteq Claim
    /\ \A s \in Subject : Range(wallet[s]) \subseteq issued
    /\ \A p \in net : \A c \in Range(p.claims) :
          \E d \in Range(wallet[p.subject_id]) :
              c.claim_id = d.claim_id /\ c = Disclose(d, DOMAIN c.fields)
    /\ \A p, q \in net : p.nonce = q.nonce => p = q
    /\ R!RegTypeOK
    /\ now \in 0..MaxNow
    /\ \A s \in NS!Stores : DOMAIN seen[s] \subseteq Did \X Nonce
    /\ \A e \in Range(log) : e.verifier \in Verifier /\ e.presentation \in net

(* The issued claims whose disclosure e was accepted with. *)
Evidence(e) == {d \in issued : \E c \in Range(e.presentation.claims) : c.claim_id = d.claim_id}

AcceptedNow(e) == e \in Range(log') /\ Len(log') > Len(log) /\ e = log'[Len(log')]

(* A verifier on the registry never accepts a presentation once one of its   *)
(* claims, or one that such a claim was issued in reliance on, has been      *)
(* revoked, however long before the revocation it was built and however late *)
(* it is delivered (TRUST-MODEL.md:94-96, presentation.rs:379-411).          *)
NoWithdrawnEvidence ==
    [][\A e \in Range(log') : AcceptedNow(e) /\ e.verifier \in UsesRegistry =>
          \A d \in Evidence(e) : ({d.claim_id} \cup d.reliance_root) \cap DOMAIN revoked = {}]_tsVars

(* ... nor one whose issuer lacks, at this very epoch, the K-of-N quorum the *)
(* federation requires for the category of each disclosed claim.             *)
AcceptedIsAuthoritative ==
    [][\A e \in Range(log') : AcceptedNow(e) /\ e.verifier \in UsesRegistry =>
          \A d \in Evidence(e) : d.category \in DOMAIN policy =>
              Cardinality(R!Vouchers(d.issuer_id, d.category)
                              \cap policy[d.category].accreditors \cap accreditor_keys)
                  >= policy[d.category].k]_tsVars

(* Whatever anchor it uses, a verifier accepts only what issuers attested of *)
(* the presenter: a claim filed in somebody else's wallet speaks for no one, *)
(* and no revealed value differs from the issued one.                        *)
AcceptedSpeaksForPresenter ==
    \A e \in Range(log) : \A c \in Range(e.presentation.claims) :
        \E d \in issued :
            /\ d.claim_id = c.claim_id
            /\ d.subject_id = e.presentation.subject_id
            /\ d.issuer_id \in issuer_keys
            /\ \A k \in DOMAIN c.fields : c.fields[k] = d.body_root[k]
===============================================================================
