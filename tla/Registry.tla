------------------------------- MODULE Registry -------------------------------
(****************************************************************************)
(* The federation state a verifier consults (aion-trust-registry/src/lib.rs)*)
(* : recognized issuers, registered accreditors, accreditation records, the *)
(* K-of-N policy per category, revocations and the current epoch.           *)
(*                                                                          *)
(* A signature is what it proves: an endorsement records the accreditor it  *)
(* names and the content that was signed.  It verifies under that           *)
(* accreditor's registered key exactly when that content is the record's.   *)
(* `draft` is an Accreditation still in the hands of its author: its fields *)
(* are public and may be revised after someone endorsed it.                 *)
(****************************************************************************)
EXTENDS Integers, FiniteSets, Sequences, Functions

CONSTANTS
    Issuer, Accreditor, Category,
    ClaimId,
    Rules,        \* policy rules [k, accreditors] an operator may require
    Windows,      \* pairs <<from_epoch, until_epoch>> of accreditations
    OpenEnded,    \* the until_epoch of an accreditation without an end
    MaxEpoch,     \* bound on the epoch
    MaxRecords,   \* bound on the accreditation records held
    MaxSigs       \* bound on the endorsements of one record

ASSUME RegistryAssumption ==
    /\ MaxEpoch \in Nat
    /\ \A r \in Rules : r.k \in Nat /\ IsFiniteSet(r.accreditors)

VARIABLES
    issuer_keys, accreditor_keys, accreditations, policy, revoked, epoch,
    draft

registryVars ==
    <<issuer_keys, accreditor_keys, accreditations, policy, revoked, epoch>>
regVars == <<registryVars, draft>>

Epoch == 0..MaxEpoch

NoDraft == [issuer_id |-> "none"]

-------------------------------------------------------------------------------
(* Accreditation records. *)

Content(a) == <<a.issuer_id, a.category, a.from_epoch, a.until_epoch>>

WindowHolds(from, until, e) == from <= e /\ (until = OpenEnded \/ e <= until)

ActiveAt(a, e) == WindowHolds(a.from_epoch, a.until_epoch, e)

NewAccreditation(i, c, w) ==
    /\ draft' = [issuer_id |-> i, category |-> c, from_epoch |-> w[1],
                 until_epoch |-> w[2], signatures |-> <<>>]
    /\ UNCHANGED registryVars

Endorse(d) ==
    /\ draft # NoDraft /\ Len(draft.signatures) < MaxSigs
    /\ draft' = [draft EXCEPT !.signatures =
                    Append(@, [accreditor |-> d, over |-> Content(draft)])]
    /\ UNCHANGED registryVars

(* The author edits the public window of a record that may carry endorsements. *)
Revise(w) ==
    /\ draft # NoDraft
    /\ draft' = [draft EXCEPT !.from_epoch = w[1], !.until_epoch = w[2]]
    /\ UNCHANGED registryVars

(* The records are kept as a set: neither their order nor a second copy of  *)
(* one changes any answer.                                                   *)
AddRecord(a) ==
    /\ accreditations' = accreditations \cup {a}
    /\ UNCHANGED <<issuer_keys, accreditor_keys, policy, revoked, epoch>>

AddAccreditation ==
    /\ draft # NoDraft
    /\ Cardinality(accreditations \cup {draft}) <= MaxRecords
    /\ AddRecord(draft)
    /\ draft' = NoDraft

-------------------------------------------------------------------------------
(* The operator's calls. *)

RegisterIssuer(i) ==
    /\ issuer_keys' = issuer_keys \cup {i}
    /\ UNCHANGED <<accreditor_keys, accreditations, policy, revoked, epoch, draft>>

RegisterAccreditor(d) ==
    /\ accreditor_keys' = accreditor_keys \cup {d}
    /\ UNCHANGED <<issuer_keys, accreditations, policy, revoked, epoch, draft>>

Put(f, k, x) == [j \in DOMAIN f \cup {k} |-> IF j = k THEN x ELSE f[j]]

(* A second rule for a category replaces the first. *)
RequireAccreditation(c, rule) ==
    /\ policy' = Put(policy, c, rule)
    /\ UNCHANGED <<issuer_keys, accreditor_keys, accreditations, revoked, epoch, draft>>

(* A second revocation of a claim replaces the epoch of the first. *)
Revoke(id, e) ==
    /\ revoked' = Put(revoked, id, e)
    /\ UNCHANGED <<issuer_keys, accreditor_keys, accreditations, policy, epoch, draft>>

(* Mutant of SetEpoch: entering an epoch starts with a clean revocation list. *)
SetEpochPrunes(e) ==
    /\ epoch' = e
    /\ revoked' = Restrict(revoked, {id \in DOMAIN revoked : revoked[id] >= e})
    /\ UNCHANGED <<issuer_keys, accreditor_keys, accreditations, policy, draft>>

SetEpoch(e) ==
    /\ epoch' = e
    /\ UNCHANGED <<issuer_keys, accreditor_keys, accreditations, policy, revoked, draft>>

-------------------------------------------------------------------------------
(* What the registry answers as a TrustAnchor, at its current epoch. *)

(* Mutant of ValidEndorsements: endorsements are counted, not endorsers. *)
CountEndorsements(a, rule) ==
    Cardinality({i \in DOMAIN a.signatures :
                    /\ a.signatures[i].accreditor \in rule.accreditors \cap accreditor_keys
                    /\ a.signatures[i].over = Content(a)})

(* Mutant of ValidEndorsements: one stale endorsement spoils the record,     *)
(* where the code skips it and goes on.                                      *)
AllOrNothing(a, rule) ==
    IF \E s \in Range(a.signatures) :
          s.accreditor \in rule.accreditors \cap accreditor_keys /\ s.over # Content(a)
    THEN 0
    ELSE Cardinality({d \in rule.accreditors \cap accreditor_keys :
                         \E s \in Range(a.signatures) : s.accreditor = d})

(* Endorsers are counted once, and only those the rule lists, whose key is  *)
(* registered and who signed the record as it stands.                        *)
ValidEndorsements(a, rule) ==
    Cardinality({d \in rule.accreditors \cap accreditor_keys :
                    \E s \in Range(a.signatures) : s.accreditor = d /\ s.over = Content(a)})

(* Mutant of IsAccredited: a lapsed accreditation still counts. *)
AccreditedOnce(i, c) ==
    /\ c \in DOMAIN policy
    /\ \E a \in accreditations :
          /\ a.issuer_id = i /\ a.category = c
          /\ a.from_epoch <= epoch
          /\ ValidEndorsements(a, policy[c]) >= policy[c].k

IsAccredited(i, c) ==
    /\ c \in DOMAIN policy
    /\ \E a \in accreditations :
          /\ a.issuer_id = i /\ a.category = c
          /\ ActiveAt(a, epoch)
          /\ ValidEndorsements(a, policy[c]) >= policy[c].k

Standing(i, c) ==
    [accredited |-> c \in DOMAIN policy /\ IsAccredited(i, c),
     accreditation_required |-> c \in DOMAIN policy]

IsRevoked(id) == id \in DOMAIN revoked /\ revoked[id] <= epoch

(* Mutant of LedgerRecord: a revocation shows one epoch late. *)
LedgerRecordLate(id) ==
    [claim_id |-> id, epoch |-> epoch,
     status |-> IF id \in DOMAIN revoked /\ revoked[id] < epoch THEN "Revoked" ELSE "Issued"]

LedgerRecord(id) ==
    [claim_id |-> id, epoch |-> epoch,
     status |-> IF id \in DOMAIN revoked /\ revoked[id] <= epoch THEN "Revoked" ELSE "Issued"]

-------------------------------------------------------------------------------
RegInit ==
    /\ issuer_keys = {} /\ accreditor_keys = {} /\ accreditations = {}
    /\ policy = [c \in {} |-> 0] /\ revoked = [id \in {} |-> 0]
    /\ epoch = 0
    /\ draft = NoDraft

RegNext ==
    \/ \E i \in Issuer, c \in Category, w \in Windows : NewAccreditation(i, c, w)
    \/ \E d \in Accreditor : Endorse(d)
    \/ \E w \in Windows : Revise(w)
    \/ AddAccreditation
    \/ \E i \in Issuer : RegisterIssuer(i)
    \/ \E d \in Accreditor : RegisterAccreditor(d)
    \/ \E c \in Category, r \in Rules : RequireAccreditation(c, r)
    \/ \E id \in ClaimId, e \in Epoch : Revoke(id, e)
    \/ \E e \in Epoch : SetEpoch(e)

RegSpec == RegInit /\ [][RegNext]_regVars

-------------------------------------------------------------------------------
(* Properties. *)

Froms == {w[1] : w \in Windows}
Untils == {w[2] : w \in Windows}
Contents == Issuer \X Category \X Froms \X Untils
Signature == [accreditor : Accreditor, over : Contents]

Record == [issuer_id : Issuer, category : Category, from_epoch : Froms, until_epoch : Untils,
           signatures : Seq(Signature)]

RegTypeOK ==
    /\ issuer_keys \subseteq Issuer /\ accreditor_keys \subseteq Accreditor
    /\ draft \in Record \cup {NoDraft}
    /\ accreditations \subseteq Record
    /\ DOMAIN policy \subseteq Category /\ \A c \in DOMAIN policy : policy[c] \in Rules
    /\ DOMAIN revoked \subseteq ClaimId /\ \A id \in DOMAIN revoked : revoked[id] \in Epoch
    /\ epoch \in Epoch

(* Those who signed that issuer i may attest category c at the current epoch. *)
Vouchers(i, c) ==
    {d \in Accreditor :
        \E a \in accreditations : \E s \in Range(a.signatures) :
            /\ s.accreditor = d
            /\ s.over[1] = i /\ s.over[2] = c
            /\ WindowHolds(s.over[3], s.over[4], epoch)}

(* An issuer stands accredited for a category only while at least K distinct *)
(* accreditors of the category's policy, with registered keys, have signed   *)
(* that this issuer may attest it at this very epoch: endorsing twice, being *)
(* an outsider, a record revised after it was signed and a lapsed window     *)
(* count for nothing (lib.rs:182-214, TRUST-MODEL.md:28-31).                 *)
QuorumBehindStanding ==
    \A i \in Issuer, c \in Category :
        Standing(i, c).accredited =>
            Cardinality(Vouchers(i, c) \cap policy[c].accreditors \cap accreditor_keys)
                >= policy[c].k

(* Nothing but a change of epoch or of the category's rule takes an          *)
(* accreditation away: a stale endorsement on a record, an accreditor        *)
(* registered later or a second record never does (lib.rs:182-214).          *)
StandingLostOnlyByEpochOrRule ==
    [][\A i \in Issuer, c \in Category :
          Standing(i, c).accredited /\ ~Standing(i, c).accredited' =>
              epoch' # epoch \/ policy'[c] # policy[c]]_regVars

(* A claim that the verdict or the public ledger shows as revoked is cleared *)
(* in either of them only because the epoch was set back or because it was   *)
(* revoked again for a later epoch: registering, accrediting and moving the  *)
(* epoch forward never restore one, and the two answers, which the code      *)
(* computes apart (lib.rs:169-180, 230-234), never part.                     *)
Withdrawn(id) == IsRevoked(id) \/ LedgerRecord(id).status = "Revoked"
Clear(id) == ~IsRevoked(id) \/ LedgerRecord(id).status = "Issued"

RestoredOnlyByRedating ==
    [][\A id \in ClaimId :
          Withdrawn(id) /\ Clear(id)' =>
              epoch' < epoch \/ (id \in DOMAIN revoked' /\ revoked'[id] > revoked[id])]_regVars

(* What the workflow document says of a withdrawn claim: every later         *)
(* verification fails the revocation step (WORKFLOWS.md:96-98).              *)
RevokedForGood ==
    [][\A id \in ClaimId : IsRevoked(id) /\ epoch' >= epoch => IsRevoked(id)']_regVars
===============================================================================
