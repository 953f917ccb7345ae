------------------------------ MODULE Disclosure ------------------------------
(****************************************************************************)
(* How a claim commits to its body and to the claims it relies on, how a    *)
(* wallet discloses some fields of it, and how a verifier proves what was   *)
(* disclosed (aion-trust-claims/src/claim.rs, fields.rs, reliance.rs,       *)
(* disclosure.rs).                                                          *)
(*                                                                          *)
(* A claim and a disclosure are files that travel by hand.  Either may      *)
(* arrive altered in a few places; the model says what the recomputed       *)
(* Merkle roots and counts make of it.  Signed scalars that take no part    *)
(* in the commitments (subject, issuer, validity) are in Verification.      *)
(****************************************************************************)
EXTENDS Integers, Sequences, SequencesExt, Functions, Merkle

CONSTANTS
    Category,      \* the categories issued here
    Reliance,      \* the lists of relied-on claims an issuer may declare
    Value, Genuine, \* field values; the ones issuers attest
    Salt, Drawn,   \* master salts; the one the issuer draws
    MaxAlterations(_) \* bound on the alterations of a claim of a category

VARIABLES
    issued,     \* the claim as its issuer signed it
    claim,      \* the claim in the wallet
    d,          \* the disclosure on its way to a verifier
    alterations \* how many places of the two files were altered

dsVars == <<issued, claim, d, alterations>>

-------------------------------------------------------------------------------
(* The schemas. *)

(* All field keys in canonical (byte) order. *)
JcsOrder ==
    <<"aion_edu_ref", "assurance", "authority", "conferred", "credential",
      "credential_no", "degree_rank", "employer", "employment_type", "end", "expires",
      "fcra_compliant", "given", "institution", "issued", "jurisdiction", "level",
      "method", "name", "performed", "provider", "rehire_eligible", "relationship",
      "result", "scope", "skill", "start", "statement_hash", "title", "valid_until",
      "verified">>

(* The fields of each body type. *)
BodyFields ==
    [employment |-> {"employer", "title", "employment_type", "start", "end",
                     "rehire_eligible"},
     education |-> {"institution", "credential", "conferred", "aion_edu_ref",
                    "degree_rank"},
     certification |-> {"authority", "name", "issued", "expires", "credential_no"},
     background_check |-> {"provider", "scope", "result", "performed", "valid_until",
                           "jurisdiction", "fcra_compliant"},
     identity |-> {"method", "verified", "assurance"},
     reference |-> {"relationship", "statement_hash", "given"},
     skill |-> {"skill", "level"}]

(* The verifier's table. *)
FieldKeys ==
    [employment |-> <<"employer", "employment_type", "end", "rehire_eligible", "start",
                      "title">>,
     education |-> <<"aion_edu_ref", "conferred", "credential", "degree_rank",
                     "institution">>,
     certification |-> <<"authority", "credential_no", "expires", "issued", "name">>,
     background_check |-> <<"fcra_compliant", "jurisdiction", "performed", "provider",
                            "result", "scope", "valid_until">>,
     identity |-> <<"assurance", "method", "verified">>,
     reference |-> <<"given", "relationship", "statement_hash">>,
     skill |-> <<"level", "skill">>]

ASSUME DisclosureAssumption ==
    /\ Category \subseteq DOMAIN FieldKeys
    /\ \A relies_on \in Reliance : relies_on \in Seq(Range(relies_on))
    /\ Genuine \in Value /\ Drawn \in Salt

-------------------------------------------------------------------------------
(* Commitments.  Every salt is derived from the master salt, its domain and  *)
(* its position.                                                             *)

FieldSalt(master, index, key) == <<master, "field", index, key>>
RelianceSalt(master, index) == <<master, "reliance", index>>
KindCommit(master, index, kind) == <<master, "kind", index, kind>>

(* Those of the keys that come among the first n of all. *)
Among(keys) ==
    LET among[n \in 0..Len(JcsOrder)] ==
            IF n = 0 THEN <<>>
            ELSE IF JcsOrder[n] \in keys THEN Append(among[n - 1], JcsOrder[n])
            ELSE among[n - 1]
    IN  among

InOrder(keys) == Among(keys)[Len(JcsOrder)]

(* Mutant of OrderedFields: the keys come in reverse. *)
ReversedFields(body) == Reverse(InOrder(DOMAIN body))

OrderedFields(body) == InOrder(DOMAIN body)

(* Positions count from 0. *)
BodyLeaves(master, body) ==
    LET keys == OrderedFields(body)
    IN  [i \in DOMAIN keys |->
            FieldLeafHash(i - 1, keys[i], FieldSalt(master, i - 1, keys[i]), body[keys[i]])]

RelianceLeaves(master, relies_on) ==
    [i \in DOMAIN relies_on |->
        RelianceLeafHash(i - 1, RelianceSalt(master, i - 1), relies_on[i].from_claim_id,
                         KindCommit(master, i - 1, relies_on[i].kind))]

EmptyRelianceRoot == <<[domain |-> "reliance-empty"]>>

RelianceRoot(leaves) == IF leaves = <<>> THEN EmptyRelianceRoot ELSE MerkleRoot(leaves)

(* The four scalars both signature checks reconstruct, with the category. *)
Commit(category, master, body, relies_on) ==
    LET leaves == BodyLeaves(master, body)
        relied == RelianceLeaves(master, relies_on)
    IN  [category |-> category, body_root |-> MerkleRoot(leaves), field_count |-> Len(leaves),
         reliance_root |-> RelianceRoot(relied), reliance_count |-> Len(relied)]

(* The issuer's signature is what it covers. *)
IssueWithReliance(category, master, body, relies_on) ==
    LET commit == Commit(category, master, body, relies_on)
    IN  [body |-> body, relies_on |-> relies_on, master_salt |-> master,
         commit |-> commit, issuer_signature |-> commit]

(* A holder's check of a claim: everything is recomputed. *)
VerifyClaim(c) ==
    /\ Commit(c.commit.category, c.master_salt, c.body, c.relies_on) = c.commit
    /\ c.issuer_signature = c.commit

-------------------------------------------------------------------------------
(* Disclosing: the chosen fields, in the order they were named, and all of    *)
(* the reliance.                                                              *)

SelectedIndices(keys, selection) ==
    [j \in DOMAIN selection |-> CHOOSE pos \in DOMAIN keys : keys[pos] = selection[j]]

DisclosedReliance(c) ==
    LET leaves == RelianceLeaves(c.master_salt, c.relies_on)
    IN  [i \in DOMAIN c.relies_on |->
            [index |-> i - 1, from_claim_id |-> c.relies_on[i].from_claim_id,
             salt |-> RelianceSalt(c.master_salt, i - 1),
             kind_commit |-> KindCommit(c.master_salt, i - 1, c.relies_on[i].kind),
             audit_path |-> AuditPath(leaves, i - 1)]]

BuildDisclosed(c, selection) ==
    LET keys == OrderedFields(c.body)
        leaves == BodyLeaves(c.master_salt, c.body)
        indices == SelectedIndices(keys, selection)
        field(pos) == [key |-> keys[pos], index |-> pos - 1,
                       salt |-> FieldSalt(c.master_salt, pos - 1, keys[pos]),
                       value |-> c.body[keys[pos]],
                       audit_path |-> AuditPath(leaves, pos - 1)]
    IN  [commit |-> c.commit, issuer_signature |-> c.issuer_signature,
         fields |-> [j \in DOMAIN indices |-> field(indices[j])],
         reliance |-> DisclosedReliance(c)]

NotDisclosed == [commit |-> "none"]

-------------------------------------------------------------------------------
(* Verifying a disclosure. *)

ProveField(f, commit) ==
    LET expected == FieldKeys[commit.category]
    IN  /\ f.index < Len(expected) /\ expected[f.index + 1] = f.key
        /\ RootFromPath(FieldLeafHash(f.index, f.key, f.salt, f.value),
                        f.index, commit.field_count, f.audit_path) = commit.body_root

ProveReliance(r, commit) ==
    RootFromPath(RelianceLeafHash(r.index, r.salt, r.from_claim_id, r.kind_commit),
                 r.index, commit.reliance_count, r.audit_path) = commit.reliance_root

(* Mutant of VerifyReliance: an index may come twice. *)
VerifyRelianceRepeated(dis) ==
    /\ Len(dis.reliance) = dis.commit.reliance_count
    /\ \A i \in DOMAIN dis.reliance : ProveReliance(dis.reliance[i], dis.commit)

VerifyReliance(dis) ==
    /\ Len(dis.reliance) = dis.commit.reliance_count
    /\ \A i, j \in DOMAIN dis.reliance :
          dis.reliance[i].index = dis.reliance[j].index => i = j
    /\ \A i \in DOMAIN dis.reliance : ProveReliance(dis.reliance[i], dis.commit)

(* verify_with_required: `required` are keys the verifier insists on. *)
Verify(dis, required) ==
    /\ dis.issuer_signature = dis.commit
    /\ dis.commit.field_count = Len(FieldKeys[dis.commit.category])
    /\ \A i \in DOMAIN dis.fields : ProveField(dis.fields[i], dis.commit)
    /\ required \subseteq {f.key : f \in Range(dis.fields)}
    /\ VerifyReliance(dis)

-------------------------------------------------------------------------------
(* The files on their way.  One alteration changes one place. *)

(* One entry of a list goes missing, stands in for another, comes twice,     *)
(* changes places with its neighbour, or is altered itself.                  *)
AlteredLists(list, Entries(_)) ==
    {RemoveAt(list, i) : i \in DOMAIN list}
        \cup {ReplaceAt(list, i, list[j]) : i, j \in DOMAIN list}
        \cup {Append(list, e) : e \in Range(list)}
        \cup {Reverse(list)}
        \cup UNION {{ReplaceAt(list, i, e) : e \in Entries(list[i])} : i \in DOMAIN list}

AlteredPaths(entry, others) ==
    {[entry EXCEPT !.audit_path = p] : p \in
        {o.audit_path : o \in others} \cup {Reverse(entry.audit_path)}
            \cup IF entry.audit_path = <<>> THEN {}
                 ELSE {Front(entry.audit_path), Tail(entry.audit_path)}}

AlteredFields(f) ==
    {[f EXCEPT !.value = v] : v \in Value}
        \cup {[f EXCEPT !.index = i] : i \in 0..d.commit.field_count}
        \cup {[f EXCEPT !.key = k] : k \in Range(FieldKeys[d.commit.category])}
        \cup AlteredPaths(f, Range(d.fields))

AlteredReliance(r) ==
    {[r EXCEPT !.from_claim_id = o.from_claim_id] : o \in UNION {Range(l) : l \in Reliance}}
        \cup {[r EXCEPT !.index = i] : i \in 0..d.commit.reliance_count}
        \cup AlteredPaths(r, Range(d.reliance))

AlteredCounts(commit) ==
    LET near(n) == {n - 1, n + 1} \cap Nat
    IN  {[commit EXCEPT !.field_count = n] : n \in near(commit.field_count)}
            \cup {[commit EXCEPT !.reliance_count = n] : n \in near(commit.reliance_count)}

MayAlter == alterations < MaxAlterations(issued.commit.category) /\ alterations' = alterations + 1

AlterDisclosure ==
    /\ d # NotDisclosed /\ MayAlter
    /\ \/ \E list \in AlteredLists(d.fields, AlteredFields) : d' = [d EXCEPT !.fields = list]
       \/ \E list \in AlteredLists(d.reliance, AlteredReliance) :
             d' = [d EXCEPT !.reliance = list]
       \/ \E commit \in AlteredCounts(d.commit) : d' = [d EXCEPT !.commit = commit]
    /\ UNCHANGED <<issued, claim>>

(* The claim's own file, before anything is disclosed from it. *)
AlterClaim ==
    /\ d = NotDisclosed /\ MayAlter
    /\ \/ \E k \in DOMAIN claim.body, v \in Value : claim' = [claim EXCEPT !.body[k] = v]
       \/ \E l \in Reliance : claim' = [claim EXCEPT !.relies_on = l]
       \/ \E s \in Salt : claim' = [claim EXCEPT !.master_salt = s]
       \/ \E commit \in AlteredCounts(claim.commit) : claim' = [claim EXCEPT !.commit = commit]
    /\ UNCHANGED <<issued, d>>

(* Fields in canonical order; an alteration reverses it.                      *)
DiscloseSome ==
    /\ d = NotDisclosed
    /\ \E keys \in (SUBSET DOMAIN claim.body) \ {{}} :
          d' = BuildDisclosed(claim, InOrder(keys))
    /\ UNCHANGED <<issued, claim, alterations>>

DsInit ==
    /\ \E category \in Category, relies_on \in Reliance :
          issued = IssueWithReliance(category, Drawn,
                                     [k \in BodyFields[category] |-> Genuine], relies_on)
    /\ claim = issued /\ d = NotDisclosed /\ alterations = 0

DsNext == AlterClaim \/ DiscloseSome \/ AlterDisclosure

DsSpec == DsInit /\ [][DsNext]_dsVars

-------------------------------------------------------------------------------
(* Properties. *)

(* The tree built the other way round: neighbours are paired level by level, *)
(* and one left over moves up.                                               *)
PairUp(row) ==
    [i \in 1..(Len(row) + 1) \div 2 |->
        IF 2 * i <= Len(row) THEN NodeHash(row[2 * i - 1], row[2 * i]) ELSE row[2 * i - 1]]

Rows(leaves) ==
    LET row[k \in Nat \ {0}] == IF k = 1 THEN leaves ELSE PairUp(row[k - 1])
    IN  row

PairedRoot(leaves) == Rows(leaves)[Len(leaves)][1]

RootsArePaired(c) ==
    /\ c.commit.body_root = PairedRoot(BodyLeaves(c.master_salt, c.body))
    /\ c.relies_on # <<>> =>
          c.commit.reliance_root = PairedRoot(RelianceLeaves(c.master_salt, c.relies_on))

(* What reaches a verifier as it was disclosed from an intact claim is       *)
(* proven, for every category, selection and number of relied-on claims: the *)
(* schema's table, the leaves' order, the split points of tree, path and     *)
(* walk all agree; and the tree that splits at powers of two is the one that *)
(* pairs neighbours (disclosure.rs:106-146, 166-302; bodies.rs:109-147;      *)
(* merkle.rs:95-123).                                                        *)
HonestIsProven ==
    alterations = 0 =>
        /\ RootsArePaired(issued)
        /\ d # NotDisclosed => Verify(d, {f.key : f \in Range(d.fields)})

(* Whatever was altered on the way, in the claim's file or in the            *)
(* disclosure's: what is proven to the verifier is what the issuer signed,   *)
(* field by field, and the relied-on claims are all of those it declared,    *)
(* none left out, doubled or exchanged (disclosure.rs:206-245, 281-302).     *)
ProvenIsIssued ==
    d # NotDisclosed /\ Verify(d, {}) =>
        /\ \A f \in Range(d.fields) :
              f.key \in DOMAIN issued.body /\ f.value = issued.body[f.key]
        /\ Len(d.reliance) = Len(issued.relies_on)
        /\ {<<r.index, r.from_claim_id>> : r \in Range(d.reliance)}
             = {<<i - 1, issued.relies_on[i].from_claim_id>> : i \in DOMAIN issued.relies_on}

(* A holder's check and a verifier's agree: a claim whose file passes        *)
(* Claim::verify discloses what a verifier can prove, and one that fails     *)
(* discloses nothing a verifier would take, whichever field is shown         *)
(* (claim.rs:191-226 and disclosure.rs:171-204 recompute separately).        *)
ClaimAndDisclosureAgree ==
    [][d = NotDisclosed /\ d' # NotDisclosed => (Verify(d', {}) <=> VerifyClaim(claim))]_dsVars
===============================================================================
