-------------------------------- MODULE Interop --------------------------------
(****************************************************************************)
(* Presentations exported as W3C verifiable presentations and imported      *)
(* back (aion-trust-interop/src/vc.rs, vp.rs, rfc3339.rs).                  *)
(*                                                                          *)
(* A calendar walks on day by day; on some days a wallet builds a           *)
(* presentation whose windows begin that day, and exports it.  The document *)
(* passes through other tools, which may write some of its parts anew, and  *)
(* is imported.  A did, a hash of a key, is that key.                       *)
(* Members that are missing or of a wrong type are not modelled.            *)
(****************************************************************************)
EXTENDS Verification, CivilDate, DidKey, SequencesExt

CONSTANTS
    FirstYears,    \* the years on whose first day the calendar may start
    MaxWalk,       \* bound on the days walked
    ExportDays,    \* days of the month on which something is exported
    Hours,         \* seconds of the day at which it is
    Lifetimes,     \* lifetimes of presentations, in days
    Subject,       \* the key of the wallet
    Resolvable,    \* issuers whose key the exporter knows
    Held(_, _),    \* the claims held, given the ends of their validity
    Audience, Elsewhere, Nonce, Forged,
    MaxAltered     \* bound on the parts written anew

(* c shows some fields of a claim its issuer signed, and all of its reliance. *)
IsDisclosed(c) ==
    LET issued == [c EXCEPT !.fields = <<>>, !.reliance = {}]
    IN  /\ AsIssued(issued) /\ c = Disclose(issued, DOMAIN c.fields)
        /\ DOMAIN c.fields \subseteq DOMAIN c.body_root

(* January 1st of a year, counted from the leap years in between. *)
LeapsBefore(y) == (y - 1) \div 4 - (y - 1) \div 100 + (y - 1) \div 400

NewYear(y) ==
    [day |-> 365 * (y - 1970) + LeapsBefore(y) - LeapsBefore(1970),
     date |-> [y |-> y, m |-> 1, d |-> 1]]

Times == {[day |-> NewYear(y).day + n, sod |-> sod] : y \in FirstYears, n \in 0..MaxWalk,
                                                     sod \in Hours}

(* What is held is shown as its issuers signed it, whenever that was. *)
HeldOK(now, until) ==
    /\ Held(now, until) \in Seq(Range(Held(now, until)))
    /\ \A c \in Range(Held(now, until)) :
          IsDisclosed(c) /\ c.from \in Timestamps /\ c.until \in Timestamps \cup {OpenEnd}

ASSUME InteropAssumption ==
    /\ MaxWalk \in Nat /\ MaxAltered \in Nat /\ Lifetimes \subseteq Nat
    /\ Hours \subseteq SecondsOfDay /\ FirstYears \subseteq Int
    /\ Subject \in Key /\ Resolvable \subseteq Key
    /\ OpenEnd \notin Timestamps

ASSUME HeldAssumption == \A now \in Times : HeldOK(now, now) /\ HeldOK(now, OpenEnd)

VARIABLES
    today,    \* the day's number and its date
    walked,   \* how many days the calendar has walked
    native,   \* the presentation that was built
    doc,      \* the document it was exported to
    altered   \* how many parts of the document were written anew

ioVars == <<today, walked, native, doc, altered>>

Nothing == [id |-> "none"]

Absent == [date |-> "none"]

-------------------------------------------------------------------------------
(* One credential. *)

(* Mutant of ExportVC: the end of the validity is left out. *)
ExportOpenVC(c) ==
    [id |-> c.claim_id, issuer |-> c.issuer_id, subject |-> c.subject_id,
     readable |-> c.fields, validFrom |-> ToRfc3339(c.from), validUntil |-> Absent,
     verificationMethod |-> EncodeDidKey(c.issuer_id), category |-> c.category,
     schemaId |-> c.schema_id, bodyRoot |-> c.body_root, relianceRoot |-> c.reliance_root,
     aionSignature |-> c.issuer_signature, disclosures |-> c.fields,
     relianceDisclosures |-> c.reliance]

ExportVC(c) ==
    [id |-> c.claim_id, issuer |-> c.issuer_id, subject |-> c.subject_id,
     readable |-> c.fields, validFrom |-> ToRfc3339(c.from),
     validUntil |-> IF c.until = OpenEnd THEN Absent ELSE ToRfc3339(c.until),
     verificationMethod |-> EncodeDidKey(c.issuer_id), category |-> c.category,
     schemaId |-> c.schema_id, bodyRoot |-> c.body_root, relianceRoot |-> c.reliance_root,
     aionSignature |-> c.issuer_signature, disclosures |-> c.fields,
     relianceDisclosures |-> c.reliance]

Until(vc) == IF vc.validUntil = Absent THEN {OpenEnd} ELSE FromRfc3339(vc.validUntil)

(* From the proof and the envelope; what is there to be read is not read.    *)
RebuildNative(vc) ==
    {[claim_id |-> vc.id, subject_id |-> vc.subject, issuer_id |-> vc.issuer,
      category |-> vc.category, schema_id |-> vc.schemaId, from |-> from, until |-> until,
      body_root |-> vc.bodyRoot, reliance_root |-> vc.relianceRoot,
      fields |-> vc.disclosures, reliance |-> vc.relianceDisclosures,
      issuer_signature |-> vc.aionSignature]
        : from \in FromRfc3339(vc.validFrom), until \in Until(vc)}

(* Mutant of ImportVC: the rebuilt claim is not verified. *)
ImportUnverified(vc) ==
    {c \in RebuildNative(vc) : DecodeDidKey(vc.verificationMethod) = {c.issuer_id}}

(* The claim a credential imports to; none if it is refused. *)
ImportVC(vc) ==
    {c \in RebuildNative(vc) :
        DecodeDidKey(vc.verificationMethod) = {c.issuer_id} /\ Authentic(c)}

-------------------------------------------------------------------------------
(* The presentation. *)

ExportVP(p) ==
    [id |-> p.presentation_id, holder |-> p.subject_id,
     verificationMethod |-> EncodeDidKey(p.subject_key),
     domain |-> p.audience, challenge |-> p.nonce, issuedAt |-> ToRfc3339(p.issued_at),
     expiresAt |-> ToRfc3339(p.expires_at), aionSignature |-> p.subject_signature,
     verifiableCredential |-> [i \in DOMAIN p.claims |-> ExportVC(p.claims[i])]]

RebuildPresentation(vp, claims) ==
    {[presentation_id |-> vp.id, subject_id |-> vp.holder,
      subject_key |-> vp.holder, audience |-> vp.domain, nonce |-> vp.challenge,
      issued_at |-> from, expires_at |-> until, claims |-> claims,
      subject_signature |-> vp.aionSignature]
        : from \in FromRfc3339(vp.issuedAt), until \in FromRfc3339(vp.expiresAt)}

(* Every credential must pass; the holder's signature is left to the caller. *)
ImportVP(vp) ==
    LET vcs == vp.verifiableCredential
        claims == [i \in DOMAIN vcs |-> CHOOSE c \in ImportVC(vcs[i]) : TRUE]
        passes == /\ DecodeDidKey(vp.verificationMethod) = {vp.holder}
                  /\ \A i \in DOMAIN vcs : ImportVC(vcs[i]) # {}
    IN  IF passes THEN RebuildPresentation(vp, claims) ELSE {}

-------------------------------------------------------------------------------
(* The calendar, as the rules of leap years and months give it. *)

Leap(y) == y % 4 = 0 /\ (y % 100 # 0 \/ y % 400 = 0)

MonthLength(y, m) ==
    IF m = 2 THEN (IF Leap(y) THEN 29 ELSE 28) ELSE IF m \in {4, 6, 9, 11} THEN 30 ELSE 31

DayAfter(c) ==
    IF c.d < MonthLength(c.y, c.m) THEN [c EXCEPT !.d = @ + 1]
    ELSE IF c.m < 12 THEN [y |-> c.y, m |-> c.m + 1, d |-> 1]
    ELSE [y |-> c.y + 1, m |-> 1, d |-> 1]

NextDay ==
    /\ walked < MaxWalk /\ native = Nothing
    /\ walked' = walked + 1
    /\ today' = [day |-> today.day + 1, date |-> DayAfter(today.date)]
    /\ UNCHANGED <<native, doc, altered>>

(* A presentation with its id. *)
Identified(p) ==
    [presentation_id |-> Hash(PresSigning(p)), subject_id |-> p.subject_id,
     subject_key |-> p.subject_key, audience |-> p.audience, nonce |-> p.nonce,
     issued_at |-> p.issued_at, expires_at |-> p.expires_at, claims |-> p.claims,
     subject_signature |-> p.subject_signature]

(* A wallet presents what it holds, open or ending today. *)
Build ==
    /\ native = Nothing /\ today.date.d \in ExportDays
    /\ \E sod \in Hours, lifetime \in Lifetimes, last \in {TRUE, FALSE} :
          LET now == [day |-> today.day, sod |-> sod]
              p == BuildPresentation(Subject, Audience, Nonce, now,
                       [now EXCEPT !.day = @ + lifetime],
                       Held(now, IF last THEN now ELSE OpenEnd))
          IN  native' = Identified(p)
    /\ UNCHANGED <<today, walked, doc, altered>>

Export ==
    /\ native # Nothing /\ doc = Nothing
    /\ \A i \in DOMAIN native.claims : native.claims[i].issuer_id \in Resolvable
    /\ doc' = ExportVP(native)
    /\ UNCHANGED <<today, walked, native, altered>>

-------------------------------------------------------------------------------
(* Other tools on the way. *)

RewrittenTexts(s) ==
    {[s EXCEPT !.date.d = 31], [s EXCEPT !.date.y = @ + 1], [s EXCEPT !.hh = -1],
     [s EXCEPT !.ss = 60]}

RewrittenKeys(text) == {EncodeDidKey(k) : k \in Key} \cup {Tail(text), <<0>> \o text}

RewrittenVCs(vc) ==
    {[vc EXCEPT !.validFrom = s] : s \in RewrittenTexts(vc.validFrom)}
        \cup {[vc EXCEPT !.validUntil = s] : s \in
                 {Absent} \cup IF vc.validUntil = Absent THEN {vc.validFrom}
                               ELSE RewrittenTexts(vc.validUntil)}
        \cup {[vc EXCEPT !.verificationMethod = s] : s \in RewrittenKeys(vc.verificationMethod)}
        \cup {[vc EXCEPT !.issuer = k, !.verificationMethod = EncodeDidKey(k)] : k \in Key}
        \cup {[vc EXCEPT !.subject = k] : k \in Key}
        \cup {[vc EXCEPT !.id = Forged], [vc EXCEPT !.relianceDisclosures = {}]}
        \cup UNION {{[vc EXCEPT !.disclosures[f] = Forged], [vc EXCEPT !.readable[f] = Forged],
                     [vc EXCEPT !.disclosures = Restrict(@, DOMAIN @ \ {f})]}
                       : f \in DOMAIN vc.disclosures}

RewrittenVPs(vp) ==
    {[vp EXCEPT !.issuedAt = s] : s \in RewrittenTexts(vp.issuedAt)}
        \cup {[vp EXCEPT !.expiresAt = s] : s \in RewrittenTexts(vp.expiresAt)}
        \cup {[vp EXCEPT !.holder = k, !.verificationMethod = EncodeDidKey(k)] : k \in Key}
        \cup {[vp EXCEPT !.verificationMethod = s] : s \in RewrittenKeys(vp.verificationMethod)}
        \cup {[vp EXCEPT !.domain = Elsewhere],
              [vp EXCEPT !.verifiableCredential = Reverse(@)],
              [vp EXCEPT !.verifiableCredential = Tail(@)]}
        \cup UNION {{[vp EXCEPT !.verifiableCredential[i] = vc]
                       : vc \in RewrittenVCs(vp.verifiableCredential[i])}
                    : i \in DOMAIN vp.verifiableCredential}

Rewrite ==
    /\ doc # Nothing /\ altered < MaxAltered
    /\ doc.verifiableCredential # <<>>
    /\ altered' = altered + 1
    /\ doc' \in RewrittenVPs(doc)
    /\ UNCHANGED <<today, walked, native>>

IoInit ==
    /\ today \in {NewYear(y) : y \in FirstYears} /\ walked = 0
    /\ native = Nothing /\ doc = Nothing /\ altered = 0

IoNext == NextDay \/ Build \/ Export \/ Rewrite

IoSpec == IoInit /\ [][IoNext]_ioVars

-------------------------------------------------------------------------------
(* Properties. *)

(* The closed formulas agree with the calendar on every day walked, in both  *)
(* directions: leap days, centuries, the years before 1 and the days before  *)
(* the epoch (rfc3339.rs:59-81).                                             *)
CalendarAgrees ==
    CivilFromDays(today.day) = today.date /\ DaysFromCivil(today.date) = today.day

YearOf(t) == CivilFromDays(t.day).y

TimesOf(p) ==
    {p.issued_at, p.expires_at}
        \cup UNION {{c.from, c.until} \ {OpenEnd} : c \in Range(p.claims)}

(* What a presentation comes to on the way out and back: itself, exactly     *)
(* when all its times fall in years four characters can write.               *)
BackAgain(p) == IF \A t \in TimesOf(p) : FourCharacters(YearOf(t)) THEN {p} ELSE {}

(* A document nobody touched imports to the presentation it was exported     *)
(* from, or is refused for a year that four characters cannot write; it is   *)
(* never misread (vc.rs:23-99, vp.rs:26-103, rfc3339.rs:15-50).              *)
RoundTripsExactly == doc # Nothing /\ altered = 0 => ImportVP(doc) = BackAgain(native)

(* Whatever other tools wrote anew, an import yields only claims their       *)
(* issuers signed, about the subject they signed them for and as part of     *)
(* what was shown; and once the holder's signature holds as well, it is the  *)
(* presentation that was built, but for fields left out (vc.rs:79-99,        *)
(* vp.rs:62-103).                                                            *)
ImportedIsSigned ==
    doc # Nothing =>
        \A p \in ImportVP(doc) :
            /\ \A c \in Range(p.claims) : \E o \in Range(native.claims) :
                  /\ [c EXCEPT !.fields = o.fields] = o
                  /\ \A k \in DOMAIN c.fields : c.fields[k] = o.body_root[k]
            /\ p.subject_signature = [by |-> p.subject_key, over |-> PresSigning(p)] =>
                  /\ PresSigning(p) = PresSigning(native)
                  /\ p.subject_key = native.subject_key

(* What was imported, of whatever other tools wrote, can be exported and     *)
(* imported again and stays what it is: an odd text (the 31st of February,   *)
(* an hour before midnight written as hour -1) is read once and then written *)
(* as the time it meant (rfc3339.rs:15-50).                                  *)
ImportIsStable == doc # Nothing => \A p \in ImportVP(doc) : ImportVP(ExportVP(p)) = BackAgain(p)
===============================================================================
