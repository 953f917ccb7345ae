---------------------------- MODULE PresentingProofs ----------------------------
(****************************************************************************)
(* What the operators of Verification and Presenting return, for any claim, *)
(* selection and request: the parts of an issued claim, of its disclosures  *)
(* and of a presentation, what a wallet's search finds, and what a call     *)
(* that is not refused discloses.                                           *)
(****************************************************************************)
EXTENDS Presenting, WellFoundedInduction, TLAPS

-------------------------------------------------------------------------------
(* Claims and their disclosures. *)

AsClaim(id, su, is, ca, sc, fr, un, bo, re, fi, rl, sg) ==
    [claim_id |-> id, subject_id |-> su, issuer_id |-> is, category |-> ca, schema_id |-> sc,
     from |-> fr, until |-> un, body_root |-> bo, reliance_root |-> re, fields |-> fi,
     reliance |-> rl, issuer_signature |-> sg]

(* c is a claim: a record of these twelve fields. *)
ClaimShaped(c) ==
    c = AsClaim(c.claim_id, c.subject_id, c.issuer_id, c.category, c.schema_id, c.from, c.until,
                c.body_root, c.reliance_root, c.fields, c.reliance, c.issuer_signature)

(* Replacing one field of a claim. *)
LEMMA ReplaceFields ==
  ASSUME NEW id, NEW su, NEW is, NEW ca, NEW sc, NEW fr, NEW un, NEW bo, NEW re, NEW fi,
         NEW rl, NEW sg, NEW x
  PROVE  [AsClaim(id, su, is, ca, sc, fr, un, bo, re, fi, rl, sg) EXCEPT !.fields = x]
           = AsClaim(id, su, is, ca, sc, fr, un, bo, re, x, rl, sg)
  BY DEF AsClaim

LEMMA ReplaceReliance ==
  ASSUME NEW id, NEW su, NEW is, NEW ca, NEW sc, NEW fr, NEW un, NEW bo, NEW re, NEW fi,
         NEW rl, NEW sg, NEW x
  PROVE  [AsClaim(id, su, is, ca, sc, fr, un, bo, re, fi, rl, sg) EXCEPT !.reliance = x]
           = AsClaim(id, su, is, ca, sc, fr, un, bo, re, fi, x, sg)
  BY DEF AsClaim

(* Two fields are replaced one after the other. *)
LEMMA ReplaceTwo ==
  ASSUME NEW c, NEW x, NEW y
  PROVE  /\ \E e : e = [c EXCEPT !.fields = x]
                   /\ [c EXCEPT !.fields = x, !.reliance = y] = [e EXCEPT !.reliance = y]
         /\ \E e : e = [c EXCEPT !.reliance = x]
                   /\ [c EXCEPT !.reliance = x, !.reliance_root = y]
                        = [e EXCEPT !.reliance_root = y]
  OBVIOUS

(* An issued claim, part by part. *)
LEMMA IssuedParts ==
  ASSUME NEW d, AsIssued(d)
  PROVE  /\ ClaimShaped(d)
         /\ d.claim_id = Hash(ClaimSigning(d))
         /\ d.issuer_signature = [by |-> d.issuer_id, over |-> ClaimSigning(d)]
  <1> DEFINE content == <<d.subject_id, d.issuer_id, d.category, d.schema_id, d.from, d.until,
                          d.body_root, d.reliance_root>>
             sig == [by |-> d.issuer_id, over |-> content]
  <1>1. d = AsClaim(Hash(content), d.subject_id, d.issuer_id, d.category, d.schema_id, d.from,
                    d.until, d.body_root, d.reliance_root, <<>>, {}, sig)
    BY DEF AsIssued, IssueClaim, AsClaim
  <1>2. ClaimSigning(d) = content
    BY DEF ClaimSigning
  <1> HIDE DEF content, sig
  <1>3. /\ d.claim_id = Hash(content) /\ d.fields = <<>> /\ d.reliance = {}
        /\ d.issuer_signature = sig
    BY <1>1 DEF AsClaim
  <1>4. ClaimShaped(d)
    BY <1>1, <1>3 DEF ClaimShaped
  <1>5. QED
    BY <1>2, <1>3, <1>4 DEF sig

(* What an issuer signs is a claim as issued, with the parts it was given. *)
LEMMA SignedParts ==
  ASSUME NEW su, NEW is, NEW ca, NEW sc, NEW fr, NEW un, NEW bo, NEW re,
         NEW d, d = IssueClaim(su, is, ca, sc, fr, un, bo, re)
  PROVE  /\ d.subject_id = su /\ d.issuer_id = is /\ d.category = ca /\ d.schema_id = sc
         /\ d.from = fr /\ d.until = un /\ d.body_root = bo /\ d.reliance_root = re
         /\ AsIssued(d)
  <1> DEFINE content == <<su, is, ca, sc, fr, un, bo, re>>
             sig == [by |-> is, over |-> content]
  <1>1. d = AsClaim(Hash(content), su, is, ca, sc, fr, un, bo, re, <<>>, {}, sig)
    BY DEF IssueClaim, AsClaim
  <1> HIDE DEF content, sig
  <1>2. /\ d.subject_id = su /\ d.issuer_id = is /\ d.category = ca /\ d.schema_id = sc
        /\ d.from = fr /\ d.until = un /\ d.body_root = bo /\ d.reliance_root = re
    BY <1>1 DEF AsClaim
  <1>3. QED
    BY <1>2 DEF AsIssued

(* What is disclosed of an issued claim: the claim but for what is revealed,  *)
(* which is all of its reliance and exactly the chosen fields, and which its *)
(* issuer's signature proves.                                                *)
LEMMA DisclosedParts ==
  ASSUME NEW d, AsIssued(d), NEW keys, NEW c, c = Disclose(d, keys)
  PROVE  /\ c.claim_id = d.claim_id /\ c.subject_id = d.subject_id
         /\ c.issuer_id = d.issuer_id /\ c.category = d.category
         /\ c.schema_id = d.schema_id /\ c.from = d.from /\ c.until = d.until
         /\ c.body_root = d.body_root /\ c.reliance_root = d.reliance_root
         /\ c.reliance = d.reliance_root
         /\ DOMAIN c.fields = keys /\ \A k \in keys : c.fields[k] = d.body_root[k]
         /\ c.fields = Restrict(c.body_root, DOMAIN c.fields)
         /\ c = Disclose(d, DOMAIN c.fields)
         /\ ClaimShaped(c)
         /\ keys \subseteq DOMAIN d.body_root => Authentic(c)
  <1> DEFINE shown == Restrict(d.body_root, keys)
             relied == d.reliance_root
             sig == d.issuer_signature
  <1>1. ClaimShaped(d) /\ d.claim_id = Hash(ClaimSigning(d))
        /\ sig = [by |-> d.issuer_id, over |-> ClaimSigning(d)]
    BY IssuedParts
  <1>2. DOMAIN shown = keys /\ \A k \in keys : shown[k] = d.body_root[k]
    BY DEF Restrict
  <1>3. c = [d EXCEPT !.fields = shown, !.reliance = relied]
    BY DEF Disclose
  <1> HIDE DEF shown, relied, sig
  <1>4. PICK e : e = [d EXCEPT !.fields = shown] /\ c = [e EXCEPT !.reliance = relied]
    BY <1>3, ReplaceTwo
  <1>5. e = AsClaim(d.claim_id, d.subject_id, d.issuer_id, d.category, d.schema_id, d.from,
                    d.until, d.body_root, d.reliance_root, shown, d.reliance, sig)
    BY <1>1, <1>4, ReplaceFields DEF ClaimShaped, sig
  <1>6. c = AsClaim(d.claim_id, d.subject_id, d.issuer_id, d.category, d.schema_id, d.from,
                    d.until, d.body_root, d.reliance_root, shown, relied, sig)
    <2>1. [e EXCEPT !.reliance = relied]
            = AsClaim(d.claim_id, d.subject_id, d.issuer_id, d.category, d.schema_id, d.from,
                      d.until, d.body_root, d.reliance_root, shown, relied, sig)
      BY <1>5, ReplaceReliance
    <2>2. QED
      BY <1>4, <2>1
  <1>7. /\ c.claim_id = d.claim_id /\ c.subject_id = d.subject_id
        /\ c.issuer_id = d.issuer_id /\ c.category = d.category
        /\ c.schema_id = d.schema_id /\ c.from = d.from /\ c.until = d.until
        /\ c.body_root = d.body_root /\ c.reliance_root = d.reliance_root
        /\ c.fields = shown /\ c.reliance = relied /\ c.issuer_signature = sig
    BY <1>6 DEF AsClaim
  <1>8. ClaimShaped(c)
    BY <1>6, <1>7 DEF ClaimShaped
  <1>9. ClaimSigning(c) = ClaimSigning(d)
    BY <1>7 DEF ClaimSigning
  <1>10. keys \subseteq DOMAIN d.body_root => FieldsProven(c)
    BY <1>2, <1>7 DEF FieldsProven
  <1>11. RelianceProven(c)
    BY <1>7 DEF RelianceProven, relied
  <1>12. keys \subseteq DOMAIN d.body_root => Authentic(c)
    BY <1>1, <1>7, <1>9, <1>10, <1>11 DEF Authentic, sig
  <1>13. c.fields = Restrict(c.body_root, DOMAIN c.fields)
    BY <1>2, <1>7 DEF shown
  <1>14. QED
    BY <1>2, <1>7, <1>8, <1>12, <1>13 DEF relied

-------------------------------------------------------------------------------
(* Presentations. *)

AsPres(su, key, au, no, is, ex, cl, sg) ==
    [subject_id |-> su, subject_key |-> key, audience |-> au, nonce |-> no, issued_at |-> is,
     expires_at |-> ex, claims |-> cl, subject_signature |-> sg]

(* What a wallet builds is signed by its subject ... *)
LEMMA BuiltSigned ==
  ASSUME NEW su, NEW au, NEW no, NEW is, NEW ex, NEW cl,
         NEW q, q = BuildPresentation(su, au, no, is, ex, cl)
  PROVE  q = AsPres(su, su, au, no, is, ex, cl, [by |-> su, over |-> PresSigning(q)])
  <1> DEFINE ids == [i \in DOMAIN cl |-> cl[i].claim_id]
             content == <<su, au, no, is, ex, ids>>
             unsigned == AsPres(su, su, au, no, is, ex, cl, <<>>)
             sig == [by |-> su, over |-> content]
  <1>1. PresSigning(unsigned) = content
    BY DEF PresSigning, AsPres
  <1>2. q = [unsigned EXCEPT !.subject_signature = [by |-> su, over |-> PresSigning(unsigned)]]
    BY DEF BuildPresentation, AsPres
  <1> HIDE DEF content
  <1>3. q = AsPres(su, su, au, no, is, ex, cl, sig)
    BY <1>1, <1>2 DEF AsPres
  <1>4. PresSigning(q) = content
    BY <1>3 DEF PresSigning, AsPres, content
  <1>5. QED
    BY <1>3, <1>4

(* ... part by part. *)
LEMMA BuiltParts ==
  ASSUME NEW su, NEW au, NEW no, NEW is, NEW ex, NEW cl,
         NEW q, q = BuildPresentation(su, au, no, is, ex, cl)
  PROVE  /\ q.subject_id = su /\ q.subject_key = su /\ q.audience = au /\ q.nonce = no
         /\ q.issued_at = is /\ q.expires_at = ex /\ q.claims = cl
         /\ q.subject_signature.by = su /\ q.subject_signature.over = PresSigning(q)
  <1>1. q = AsPres(su, su, au, no, is, ex, cl, [by |-> su, over |-> PresSigning(q)])
    BY BuiltSigned
  <1> DEFINE content == PresSigning(q)
  <1> HIDE DEF content
  <1>2. q = AsPres(su, su, au, no, is, ex, cl, [by |-> su, over |-> content])
    BY <1>1 DEF content
  <1>3. QED
    BY <1>2 DEF AsPres, content

-------------------------------------------------------------------------------
(* Reports. *)

(* A claim fails no check exactly if it is the presenter's, authentic, within *)
(* its validity, accredited where that is required, and neither it nor what  *)
(* it relies on is revoked or out of sight.                                  *)
LEMMA SoundClaim ==
  ASSUME NEW c, NEW s, NEW t, NEW a
  PROVE  ClaimFailures(c, s, t, a) = {} <=>
            /\ c.subject_id = s /\ c.issuer_id \in a.issuers /\ Authentic(c)
            /\ WithinValidity(c, t) /\ AccreditedOk(c, a) /\ c.claim_id \notin a.revoked
            /\ c.reliance \cap a.revoked = {} /\ c.reliance \cap a.unresolvable = {}
  <1>1. Relies(c, a, "Revoked") <=> c.reliance \cap a.revoked # {}
    BY DEF Relies, Status
  <1>2. ~Relies(c, a, "Revoked") =>
            (Relies(c, a, "Unresolvable") <=> c.reliance \cap a.unresolvable # {})
    BY DEF Relies, Status
  <1>3. TrustFailures(c, t, a) = {} <=>
            /\ WithinValidity(c, t) /\ AccreditedOk(c, a) /\ c.claim_id \notin a.revoked
            /\ ~Relies(c, a, "Revoked") /\ ~Relies(c, a, "Unresolvable")
    BY DEF TrustFailures, OwnFailures, FailsUnless
  <1>4. ClaimFailures(c, s, t, a) = {} <=>
            c.subject_id = s /\ c.issuer_id \in a.issuers /\ Authentic(c)
                /\ TrustFailures(c, t, a) = {}
    BY DEF ClaimFailures, FailsUnless
  <1>5. QED
    BY <1>1, <1>2, <1>3, <1>4

(* The subject whose key the presentation names signed it. *)
SubjectSigned(q) == q.subject_signature = [by |-> q.subject_key, over |-> PresSigning(q)]

(* What a wallet builds is signed so. *)
LEMMA SubjectSigns ==
  ASSUME NEW su, NEW au, NEW no, NEW is, NEW ex, NEW cl,
         NEW q, q = BuildPresentation(su, au, no, is, ex, cl)
  PROVE  SubjectSigned(q)
  <1> DEFINE content == PresSigning(q)
  <1>1. q = AsPres(su, su, au, no, is, ex, cl, [by |-> su, over |-> content])
    BY BuiltSigned
  <1> HIDE DEF content
  <1>2. q.subject_signature = [by |-> su, over |-> content] /\ q.subject_key = su
    BY <1>1 DEF AsPres
  <1>3. QED
    BY <1>2 DEF SubjectSigned, content

(* Every claim passes, and every request is met by one. *)
ClaimsPass(q, t, a) == \A c \in Range(q.claims) : ClaimFailures(c, q.subject_id, t, a) = {}
RequestsMet(q, t, a, rs) ==
    \A req \in rs : \E c \in Range(q.claims) : PredicateHolds(req, c, q.subject_id, t, a)

(* A presentation is accepted exactly if no part of its report fails. *)
LEMMA AcceptedParts ==
  ASSUME NEW q, NEW au, NEW t, NEW a, NEW b, NEW rs
  PROVE  FailedChecks(q, au, t, a, b, rs) = {} <=>
            /\ q.subject_key = q.subject_id /\ q.audience = au
            /\ q.issued_at <= t /\ t <= q.expires_at
            /\ ~b /\ q.nonce \notin ShortNonce /\ q.claims # <<>>
            /\ SubjectSigned(q) /\ ClaimsPass(q, t, a) /\ RequestsMet(q, t, a, rs)
  <1>1. BindingFailures(q, au, t, b) = {} <=>
            /\ q.subject_key = q.subject_id /\ q.audience = au
            /\ q.issued_at <= t /\ t <= q.expires_at
            /\ ~b /\ q.nonce \notin ShortNonce /\ q.claims # <<>>
            /\ SubjectSigned(q)
    BY DEF SubjectSigned, BindingFailures, EnvelopeFailures, FailsUnless
  <1>2. PredicateFailures(q, t, a, rs) = {} <=> RequestsMet(q, t, a, rs)
    BY DEF PredicateFailures, FailsUnless, RequestsMet
  <1>3. FailedChecks(q, au, t, a, b, rs) = {} <=>
            /\ BindingFailures(q, au, t, b) = {} /\ PredicateFailures(q, t, a, rs) = {}
            /\ ClaimsPass(q, t, a)
    BY DEF FailedChecks, ClaimsPass
  <1>4. QED
    BY <1>1, <1>2, <1>3

-------------------------------------------------------------------------------
(* Values. *)

(* The value of a field of the body is the body's. *)
LEMMA FieldOfBody ==
  ASSUME NEW c, NEW field, field \in DOMAIN c.body_root
  PROVE  FieldValues(c)[field] = c.body_root[field]
  BY DEF FieldValues

-------------------------------------------------------------------------------
(* Lists. *)

(* A list is a sequence of whatever is in it, and so is one made from it by  *)
(* replacing each of its elements.                                           *)
LEMMA SequenceOfSome ==
  ASSUME NEW n \in Nat, NEW s, s = [i \in 1..n |-> s[i]]
  PROVE  s \in Seq(Range(s))
  <1>1. s \in [1..n -> Range(s)]
    BY DEF Range
  <1>2. QED
    BY <1>1

(* One more element makes a list a list again. *)
LEMMA AppendToList ==
  ASSUME NEW s, s \in Seq(Range(s)), NEW x
  PROVE  /\ Append(s, x) \in Seq(Range(Append(s, x)))
         /\ Len(Append(s, x)) = Len(s) + 1 /\ DOMAIN Append(s, x) = 1..(Len(s) + 1)
         /\ Append(s, x)[Len(s) + 1] = x
         /\ \A i \in DOMAIN s : Append(s, x)[i] = s[i]
  <1> DEFINE U == Range(s) \cup {x}
             more == Append(s, x)
             n == Len(s) + 1
  <1>1. s \in Seq(U) /\ x \in U
    BY DEF Range
  <1> HIDE DEF U
  <1>2. /\ more \in Seq(U) /\ Len(more) = n /\ DOMAIN more = 1..n
        /\ more[n] = x /\ \A i \in DOMAIN s : more[i] = s[i]
        /\ n \in Nat
    BY <1>1
  <1> HIDE DEF more, n
  <1>3. more = [i \in 1..n |-> more[i]]
    BY <1>2
  <1>4. more \in Seq(Range(more))
    BY <1>2, <1>3, SequenceOfSome
  <1>5. QED
    BY <1>2, <1>4 DEF more, n

-------------------------------------------------------------------------------
(* Searches. *)

(* A set of natural numbers has a least one. *)
LEMMA LeastIsIn ==
  ASSUME NEW S \in SUBSET Nat, S # {}
  PROVE  Min(S) \in S /\ \A x \in S : Min(S) <= x
  <1> DEFINE Less == {ss \in Nat \X Nat : ss[1] < ss[2]}
  <1>1. Less = OpToRel(<, Nat)
    BY DEF OpToRel
  <1>2. IsWellFoundedOn(Less, Nat)
    BY <1>1, NatLessThanWellFounded
  <1> HIDE DEF Less
  <1>3. PICK x \in S : \A y \in S : ~(<<y, x>> \in Less)
    BY <1>2, WFMin
  <1>4. ASSUME NEW y \in S PROVE x <= y
    <2>1. <<y, x>> \in Nat \X Nat /\ <<y, x>> \notin Less
      BY <1>3
    <2>2. ~(y < x)
      BY <2>1 DEF Less
    <2>3. QED
      BY <2>2
  <1>5. QED
    BY <1>4 DEF Min

(* A set that has 0, and i + 1 with every i below n, has all numbers up to n. *)
LEMMA UpTo ==
  ASSUME NEW n \in Nat, NEW S, 0 \in S, \A i \in 0..n - 1 : i \in S => i + 1 \in S
  PROVE  0..n \subseteq S
  <1> DEFINE Bad == (0..n) \ S
  <1>1. ASSUME Bad # {} PROVE FALSE
    <2>1. PICK x \in Bad : \A y \in Bad : x <= y
      <3>1. Bad \in SUBSET Nat
        OBVIOUS
      <3> HIDE DEF Bad
      <3>2. QED
        BY <1>1, <3>1, LeastIsIn
    <2>2. x \in 1..n
      BY <2>1
    <2>3. x - 1 \in 0..n - 1 /\ x - 1 \in 0..n /\ ~(x <= x - 1)
      BY <2>2
    <2>4. x - 1 \in S
      BY <2>1, <2>3
    <2>5. (x - 1) + 1 = x
      BY <2>2
    <2>6. QED
      BY <2>1, <2>3, <2>4, <2>5
  <1>2. QED
    BY <1>1

(* A set of numbers up to n has a greatest one. *)
LEMMA GreatestIsIn ==
  ASSUME NEW n \in Nat, NEW S \in SUBSET (1..n), S # {}
  PROVE  Max(S) \in S /\ \A x \in S : x <= Max(S)
  <1> DEFINE T == {n - x : x \in S}
  <1>1. T \subseteq Nat /\ T # {}
    <2>1. ASSUME NEW x \in S PROVE x \in 1..n /\ n - x \in Nat
      OBVIOUS
    <2>2. PICK x : x \in S
      OBVIOUS
    <2>3. n - x \in T
      BY <2>2
    <2>4. QED
      BY <2>1, <2>3
  <1> HIDE DEF T
  <1>2. Min(T) \in T /\ \A y \in T : Min(T) <= y
    BY <1>1, LeastIsIn
  <1>3. PICK x \in S : Min(T) = n - x
    BY <1>2 DEF T
  <1>4. ASSUME NEW y \in S PROVE x >= y
    <2>1. n - y \in T
      BY DEF T
    <2>2. n - x <= n - y
      BY <1>2, <1>3, <2>1
    <2>3. QED
      BY <2>2
  <1>5. Max(S) \in S /\ \A y \in S : Max(S) >= y
    BY <1>4 DEF Max
  <1>6. QED
    BY <1>5

(* The first held claim with an id, if there is one. *)
LEMMA FindFinds ==
  ASSUME NEW T, NEW claims \in Seq(T), NEW id
  PROVE  /\ Find(claims, id) # 0 =>
               Find(claims, id) \in DOMAIN claims /\ claims[Find(claims, id)].claim_id = id
         /\ Find(claims, id) = 0 => \A i \in DOMAIN claims : claims[i].claim_id # id
  <1> DEFINE I == {i \in 1..Len(claims) : claims[i].claim_id = id}
  <1>1. Find(claims, id) = IF I # {} THEN Min(I) ELSE 0
    BY DEF Find, SelectInSeq
  <1>2. I \subseteq Nat /\ DOMAIN claims = 1..Len(claims)
    OBVIOUS
  <1>3. I # {} => Min(I) \in I
    BY <1>2, LeastIsIn
  <1>4. QED
    BY <1>1, <1>2, <1>3

(* The first held claim that answers a request, if there is one. *)
LEMMA FindSatisfyingFinds ==
  ASSUME NEW T, NEW claims \in Seq(T), NEW req
  PROVE  /\ FindSatisfying(claims, req) # 0 =>
               /\ FindSatisfying(claims, req) \in DOMAIN claims
               /\ Answers(claims[FindSatisfying(claims, req)], req)
         /\ FindSatisfying(claims, req) = 0 => \A i \in DOMAIN claims : ~Answers(claims[i], req)
  <1> DEFINE I == {i \in 1..Len(claims) : Answers(claims[i], req)}
  <1>1. FindSatisfying(claims, req) = IF I # {} THEN Min(I) ELSE 0
    BY DEF FindSatisfying, SelectInSeq
  <1>2. I \subseteq Nat /\ DOMAIN claims = 1..Len(claims)
    OBVIOUS
  <1>3. I # {} => Min(I) \in I
    BY <1>2, LeastIsIn
  <1>4. QED
    BY <1>1, <1>2, <1>3

(* A call with selections that is not refused found a claim for each, and all *)
(* of the fields it names.                                                   *)
LEMMA SelectedShown ==
  ASSUME NEW T, NEW claims \in Seq(T), NEW U, NEW sels \in Seq(U),
         NEW outcome, outcome = DiscloseSelected(claims, sels), outcome.refused = NONE
  PROVE  /\ DOMAIN outcome.disclosed = DOMAIN sels
         /\ \A i \in DOMAIN sels : \E n \in DOMAIN claims :
               /\ claims[n].claim_id = sels[i].claim_id
               /\ SelectorError(claims[n], sels[i].keys) = NONE
               /\ outcome.disclosed[i] = DiscloseBy(claims[n], sels[i].keys)
  <1> DEFINE I == {i \in 1..Len(sels) : SelectionError(claims, sels[i]) # NONE}
             wrong == IF I # {} THEN Min(I) ELSE 0
             all == [i \in DOMAIN sels |->
                        DiscloseBy(claims[Find(claims, sels[i].claim_id)], sels[i].keys)]
  <1>1. I \subseteq Nat /\ DOMAIN sels = 1..Len(sels)
    OBVIOUS
  <1>2. outcome = IF wrong # 0 THEN Refuse(SelectionError(claims, sels[wrong])) ELSE Show(all)
    BY DEF DiscloseSelected, SelectInSeq
  <1> HIDE DEF all
  <1>3. I = {}
    <2> SUFFICES ASSUME I # {} PROVE FALSE
      OBVIOUS
    <2>1. Min(I) \in I
      BY <1>1, LeastIsIn
    <2>2. wrong \in I /\ wrong # 0
      BY <2>1
    <2>3. outcome.refused = SelectionError(claims, sels[wrong])
      BY <1>2, <2>2 DEF Refuse
    <2>4. QED
      BY <2>2, <2>3
  <1>4. outcome.disclosed = all
    BY <1>2, <1>3 DEF Show
  <1>5. ASSUME NEW i \in DOMAIN sels
        PROVE  LET found == Find(claims, sels[i].claim_id)
               IN  /\ found \in DOMAIN claims /\ claims[found].claim_id = sels[i].claim_id
                   /\ SelectorError(claims[found], sels[i].keys) = NONE
    <2>1. SelectionError(claims, sels[i]) = NONE
      BY <1>1, <1>3
    <2>2. Find(claims, sels[i].claim_id) # 0
      BY <2>1 DEF SelectionError, NONE
    <2>3. QED
      BY <2>1, <2>2, FindFinds DEF SelectionError
  <1>6. QED
    BY <1>4, <1>5 DEF all

(* c is what is shown of d when one field is asked for. *)
ShowsField(c, d, field) == c = DiscloseBy(d, {field})

(* A call with requests that is not refused found a claim for each that       *)
(* answers it and has the field.                                             *)
LEMMA SatisfiedShown ==
  ASSUME NEW T, NEW claims \in Seq(T), NEW U, NEW asked \in Seq(U),
         NEW outcome, outcome = Satisfy(claims, asked), outcome.refused = NONE
  PROVE  /\ DOMAIN outcome.disclosed = DOMAIN asked
         /\ \A i \in DOMAIN asked : \E n \in DOMAIN claims :
               /\ Answers(claims[n], asked[i])
               /\ asked[i].field \in DOMAIN claims[n].body_root
               /\ ShowsField(outcome.disclosed[i], claims[n], asked[i].field)
  <1> DEFINE I == {i \in 1..Len(asked) : RequestError(claims, asked[i]) # NONE}
             wrong == IF I # {} THEN Min(I) ELSE 0
             all == [i \in DOMAIN asked |->
                        DiscloseBy(claims[FindSatisfying(claims, asked[i])], {asked[i].field})]
  <1>1. I \subseteq Nat /\ DOMAIN asked = 1..Len(asked)
    OBVIOUS
  <1>2. outcome = IF wrong # 0 THEN Refuse(RequestError(claims, asked[wrong])) ELSE Show(all)
    BY DEF Satisfy, SelectInSeq
  <1> HIDE DEF all
  <1>3. I = {}
    <2> SUFFICES ASSUME I # {} PROVE FALSE
      OBVIOUS
    <2>1. Min(I) \in I
      BY <1>1, LeastIsIn
    <2>2. wrong \in I /\ wrong # 0
      BY <2>1
    <2>3. outcome.refused = RequestError(claims, asked[wrong])
      BY <1>2, <2>2 DEF Refuse
    <2>4. QED
      BY <2>2, <2>3
  <1>4. outcome.disclosed = all
    BY <1>2, <1>3 DEF Show
  <1>5. ASSUME NEW i \in DOMAIN asked
        PROVE  LET found == FindSatisfying(claims, asked[i])
               IN  /\ found \in DOMAIN claims /\ Answers(claims[found], asked[i])
                   /\ asked[i].field \in DOMAIN claims[found].body_root
    <2>1. RequestError(claims, asked[i]) = NONE
      BY <1>1, <1>3
    <2>2. FindSatisfying(claims, asked[i]) # 0
      BY <2>1 DEF RequestError, NONE
    <2>3. asked[i].field \in DOMAIN claims[FindSatisfying(claims, asked[i])].body_root
      BY <2>1, <2>2 DEF RequestError, NONE
    <2>4. QED
      BY <2>2, <2>3, FindSatisfyingFinds
  <1>6. ASSUME NEW i \in DOMAIN asked
        PROVE  ShowsField(all[i], claims[FindSatisfying(claims, asked[i])], asked[i].field)
    BY DEF ShowsField, all
  <1>7. QED
    BY <1>4, <1>5, <1>6 DEF all

(* c shows a claim held, with some of its fields. *)
Shows(claims, c) ==
    \E d \in Range(claims) : \E keys : keys \subseteq DOMAIN d.body_root /\ c = Disclose(d, keys)

(* Whatever is called for, what is disclosed are claims held, in part. *)
LEMMA ShownIsHeld ==
  ASSUME NEW T, NEW claims \in Seq(T), NEW U, NEW asked \in Seq(U), NEW outcome,
         outcome = Present(claims, asked) \/ outcome = Satisfy(claims, asked),
         outcome.refused = NONE,
         NEW c \in Range(outcome.disclosed)
  PROVE  Shows(claims, c)
  <1>1. PICK i \in DOMAIN outcome.disclosed : c = outcome.disclosed[i]
    BY DEF Range
  <1>2. ASSUME NEW j \in DOMAIN claims, NEW keys, c = DiscloseBy(claims[j], keys),
               keys = AllFields \/ keys \subseteq DOMAIN claims[j].body_root
        PROVE  Shows(claims, c)
    BY <1>2 DEF DiscloseBy, Shows, Range
  <1>3. CASE outcome = Satisfy(claims, asked)
    <2>1. PICK n \in DOMAIN claims :
              /\ asked[i].field \in DOMAIN claims[n].body_root
              /\ ShowsField(c, claims[n], asked[i].field)
      BY <1>1, <1>3, SatisfiedShown
    <2> DEFINE keys == {asked[i].field}
    <2>2. keys \subseteq DOMAIN claims[n].body_root /\ c = DiscloseBy(claims[n], keys)
      BY <2>1 DEF ShowsField
    <2> HIDE DEF keys
    <2>3. QED
      BY <1>2, <2>2
  <1>4. CASE outcome = DiscloseSelected(claims, asked)
    <2>1. PICK n \in DOMAIN claims :
              /\ SelectorError(claims[n], asked[i].keys) = NONE
              /\ c = DiscloseBy(claims[n], asked[i].keys)
      BY <1>1, <1>4, SelectedShown
    <2>2. asked[i].keys = AllFields \/ asked[i].keys \subseteq DOMAIN claims[n].body_root
      BY <2>1 DEF SelectorError, NONE
    <2>3. QED
      BY <1>2, <2>1, <2>2
  <1>5. CASE outcome = DiscloseAll(claims)
    <2>1. outcome.disclosed = [j \in DOMAIN claims |-> DiscloseBy(claims[j], AllFields)]
      BY <1>5 DEF DiscloseAll, Show
    <2>2. i \in DOMAIN claims /\ c = DiscloseBy(claims[i], AllFields)
      BY <1>1, <2>1
    <2>3. QED
      BY <1>2, <2>2
  <1>6. QED
    BY <1>3, <1>4, <1>5 DEF Present

=================================================================================
