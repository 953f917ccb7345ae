------------------------------ MODULE Presenting ------------------------------
(****************************************************************************)
(* How a wallet answers: which claims and fields it discloses, for how      *)
(* long, and when it refuses (aion-trust-wallet/src/lib.rs, with            *)
(* Timestamp::plus_seconds of aion-trust-core/src/time.rs).                 *)
(*                                                                          *)
(* The claims a wallet holds are a sequence, oldest first; the same claim   *)
(* may have been added twice.  A selection is a record [claim_id, keys],    *)
(* where keys is a set of field keys or AllFields.                          *)
(****************************************************************************)
EXTENDS Verification, SequencesExt

CONSTANTS
    MinSecond, MaxSecond,  \* the range of a timestamp: of i64 in the code
    AllFields,             \* the selector that reveals every field
    CLAIM_TYPE_TAG,        \* the key that names the body's type in its JSON
    TagValue(_)            \* the value of that key in a category

(* Mutant of PlusSeconds: the sum wraps around. *)
PlusSecondsWrapped(t, seconds) ==
    ((t + seconds - MinSecond) % (MaxSecond - MinSecond + 1)) + MinSecond

(* The sum saturates. *)
PlusSeconds(t, seconds) ==
    LET sum == t + seconds
    IN  IF sum > MaxSecond THEN MaxSecond ELSE IF sum < MinSecond THEN MinSecond ELSE sum

-------------------------------------------------------------------------------
(* What a call comes to: a refusal, or what is disclosed. *)

NONE == "none"
Refuse(error) == [refused |-> error, disclosed |-> <<>>]
Show(disclosed) == [refused |-> NONE, disclosed |-> disclosed]

(* Mutant of DiscloseBy: what a claim relies on is shown with all of it only. *)
DiscloseByFields(c, keys) ==
    IF keys = AllFields THEN Disclose(c, DOMAIN c.body_root)
    ELSE [Disclose(c, keys) EXCEPT !.reliance = {}]

DiscloseBy(c, keys) == Disclose(c, IF keys = AllFields THEN DOMAIN c.body_root ELSE keys)

(* The first held claim with an id, if any. *)
Find(claims, id) == SelectInSeq(claims, LAMBDA c : c.claim_id = id)

SelectorError(c, keys) ==
    IF keys = AllFields THEN NONE
    ELSE IF keys = {} THEN "EmptySelection"
    ELSE IF keys \subseteq DOMAIN c.body_root THEN NONE
    ELSE "UnknownField"

SelectionError(claims, sel) ==
    LET i == Find(claims, sel.claim_id)
    IN  IF i = 0 THEN "UnknownClaim" ELSE SelectorError(claims[i], sel.keys)

(* The first selection that is wrong decides; if none is, all are shown. *)
DiscloseSelected(claims, selections) ==
    LET wrong == SelectInSeq(selections, LAMBDA sel : SelectionError(claims, sel) # NONE)
    IN  IF wrong # 0 THEN Refuse(SelectionError(claims, selections[wrong]))
        ELSE Show([i \in DOMAIN selections |->
                      DiscloseBy(claims[Find(claims, selections[i].claim_id)],
                                 selections[i].keys)])

DiscloseAll(claims) == Show([i \in DOMAIN claims |-> DiscloseBy(claims[i], AllFields)])

Present(claims, selections) ==
    IF selections = <<>> THEN DiscloseAll(claims) ELSE DiscloseSelected(claims, selections)

PresentAll(claims, ids) ==
    Present(claims, [i \in DOMAIN ids |-> [claim_id |-> ids[i], keys |-> AllFields]])

-------------------------------------------------------------------------------
(* Answering predicates. *)

(* A body's JSON has its fields and the key that names its type. *)
FieldValues(c) ==
    [k \in DOMAIN c.body_root \cup {CLAIM_TYPE_TAG} |->
        IF k \in DOMAIN c.body_root THEN c.body_root[k] ELSE TagValue(c.category)]

(* Mutant of Answers: any claim of the category with such a field will do. *)
AnswersByField(c, req) == c.category = req.category /\ req.field \in DOMAIN FieldValues(c)

(* The wallet compares the field; it asks neither for the scale nor whether  *)
(* the claim is its subject's, still valid or live.                          *)
Answers(c, req) ==
    /\ c.category = req.category
    /\ req.field \in DOMAIN FieldValues(c)
    /\ Holds(req.op, FieldValues(c)[req.field], req.bound)

FindSatisfying(claims, req) == SelectInSeq(claims, LAMBDA c : Answers(c, req))

(* The type's key can be compared but is no leaf that could be disclosed. *)
RequestError(claims, req) ==
    LET i == FindSatisfying(claims, req)
    IN  IF i = 0 THEN "UnsatisfiablePredicate"
        ELSE IF req.field \notin DOMAIN claims[i].body_root THEN "Build"
        ELSE NONE

(* Mutant of Satisfy: the claims that answer are shown in full. *)
SatisfyInFull(claims, requests) ==
    LET wrong == SelectInSeq(requests, LAMBDA req : RequestError(claims, req) # NONE)
    IN  IF wrong # 0 THEN Refuse(RequestError(claims, requests[wrong]))
        ELSE Show([i \in DOMAIN requests |->
                      DiscloseBy(claims[FindSatisfying(claims, requests[i])], AllFields)])

(* For each request the first held claim that answers it shows that field. *)
Satisfy(claims, requests) ==
    LET wrong == SelectInSeq(requests, LAMBDA req : RequestError(claims, req) # NONE)
    IN  IF wrong # 0 THEN Refuse(RequestError(claims, requests[wrong]))
        ELSE Show([i \in DOMAIN requests |->
                      DiscloseBy(claims[FindSatisfying(claims, requests[i])],
                                 {requests[i].field})])

-------------------------------------------------------------------------------
(* The presentation of what is disclosed, built at `now` for `ttl` seconds. *)
BuildFor(subject, audience, nonce, now, ttl, disclosed) ==
    BuildPresentation(subject, audience, nonce, now, PlusSeconds(now, ttl), disclosed)
===============================================================================
