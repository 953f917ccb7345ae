----------------------------- MODULE MCDisclosure -----------------------------
(* All seven categories, from two fields to seven, and up to three relied-on *)
(* claims, the same one twice among them.                                    *)
(*                                                                           *)
(* Beside it, a small instance of Encoding: nine values of a byte, digits 0, *)
(* 1 and a (in both cases) and a character that is none.                     *)
EXTENDS Disclosure, Encoding

CONSTANTS a, b, identity_basis, prior_check

MCCategory == DOMAIN FieldKeys

On(id, kind) == [from_claim_id |-> id, kind |-> kind]

MCReliance ==
    {<<>>, <<On(a, identity_basis)>>, <<On(a, identity_basis), On(b, prior_check)>>,
     <<On(a, identity_basis), On(b, prior_check), On(a, prior_check)>>}

MCMaxAlterations(category) == IF Len(FieldKeys[category]) <= 3 THEN 2 ELSE 1

-------------------------------------------------------------------------------
(* Encodings: one domain is the beginning of the other, fields look like      *)
(* lengths and like the encodings of others, and one fills its length's byte. *)

MCDomain == {<<0, 1>>, <<0, 1, 0>>}
MCBytes == {<<>>, <<0>>, <<1>>, <<0, 1>>, <<0, 1, 0>>, <<0, 0>>, [i \in 1..9 |-> 0]}
MCInts == {-1, 0, 1, 81}

MCCharacter == {LowerCase(h) : h \in 0..HexBase} \cup {[digit |-> 2, upper |-> TRUE]}
===============================================================================
