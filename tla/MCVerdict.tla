------------------------------- MODULE MCVerdict -------------------------------
(* A small instance of Verdict: a degree and a background check that relies   *)
(* on an identity claim the wallet does not show.  The degree expires at 1;   *)
(* its rank is a number, the level of the check a text.                       *)
(*                                                                            *)
(* Beside it, a small instance of Wallet: alice may be given these claims, a  *)
(* later degree of another scale and a degree of bob's.  The two share no     *)
(* state, so one of them moves while the other rests where it began.          *)
EXTENDS Verdict, Wallet

CONSTANTS alice, bob, acme, mallet, uni, checker, degree, check, scale1, scale2,
          idDegree, idCheck, idIdentity, idOther, idMaster, idBob, n1, nShort, open, any

Number(r) == [kind |-> "number", rank |-> r]
Text(r) == [kind |-> "text", rank |-> r]
MCGarbage == Number(9)

DegreeBody == [rank |-> Number(3), year |-> Number(1)]
CheckBody == [level |-> Text(2)]
MasterBody == [rank |-> Number(4), year |-> Number(2)]

MCHash(content) ==
    CASE content = <<alice, uni, degree, scale1, 0, 1, DegreeBody, {}>> -> idDegree
      [] content = <<alice, checker, check, scale1, 0, open, CheckBody, {idIdentity}>> -> idCheck
      [] content = <<alice, uni, degree, scale2, 1, open, MasterBody, {}>> -> idMaster
      [] content = <<bob, uni, degree, scale1, 0, open, DegreeBody, {}>> -> idBob
      [] OTHER -> idOther

Degree == IssueClaim(alice, uni, degree, scale1, 0, 1, DegreeBody, {})
CheckDone == IssueClaim(alice, checker, check, scale1, 0, open, CheckBody, {idIdentity})
MCHeld == {Degree, CheckDone}

MCSelections ==
    {<<Disclose(CheckDone, {"level"})>>,
     <<Disclose(Degree, {"rank"}), Disclose(CheckDone, {"level"})>>}

Asks(category, field, op, bound, scale) ==
    [category |-> category, field |-> field, op |-> op, bound |-> bound, scale_version |-> scale]

MCRequests ==
    {Asks(degree, "rank", "Ge", Number(3), scale1), Asks(degree, "rank", "Gt", Number(3), any),
     Asks(degree, "year", "Ge", Number(1), any), Asks(degree, "rank", "Ge", Number(1), scale2),
     Asks(check, "level", "Ge", Text(1), any), Asks(check, "level", "Le", Number(3), any)}

-------------------------------------------------------------------------------
(* The wallet.  Time runs from -2 to 4, and calls are made at 0 and at 3. *)

Master == IssueClaim(alice, uni, degree, scale2, 1, open, MasterBody, {})
BobsDegree == IssueClaim(bob, uni, degree, scale1, 0, open, DegreeBody, {})
MCClaim == {Degree, CheckDone, Master, BobsDegree}

MCTagValue(category) == [kind |-> "text", rank |-> IF category = degree THEN 1 ELSE 2]

Pick(id, keys) == [claim_id |-> id, keys |-> keys]

MCMinSecond == -2
MCLifetimes == {-2, 0, 1, 3}

MCSelectionLists ==
    {<<>>, <<Pick(idDegree, {"rank"})>>, <<Pick(idDegree, AllFields)>>,
     <<Pick(idMaster, {"year"}), Pick(idCheck, {"level"})>>,
     <<Pick(idBob, {"rank"})>>, <<Pick(idDegree, {})>>, <<Pick(idDegree, {"rank", "level"})>>,
     <<Pick(idDegree, {"rank"}), Pick(idDegree, {"year"})>>, <<Pick(idCheck, {CLAIM_TYPE_TAG})>>}

MCRequestLists ==
    {<<>>, <<Asks(degree, "rank", "Ge", Number(3), any)>>,
     <<Asks(degree, "rank", "Ge", Number(3), scale2)>>,
     <<Asks(degree, "rank", "Gt", Number(3), any), Asks(check, "level", "Le", Text(2), any)>>,
     <<Asks(check, CLAIM_TYPE_TAG, "Eq", Text(2), any)>>,
     <<Asks(check, "level", "Eq", Number(2), any)>>}

AllTrusted ==
    [issuers |-> {uni, checker}, required |-> {}, accredited |-> {},
     revoked |-> {}, unresolvable |-> {}]

MCAnchor ==
    {AllTrusted, [AllTrusted EXCEPT !.issuers = {uni}], [AllTrusted EXCEPT !.required = {degree}],
     [AllTrusted EXCEPT !.required = {degree}, !.accredited = {<<uni, degree>>}],
     [AllTrusted EXCEPT !.revoked = {idIdentity}], [AllTrusted EXCEPT !.unresolvable = {idIdentity}],
     [AllTrusted EXCEPT !.revoked = {idMaster}]}

MCInit == VdInit /\ WlInit

MCNext ==
    \/ WlInit /\ VdNext /\ UNCHANGED wlVars
    \/ VdInit /\ WlNext /\ UNCHANGED vdVars

MCSpec == MCInit /\ [][MCNext]_<<vdVars, wlVars>>
===============================================================================
