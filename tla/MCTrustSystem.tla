----------------------------- MODULE MCTrustSystem -----------------------------
(* A small instance of TrustSystem.  alice has an identity claim and a check  *)
(* that was issued in reliance on it; bob's wallet may be handed them too.    *)
(* The federation wants one endorsement for checks, and the checker's lapses  *)
(* at epoch 1.  v1 and v2 are replicas of acme on the registry with one store *)
(* between them; v3 is another employer that only has a directory.            *)
EXTENDS TrustSystem, TLC

CONSTANTS alice, bob, acme, initech, gov, checker, agency, identity, check,
          scale, idIdentity, idCheck, idOther, n1, sA, sB, v1, v2, v3, open, any

Number(r) == [kind |-> "number", rank |-> r]
IdentityBody == [level |-> Number(2)]
CheckBody == [score |-> Number(5)]

MCHash(content) ==
    CASE content = <<alice, agency, identity, scale, 0, open, IdentityBody, {}>> -> idIdentity
      [] content = <<alice, checker, check, scale, 0, open, CheckBody, {idIdentity}>> -> idCheck
      [] OTHER -> idOther

MCClaim == {IssueClaim(alice, agency, identity, scale, 0, open, IdentityBody, {}),
            IssueClaim(alice, checker, check, scale, 0, open, CheckBody, {idIdentity})}

MCTagValue(category) == [kind |-> "text", rank |-> IF category = check THEN 1 ELSE 2]

MCPolicy == check :> [k |-> 1, accreditors |-> {gov}]

MCRecords ==
    {[issuer_id |-> checker, category |-> check, from_epoch |-> 0, until_epoch |-> 0,
      signatures |-> <<[accreditor |-> gov, over |-> <<checker, check, 0, 0>>]>>]}

MCAudienceOf == v1 :> acme @@ v2 :> acme @@ v3 :> initech
MCStoreOf == v1 :> sA @@ v2 :> sA @@ v3 :> sB

MCRequestSets ==
    {{}, {[category |-> check, field |-> "score", op |-> "Ge", bound |-> Number(4),
           scale_version |-> any]}}
===============================================================================
