----------------------------- MODULE MCNonceStore -----------------------------
(* A small instance of NonceStore: a pool of two replicas of employer e1 and  *)
(* a verifier of employer e2 on one store, and a replica of the latter with a *)
(* store of its own.  A second answer to the first one's challenge has a      *)
(* later window, and a copy of the first spells the nonce in capitals; the    *)
(* last carries the same nonce to the other audience.                         *)
EXTENDS NonceStore, TLC

CONSTANTS v1, v2, v3, v4, sA, sB, e1, e2, b1

MCAudienceOf == v1 :> e1 @@ v2 :> e1 @@ v3 :> e2 @@ v4 :> e2
MCStoreOf == v1 :> sA @@ v2 :> sA @@ v3 :> sA @@ v4 :> sB

Presented(a, n, from, until) ==
    [audience |-> a, nonce |-> n, issued_at |-> from, expires_at |-> until]

n1 == ToHex(b1)
N1 == [n1 EXCEPT !.letters = "upper"]
MCNonce == {n1, N1}

MCPresentation ==
    {Presented(e1, n1, 0, 1), Presented(e1, N1, 0, 1), Presented(e1, n1, 1, 3), Presented(e2, n1, 1, 2)}
===============================================================================
