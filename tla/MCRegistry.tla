------------------------------ MODULE MCRegistry ------------------------------
(* A small instance of Registry: one issuer and category; a 1-of-2, a 2-of-2  *)
(* and a 1-of-1 rule under which gov1 is an outsider; one window that lapses  *)
(* and one that does not; one claim.                                          *)
EXTENDS Registry

CONSTANTS acme, check, gov1, gov2, claim, open

MCRules == {[k |-> 1, accreditors |-> {gov1, gov2}],
            [k |-> 2, accreditors |-> {gov1, gov2}],
            [k |-> 1, accreditors |-> {gov2}]}
MCWindows == {<<0, 1>>, <<1, open>>}
===============================================================================
