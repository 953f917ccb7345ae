------------------------------- MODULE MCInterop -------------------------------
(* Twelve years around the boundaries of the calendar and of the text, day by  *)
(* day; a degree and a check relying on it, from two issuers.                  *)
EXTENDS Interop

CONSTANTS degree, check, scale1, v, open, acme, other, n1

MCHash(content) == <<"id", content>>

(* Keys of two bytes, with zeros, carries and full bytes among them. *)
alice == <<0, 0>>
uni == <<255, 255>>
checker == <<0, 58>>
stranger == <<1, 0>>
MCKey == {alice, uni, checker, stranger}
MCResolvable == {uni, checker}

MCFirstYears == {-1000, -999, -400, -1, 0, 1600, 1900, 1969, 1972, 2000, 9998, 9999}

Degree(from, until) ==
    IssueClaim(alice, uni, degree, scale1, from, until, [rank |-> v, year |-> v], {})

MCHeld(from, until) ==
    LET done == IssueClaim(alice, checker, check, scale1, from, OpenEnd, [level |-> v],
                           {Degree(from, until).claim_id})
    IN  <<Disclose(Degree(from, until), {"rank"}), Disclose(done, {"level"})>>
===============================================================================
