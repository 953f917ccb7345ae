------------------------------- MODULE CivilDate -------------------------------
(****************************************************************************)
(* Timestamps as RFC 3339 text and back (aion-trust-interop/src/rfc3339.rs).*)
(*                                                                          *)
(* A timestamp is its day since 1970-01-01 and its second of that day, the  *)
(* two numbers div_euclid and rem_euclid take it apart into.  A text is the *)
(* numbers it writes; it has the fixed shape when its year takes four       *)
(* characters, a minus sign included.                                       *)
(****************************************************************************)
EXTENDS Integers

SecondsOfDay == {n \in Nat : n < 86400}

Timestamps == [day : Int, sod : SecondsOfDay]

(* Integer division of the source, which truncates. *)
Quot(a, b) == IF a >= 0 THEN a \div b ELSE -((-a) \div b)

(* Mutant of Era: days before the first era are not shifted. *)
EraTruncated(z, length) == Quot(z, length)

Era(z, length) == Quot(IF z >= 0 THEN z ELSE z - (length - 1), length)

CivilFromDays(days) ==
    LET z == days + 719468
        era == Era(z, 146097)
        doe == z - era * 146097
        yoe == (doe - doe \div 1460 + doe \div 36524 - doe \div 146096) \div 365
        y == yoe + era * 400
        doy == doe - (365 * yoe + yoe \div 4 - yoe \div 100)
        mp == (5 * doy + 2) \div 153
        m == IF mp < 10 THEN mp + 3 ELSE mp - 9
    IN  [y |-> IF m <= 2 THEN y + 1 ELSE y, m |-> m, d |-> doy - (153 * mp + 2) \div 5 + 1]

(* Mutant of DaysFromCivil: January and February count to their own year. *)
DaysFromCivilYear(c) ==
    LET era == Era(c.y, 400)
        yoe == c.y - era * 400
        mp == IF c.m > 2 THEN c.m - 3 ELSE c.m + 9
        doy == (153 * mp + 2) \div 5 + c.d - 1
    IN  era * 146097 + yoe * 365 + yoe \div 4 - yoe \div 100 + doy - 719468

DaysFromCivil(c) ==
    LET y == IF c.m <= 2 THEN c.y - 1 ELSE c.y
        era == Era(y, 400)
        yoe == y - era * 400
        mp == IF c.m > 2 THEN c.m - 3 ELSE c.m + 9
        doy == (153 * mp + 2) \div 5 + c.d - 1
    IN  era * 146097 + yoe * 365 + yoe \div 4 - yoe \div 100 + doy - 719468

ToRfc3339(t) ==
    [date |-> CivilFromDays(t.day),
     hh |-> t.sod \div 3600, mm |-> (t.sod % 3600) \div 60, ss |-> t.sod % 60]

FourCharacters(y) == y \in -999..9999

(* The timestamp a text stands for; none if it does not parse.  A day of     *)
(* the month is only compared with 31; hours, minutes and seconds, two       *)
(* characters that may be a minus sign and a digit, only with their largest. *)
FromRfc3339(s) ==
    LET secs == s.hh * 3600 + s.mm * 60 + s.ss
    IN  {t \in {[day |-> DaysFromCivil(s.date) + secs \div 86400, sod |-> secs % 86400]} :
            /\ FourCharacters(s.date.y) /\ s.date.m \in 1..12 /\ s.date.d \in 1..31
            /\ s.hh \in -9..23 /\ s.mm \in -9..59 /\ s.ss \in -9..59}
===============================================================================
