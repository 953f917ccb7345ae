------------------------------ MODULE InteropProofs ------------------------------
(****************************************************************************)
(* Proofs about Interop, CivilDate and DidKey.                              *)
(*                                                                          *)
(* First the two codecs, each for every input.  Dates are counted in years  *)
(* that begin in March: eras, centuries, leap years and months come off a   *)
(* day one after the other, and every day is reached from some New Year.    *)
(* A key is a number: the digits pushed in one base write the number that   *)
(* the digits taken in wrote in the other, and a number is written in one   *)
(* way.  Then the invariant of a document on its way, and from both what    *)
(* it imports to.                                                           *)
(****************************************************************************)
EXTENDS Interop, PresentingProofs

-------------------------------------------------------------------------------
(* The calendar: the closed formulas of rfc3339.rs, for every day. *)

(* The era of a day or of a year is its quotient, rounded down. *)
LEMMA EraRoundsDown ==
  ASSUME NEW z \in Int
  PROVE  Era(z, 146097) = z \div 146097 /\ Era(z, 400) = z \div 400
  <1>1. Era(z, 146097) = z \div 146097
    BY DEF Era, Quot
  <1>2. Era(z, 400) = z \div 400
    BY DEF Era, Quot
  <1>3. QED
    BY <1>1, <1>2

(* A valid date. *)
Date(y, m, d) == [y |-> y, m |-> m, d |-> d]

ValidDate(y, m, d) == y \in Int /\ m \in 1..12 /\ d \in 1..MonthLength(y, m)

(* Years and months counted from the first of March, and the day of such a year. *)
MarchYear(y, m) == IF m <= 2 THEN y - 1 ELSE y

MarchMonth(m) == IF m > 2 THEN m - 3 ELSE m + 9

MarchDay(m, d) == (153 * MarchMonth(m) + 2) \div 5 + d - 1

(* The day of a date, its leap days counted one rule after the other. *)
LEMMA DaysCounted ==
  ASSUME NEW y \in Int, NEW m \in 1..12, NEW d \in Int
  PROVE  LET n == MarchYear(y, m)
         IN  DaysFromCivil(Date(y, m, d))
               = 365 * n + n \div 4 - n \div 100 + n \div 400 + MarchDay(m, d) - 719468
  <1> DEFINE n == MarchYear(y, m)
             era == n \div 400
             yoe == n - era * 400
             doy == MarchDay(m, d)
  <1>1. n \in Int /\ doy \in Int
    BY DEF MarchYear, MarchDay, MarchMonth
  <1>2. Era(n, 400) = era
    BY <1>1, EraRoundsDown
  <1>3. DaysFromCivil(Date(y, m, d))
          = era * 146097 + yoe * 365 + yoe \div 4 - yoe \div 100 + doy - 719468
    <2> DEFINE c == Date(y, m, d)
    <2>1. c.y = y /\ c.m = m /\ c.d = d
      BY DEF Date
    <2> HIDE DEF c
    <2>2. n = IF c.m <= 2 THEN c.y - 1 ELSE c.y
      BY <2>1 DEF MarchYear
    <2>3. doy = (153 * (IF c.m > 2 THEN c.m - 3 ELSE c.m + 9) + 2) \div 5 + c.d - 1
      BY <2>1 DEF MarchDay, MarchMonth
    <2> HIDE DEF n, era, doy
    <2>4. QED
      BY <1>2, <2>2, <2>3 DEF DaysFromCivil, c, yoe
  <1> HIDE DEF n, doy
  <1>4. yoe \div 4 = n \div 4 - 100 * era /\ yoe \div 100 = n \div 100 - 4 * era
    BY <1>1
  <1>5. QED
    BY <1>1, <1>3, <1>4 DEF n, doy

(* The days of each month in a year that begins in March. *)
LEMMA MonthsFromMarch ==
  ASSUME NEW m \in 1..12, NEW d \in Int
  PROVE  MarchDay(m, d) = d - 1 + (CASE m = 3 -> 0 [] m = 4 -> 31 [] m = 5 -> 61
                                     [] m = 6 -> 92 [] m = 7 -> 122 [] m = 8 -> 153
                                     [] m = 9 -> 184 [] m = 10 -> 214 [] m = 11 -> 245
                                     [] m = 12 -> 275 [] m = 1 -> 306 [] m = 2 -> 337)
  BY DEF MarchDay, MarchMonth

(* A leap day comes in every fourth year but for the centuries. *)
LEMMA LeapsCounted ==
  ASSUME NEW y \in Int
  PROVE  LET Leaps(n) == n \div 4 - n \div 100 + n \div 400
         IN  Leaps(y) - Leaps(y - 1) = IF Leap(y) THEN 1 ELSE 0
  <1>1. y \div 4 - (y - 1) \div 4 = IF y % 4 = 0 THEN 1 ELSE 0
    OBVIOUS
  <1>2. y \div 100 - (y - 1) \div 100 = IF y % 100 = 0 THEN 1 ELSE 0
    OBVIOUS
  <1>3. y \div 400 - (y - 1) \div 400 = IF y % 400 = 0 THEN 1 ELSE 0
    OBVIOUS
  <1>4. (y % 400 = 0 => y % 100 = 0) /\ (y % 100 = 0 => y % 4 = 0)
    OBVIOUS
  <1>5. QED
    BY <1>1, <1>2, <1>3, <1>4 DEF Leap

(* Quotients by the days of centuries, of four years and of a year. *)
LEMMA CenturyOfDay ==
  ASSUME NEW c \in Int, NEW a \in Int, 0 <= a, a < 36524
  PROVE  (36524 * c + a) \div 36524 = c
  OBVIOUS

LEMMA LastOfEra ==
  ASSUME NEW a \in Int, 0 <= a, a <= 146096
  PROVE  a \div 146096 = IF a = 146096 THEN 1 ELSE 0
  OBVIOUS

LEMMA LeapDaysOfDay ==
  ASSUME NEW k \in Int, NEW w \in Int, 0 <= w, w < 2920
  PROVE  (1460 * k + w) \div 1460 = k + (IF w >= 1460 THEN 1 ELSE 0)
  OBVIOUS

LEMMA YearOfDay ==
  ASSUME NEW n \in Int, NEW a \in Int, 0 <= a, a < 365
  PROVE  (365 * n + a) \div 365 = n
  OBVIOUS

(* The year of an era from the day of the era: the days of a year are counted *)
(* so that the leap days, but for those of the centuries, fall away.          *)
LEMMA YearOfEra ==
  ASSUME NEW c \in Int, 0 <= c, c <= 3, NEW q \in Int, 0 <= q, q <= 24,
         NEW r \in Int, 0 <= r, r <= 3, NEW doy \in Int, 0 <= doy, doy <= 365,
         doy = 365 => r = 3 /\ (q < 24 \/ c = 3)
  PROVE  LET doe == 36524 * c + (1461 * q + 365 * r + doy)
         IN  /\ doe \in Int /\ 0 <= doe /\ doe <= 146096
             /\ (doe - doe \div 1460 + doe \div 36524 - doe \div 146096) \div 365
                  = 100 * c + 4 * q + r
  <1> DEFINE part == 1461 * q + 365 * r + doy
             doe == 36524 * c + part
  <1>1. part \in Int /\ 0 <= part /\ part <= 36524 /\ (part = 36524 => c = 3)
    <2>1. CASE doy <= 364
      BY <2>1
    <2>2. CASE doy = 365 /\ q < 24
      BY <2>2
    <2>3. CASE doy = 365 /\ c = 3
      BY <2>3
    <2>4. QED
      BY <2>1, <2>2, <2>3
  <1>2. doe \in Int /\ 0 <= doe /\ doe <= 146096 /\ (doe = 146096 <=> part = 36524)
    <2> HIDE DEF part
    <2>1. CASE c = 3
      BY <1>1, <2>1
    <2>2. CASE c <= 2
      BY <1>1, <2>2
    <2>3. QED
      BY <2>1, <2>2
  <1>3. doe \div 36524 - doe \div 146096 = c
    <2>1. CASE part = 36524
      <3>1. c = 3 /\ doe = 146096
        BY <1>1, <2>1
      <3>2. 146096 \div 36524 = 4 /\ 146096 \div 146096 = 1
        OBVIOUS
      <3> HIDE DEF doe
      <3>3. QED
        BY <3>1, <3>2
    <2>2. CASE part # 36524
      <3> HIDE DEF part
      <3>1. doe \div 36524 = c
        BY <1>1, <2>2, CenturyOfDay
      <3> HIDE DEF doe
      <3>2. doe \div 146096 = 0
        BY <1>2, <2>2, LastOfEra
      <3>3. QED
        BY <3>1, <3>2
    <2>3. QED
      BY <2>1, <2>2
  <1> DEFINE w == 24 * c + q + 365 * r + doy
             k == 25 * c + q
             one == IF w >= 1460 THEN 1 ELSE 0
             n == 100 * c + 4 * q + r
  <1>4. /\ w \in Int /\ 0 <= w /\ w < 2920 /\ k \in Int /\ doe = 1460 * k + w
        /\ (doy = 365 => w >= 1460) /\ (doy = 0 => w < 1460)
        /\ n \in Int /\ doe = 365 * n + doy + k - c
    OBVIOUS
  <1> HIDE DEF doe, w, k, n
  <1>5. doe \div 1460 = k + one
    BY <1>4, LeapDaysOfDay
  <1>6. one \in Int /\ 0 <= doy - one /\ doy - one < 365
    BY <1>4
  <1> HIDE DEF one
  <1> DEFINE x == doe \div 1460
             y == doe \div 36524
             z == doe \div 146096
  <1>7. x \in Int /\ y \in Int /\ z \in Int
    BY <1>2
  <1>8. ((doe - x) + y) - z = 365 * n + (doy - one)
    <2> HIDE DEF x, y, z
    <2>1. x = k + one /\ y - z = c
      BY <1>3, <1>5 DEF x, y, z
    <2>2. QED
      BY <1>2, <1>4, <1>6, <1>7, <2>1
  <1>9. (((doe - x) + y) - z) \div 365 = n
    <2> HIDE DEF x, y, z
    <2>1. (365 * n + (doy - one)) \div 365 = n
      BY <1>4, <1>6, YearOfDay
    <2>2. QED
      BY <1>8, <2>1
  <1>10. QED
    BY <1>2, <1>9 DEF doe, part, n, x, y, z

(* ... and of what is left the month and the day. *)
LEMMA MonthOfYear ==
  ASSUME NEW y \in Int, NEW m \in 1..12, NEW d \in 1..MonthLength(y, m)
  PROVE  LET doy == MarchDay(m, d)
             mp == (5 * doy + 2) \div 153
         IN  /\ doy \in Int /\ 0 <= doy /\ doy <= 365 /\ (doy = 365 => m = 2 /\ Leap(y))
             /\ mp = MarchMonth(m) /\ doy - (153 * mp + 2) \div 5 + 1 = d
             /\ m = (IF mp < 10 THEN mp + 3 ELSE mp - 9)
  <1> DEFINE doy == MarchDay(m, d)
             mp == (5 * doy + 2) \div 153
             first == MarchDay(m, 1)
  <1>1. d \in Int /\ 1 <= d /\ d <= MonthLength(y, m) /\ m \in Int
    <2>1. MonthLength(y, m) \in Int
      BY DEF MonthLength
    <2>2. QED
      BY <2>1
  <1>2. /\ doy = first + (d - 1)
        /\ first = CASE m = 3 -> 0 [] m = 4 -> 31 [] m = 5 -> 61 [] m = 6 -> 92 [] m = 7 -> 122
                     [] m = 8 -> 153 [] m = 9 -> 184 [] m = 10 -> 214 [] m = 11 -> 245
                     [] m = 12 -> 275 [] m = 1 -> 306 [] m = 2 -> 337
    BY <1>1, MonthsFromMarch
  <1>3. MonthLength(y, m) = CASE m \in {1, 3, 5, 7, 8, 10, 12} -> 31 [] m \in {4, 6, 9, 11} -> 30
                              [] m = 2 -> IF Leap(y) THEN 29 ELSE 28
    BY DEF MonthLength
  <1> DEFINE len == MonthLength(y, m)
             leap == Leap(y)
  <1> HIDE DEF doy, first, len, leap
  <1>4. /\ doy \in Int /\ 0 <= doy /\ doy <= 365 /\ (doy = 365 => m = 2 /\ leap)
        /\ first \in Int
    BY <1>1, <1>2, <1>3 DEF len, leap
  <1>5. mp = MarchMonth(m)
    BY <1>1, <1>2, <1>3, <1>4 DEF MarchMonth, len
  <1>6. first = (153 * MarchMonth(m) + 2) \div 5
    BY DEF first, MarchDay, MarchMonth
  <1>7. m = (IF mp < 10 THEN mp + 3 ELSE mp - 9)
    BY <1>5 DEF MarchMonth
  <1> HIDE DEF mp
  <1>8. (doy - first) + 1 = d
    BY <1>1, <1>2, <1>4
  <1>9. QED
    BY <1>4, <1>5, <1>6, <1>7, <1>8 DEF doy, mp, leap

(* Written as a day and read back, a date is what it was. *)
LEMMA DateReadBack ==
  ASSUME NEW y, NEW m, NEW d, ValidDate(y, m, d)
  PROVE  CivilFromDays(DaysFromCivil(Date(y, m, d))) = Date(y, m, d)
  <1> DEFINE n == MarchYear(y, m)
             era == n \div 400
             yoe == n - era * 400
             c == yoe \div 100
             q == (yoe - 100 * c) \div 4
             r == yoe - 100 * c - 4 * q
             doy == MarchDay(m, d)
             doe == 36524 * c + (1461 * q + 365 * r + doy)
             mp == (5 * doy + 2) \div 153
             days == DaysFromCivil(Date(y, m, d))
  <1>1. y \in Int /\ m \in 1..12 /\ d \in 1..MonthLength(y, m)
    BY DEF ValidDate
  <1>2. n \in Int /\ n = (IF m <= 2 THEN y - 1 ELSE y)
    BY <1>1 DEF MarchYear
  <1> HIDE DEF n
  <1>3. era \in Int /\ yoe \in Int /\ 0 <= yoe /\ yoe < 400 /\ n = yoe + era * 400
    BY <1>2
  <1> HIDE DEF era, yoe
  <1>4. /\ c \in Int /\ 0 <= c /\ c <= 3 /\ q \in Int /\ 0 <= q /\ q <= 24
        /\ r \in Int /\ 0 <= r /\ r <= 3 /\ yoe = 100 * c + 4 * q + r
    BY <1>3
  <1>5. yoe \div 100 = c /\ yoe \div 4 = 25 * c + q
    <2>1. yoe \div 100 = c
      OBVIOUS
    <2> HIDE DEF c, q, r
    <2>2. yoe = 4 * (25 * c + q) + r
      BY <1>4
    <2>3. (4 * (25 * c + q) + r) \div 4 = 25 * c + q
      BY <1>4
    <2>4. QED
      BY <2>1, <2>2, <2>3
  <1>6. /\ doy \in Int /\ 0 <= doy /\ doy <= 365 /\ (doy = 365 => m = 2 /\ Leap(y))
        /\ mp = MarchMonth(m) /\ doy - (153 * mp + 2) \div 5 + 1 = d
        /\ m = (IF mp < 10 THEN mp + 3 ELSE mp - 9)
    BY <1>1, MonthOfYear
  <1> HIDE DEF c, q, r, doy
  <1>7. doy = 365 => r = 3 /\ (q < 24 \/ c = 3)
    <2> SUFFICES ASSUME doy = 365 PROVE r = 3 /\ (q < 24 \/ c = 3)
      OBVIOUS
    <2>1. y = 400 * era + (100 * c + 4 * q + r) + 1 /\ Leap(y)
      BY <1>1, <1>2, <1>3, <1>4, <1>6
    <2>2. y % 4 = 0 /\ (y % 100 # 0 \/ y % 400 = 0)
      BY <2>1 DEF Leap
    <2>3. r = 3
      BY <1>3, <1>4, <2>1, <2>2
    <2>4. q = 24 => y = 100 * (4 * era + c + 1)
      BY <1>3, <1>4, <2>1, <2>3
    <2>5. q = 24 => y % 100 = 0
      BY <1>3, <1>4, <2>4
    <2>6. q = 24 /\ y % 400 = 0 => c = 3
      BY <1>3, <1>4, <2>4
    <2>7. QED
      BY <1>4, <2>2, <2>3, <2>5, <2>6
  <1>8. /\ doe \in Int /\ 0 <= doe /\ doe <= 146096
        /\ (doe - doe \div 1460 + doe \div 36524 - doe \div 146096) \div 365 = yoe
    BY <1>4, <1>6, <1>7, YearOfEra
  <1>9. doe = yoe * 365 + yoe \div 4 - yoe \div 100 + doy
    BY <1>4, <1>5, <1>6
  <1> HIDE DEF doe
  <1>10. days + 719468 = era * 146097 + doe
    <2>1. days = 365 * n + n \div 4 - n \div 100 + n \div 400 + doy - 719468
      BY <1>1, DaysCounted DEF n, doy
    <2>2. n \div 4 = 100 * era + yoe \div 4 /\ n \div 100 = 4 * era + yoe \div 100
          /\ n \div 400 = era
      BY <1>3
    <2> HIDE DEF days
    <2>3. QED
      BY <1>3, <1>4, <1>5, <1>6, <1>8, <1>9, <2>1, <2>2
  <1>11. (days + 719468) \div 146097 = era /\ days + 719468 \in Int
    <2> HIDE DEF days
    <2>1. (era * 146097 + doe) \div 146097 = era
      BY <1>3, <1>8
    <2>2. QED
      BY <1>3, <1>8, <1>10, <2>1
  <1>12. Era(days + 719468, 146097) = era
    <2> HIDE DEF days
    <2>1. QED
      BY <1>11, EraRoundsDown
  <1> HIDE DEF days, mp
  <1>13. (days + 719468) - era * 146097 = doe
    BY <1>3, <1>8, <1>10, <1>11
  <1>14. doe - (365 * yoe + yoe \div 4 - yoe \div 100) = doy
    BY <1>3, <1>4, <1>5, <1>6, <1>9
  <1> DEFINE mm == IF mp < 10 THEN mp + 3 ELSE mp - 9
  <1>15. CivilFromDays(days)
           = [y |-> IF mm <= 2 THEN yoe + era * 400 + 1 ELSE yoe + era * 400, m |-> mm,
              d |-> doy - (153 * mp + 2) \div 5 + 1]
    BY <1>8, <1>12, <1>13, <1>14 DEF CivilFromDays, mp
  <1>16. mm = m /\ (IF m <= 2 THEN n + 1 ELSE n) = y
    BY <1>1, <1>2, <1>6
  <1> HIDE DEF mm
  <1>17. QED
    BY <1>3, <1>6, <1>15, <1>16 DEF Date, days

LEMMA DayAfterCases ==
  ASSUME NEW y \in Int, NEW m \in 1..12, NEW d \in Int, d <= MonthLength(y, m)
  PROVE  LET date == Date(y, m, d)
         IN  /\ d < MonthLength(y, m) => DayAfter(date) = Date(y, m, d + 1)
             /\ d = MonthLength(y, m) /\ m < 12 => DayAfter(date) = Date(y, m + 1, 1)
             /\ d = MonthLength(y, m) /\ m = 12 => DayAfter(date) = Date(y + 1, 1, 1)
  <1> DEFINE date == Date(y, m, d)
             len == MonthLength(y, m)
             later == [date EXCEPT !.d = @ + 1]
  <1>1. date.y = y /\ date.m = m /\ date.d = d
    BY DEF Date
  <1>2. later = Date(y, m, d + 1)
    BY DEF Date
  <1>3. len \in Int
    BY DEF MonthLength
  <1> HIDE DEF date, later
  <1>4. DayAfter(date) = IF d < len THEN later
                         ELSE IF m < 12 THEN Date(y, m + 1, 1) ELSE Date(y + 1, 1, 1)
    BY <1>1 DEF DayAfter, Date, later
  <1> HIDE DEF len
  <1>5. QED
    BY <1>2, <1>3, <1>4 DEF date, len

(* The day after a date is a date, and the next day. *)
LEMMA DayAfterIs ==
  ASSUME NEW y, NEW m, NEW d, ValidDate(y, m, d)
  PROVE  \E y2, m2, d2 :
            /\ DayAfter(Date(y, m, d)) = Date(y2, m2, d2) /\ ValidDate(y2, m2, d2)
            /\ DaysFromCivil(Date(y2, m2, d2)) = DaysFromCivil(Date(y, m, d)) + 1
  <1> DEFINE date == Date(y, m, d)
             len == MonthLength(y, m)
             Leaps(n) == n \div 4 - n \div 100 + n \div 400
             Days(n, doy) == 365 * n + n \div 4 - n \div 100 + n \div 400 + doy - 719468
  <1>1. y \in Int /\ m \in 1..12 /\ d \in 1..len /\ len \in 28..31 /\ d \in Int
    <2>1. y \in Int /\ m \in 1..12 /\ d \in 1..len
      BY DEF ValidDate
    <2>2. len \in 28..31
      BY DEF MonthLength
    <2> HIDE DEF len
    <2>3. QED
      BY <2>1, <2>2
  <1>2. d <= len
    <2> HIDE DEF len
    <2>1. QED
      BY <1>1
  <1>3. ASSUME NEW b \in Int, NEW k \in 1..12, NEW e \in Int
        PROVE  DaysFromCivil(Date(b, k, e)) = Days(MarchYear(b, k), MarchDay(k, e))
    BY DaysCounted
  <1>4. CASE d < len
    <2>1. DayAfter(date) = Date(y, m, d + 1)
      BY <1>1, <1>2, <1>4, DayAfterCases
    <2>2. ValidDate(y, m, d + 1)
      <3> HIDE DEF len
      <3>1. d + 1 \in 1..len
        BY <1>1, <1>4
      <3>2. QED
        BY <1>1, <3>1 DEF ValidDate, len
    <2>3. MarchDay(m, d + 1) = MarchDay(m, d) + 1 /\ MarchDay(m, d) \in Int
      BY <1>1 DEF MarchDay, MarchMonth
    <2>4. MarchYear(y, m) \in Int
      BY <1>1 DEF MarchYear
    <2>5. DaysFromCivil(Date(y, m, d + 1)) = DaysFromCivil(date) + 1
      BY <1>1, <1>3, <2>3, <2>4
    <2>6. QED
      BY <2>1, <2>2, <2>5
  <1>5. CASE d = len /\ m = 2
    <2>1. DayAfter(date) = Date(y, 3, 1)
      BY <1>1, <1>2, <1>5, DayAfterCases
    <2>2. ValidDate(y, 3, 1)
      BY <1>1 DEF ValidDate, MonthLength
    <2>3. MarchYear(y, 2) = y - 1 /\ MarchYear(y, 3) = y
      BY DEF MarchYear
    <2>4. MarchDay(2, d) = 336 + d /\ MarchDay(3, 1) = 0
      BY <1>1, MonthsFromMarch
    <2>5. d = IF Leap(y) THEN 29 ELSE 28
      BY <1>5 DEF MonthLength
    <2>6. Leaps(y) - Leaps(y - 1) = IF Leap(y) THEN 1 ELSE 0
      BY <1>1, LeapsCounted
    <2>7. Days(y, 0) = Days(y - 1, 336 + d) + 1
      BY <1>1, <2>5, <2>6
    <2>8. DaysFromCivil(Date(y, 3, 1)) = DaysFromCivil(date) + 1
      <3> HIDE DEF Days
      <3>1. DaysFromCivil(Date(y, 3, 1)) = Days(MarchYear(y, 3), MarchDay(3, 1))
        BY <1>1, <1>3
      <3>2. DaysFromCivil(Date(y, 2, d)) = Days(MarchYear(y, 2), MarchDay(2, d))
        BY <1>1, <1>3
      <3>3. QED
        BY <1>5, <2>3, <2>4, <2>7, <3>1, <3>2
    <2>9. QED
      BY <2>1, <2>2, <2>8
  <1>6. CASE d = len /\ m = 12
    <2>1. DayAfter(date) = Date(y + 1, 1, 1)
      BY <1>1, <1>2, <1>6, DayAfterCases
    <2>2. ValidDate(y + 1, 1, 1)
      BY <1>1 DEF ValidDate, MonthLength
    <2>3. MarchYear(y, 12) = y /\ MarchYear(y + 1, 1) = y
      BY <1>1 DEF MarchYear
    <2>4. d = 31
      BY <1>6 DEF MonthLength
    <2>5. MarchDay(12, 31) = 305 /\ MarchDay(1, 1) = 306
      BY MonthsFromMarch
    <2>6. DaysFromCivil(Date(y + 1, 1, 1)) = DaysFromCivil(date) + 1
      BY <1>1, <1>3, <1>6, <2>3, <2>4, <2>5
    <2>7. QED
      BY <2>1, <2>2, <2>6
  <1>7. CASE d = len /\ m \notin {2, 12}
    <2>1. DayAfter(date) = Date(y, m + 1, 1)
      BY <1>1, <1>2, <1>7, DayAfterCases
    <2>2. ValidDate(y, m + 1, 1) /\ m + 1 \in 1..12
      <3>1. m + 1 \in 1..12
        BY <1>1, <1>7
      <3>2. 1 \in 1..MonthLength(y, m + 1)
        BY <3>1 DEF MonthLength
      <3>3. QED
        BY <1>1, <3>1, <3>2 DEF ValidDate
    <2>3. MarchYear(y, m + 1) = MarchYear(y, m) /\ MarchYear(y, m) \in Int
      BY <1>1, <1>7 DEF MarchYear
    <2>4. d = IF m \in {4, 6, 9, 11} THEN 30 ELSE 31
      BY <1>7 DEF MonthLength
    <2>5. MarchDay(m + 1, 1) = MarchDay(m, d) + 1 /\ MarchDay(m, d) \in Int
      <3> HIDE DEF len
      <3>1. /\ MarchMonth(m + 1) = MarchMonth(m) + 1
            /\ MarchMonth(m) \in {0, 1, 2, 3, 4, 5, 6, 7, 8, 10}
        BY <1>1, <1>7 DEF MarchMonth
      <3>2. QED
        BY <1>1, <1>7, <2>4, <3>1 DEF MarchDay, MarchMonth
    <2>6. DaysFromCivil(Date(y, m + 1, 1)) = DaysFromCivil(date) + 1
      <3> DEFINE n == MarchYear(y, m)
                 doy == MarchDay(m, d)
      <3>1. Days(n, doy + 1) = Days(n, doy) + 1
        <4>1. n \in Int /\ doy \in Int
          BY <2>3, <2>5
        <4> HIDE DEF n, doy
        <4>2. QED
          BY <4>1
      <3> HIDE DEF Days
      <3>2. DaysFromCivil(Date(y, m + 1, 1)) = Days(MarchYear(y, m + 1), MarchDay(m + 1, 1))
        BY <1>1, <1>3, <2>2
      <3>3. DaysFromCivil(Date(y, m, d)) = Days(n, doy)
        BY <1>1, <1>3
      <3>4. QED
        BY <2>3, <2>5, <3>1, <3>2, <3>3
    <2>7. QED
      BY <2>1, <2>2, <2>6
  <1> HIDE DEF len, date
  <1>8. QED
    BY <1>1, <1>4, <1>5, <1>6, <1>7 DEF date

(* The first of January is the day its year's leap days make it. *)
LEMMA NewYearIs ==
  ASSUME NEW y \in Int
  PROVE  /\ NewYear(y).date = Date(y, 1, 1) /\ ValidDate(y, 1, 1)
         /\ DaysFromCivil(Date(y, 1, 1)) = NewYear(y).day
  <1>1. NewYear(y).date = Date(y, 1, 1)
    BY DEF NewYear, Date
  <1>2. ValidDate(y, 1, 1)
    BY DEF ValidDate, MonthLength
  <1>3. MarchYear(y, 1) = y - 1 /\ MarchDay(1, 1) = 306
    BY MonthsFromMarch DEF MarchYear
  <1>4. LeapsBefore(1970) = 477
    BY DEF LeapsBefore
  <1>5. NewYear(y).day = 365 * (y - 1970) + LeapsBefore(y) - 477
    BY <1>4 DEF NewYear
  <1>6. DaysFromCivil(Date(y, 1, 1)) = 365 * (y - 1) + LeapsBefore(y) + 306 - 719468
    BY <1>3, DaysCounted DEF LeapsBefore
  <1>7. LeapsBefore(y) \in Int
    BY DEF LeapsBefore
  <1>8. DaysFromCivil(Date(y, 1, 1)) = NewYear(y).day
    BY <1>5, <1>6, <1>7
  <1>9. QED
    BY <1>1, <1>2, <1>8

(* The calendar's invariant: a date there is, and the day the formulas give. *)
CalendarOK ==
    \E y, m, d : /\ today.date = Date(y, m, d) /\ ValidDate(y, m, d)
                 /\ today.day = DaysFromCivil(Date(y, m, d))

(* On every day of every year, before the epoch and before year 1 too, the   *)
(* closed formulas agree with the calendar, in both directions               *)
(* (rfc3339.rs:59-81).                                                       *)
THEOREM CalendarAgreesHolds == IoSpec => []CalendarAgrees
  <1>1. IoInit => CalendarOK
    <2> SUFFICES ASSUME IoInit PROVE CalendarOK
      OBVIOUS
    <2>1. PICK y \in FirstYears : today = NewYear(y)
      BY DEF IoInit
    <2>2. y \in Int
      BY SMT, InteropAssumption
    <2>3. today.date = Date(y, 1, 1) /\ ValidDate(y, 1, 1)
          /\ DaysFromCivil(Date(y, 1, 1)) = today.day
      BY SMT, <2>1, <2>2, NewYearIs
    <2>4. QED
      BY SMT, <2>3 DEF CalendarOK
  <1>2. CalendarOK /\ [IoNext]_ioVars => CalendarOK'
    <2> SUFFICES ASSUME CalendarOK, [IoNext]_ioVars PROVE CalendarOK'
      OBVIOUS
    <2>1. CASE NextDay
      <3>1. PICK y, m, d : /\ today.date = Date(y, m, d) /\ ValidDate(y, m, d)
                           /\ today.day = DaysFromCivil(Date(y, m, d))
        BY DEF CalendarOK
      <3>2. PICK y2, m2, d2 :
                   /\ DayAfter(Date(y, m, d)) = Date(y2, m2, d2) /\ ValidDate(y2, m2, d2)
                   /\ DaysFromCivil(Date(y2, m2, d2)) = DaysFromCivil(Date(y, m, d)) + 1
        BY <3>1, DayAfterIs
      <3>3. today'.day = today.day + 1 /\ today'.date = DayAfter(today.date)
        BY <2>1 DEF NextDay
      <3>4. QED
        BY SMT, <3>1, <3>2, <3>3 DEF CalendarOK
    <2>2. CASE today' = today
      BY <2>2 DEF CalendarOK
    <2>3. QED
      BY SMT, <2>1, <2>2 DEF IoNext, Build, Export, Rewrite, ioVars
  <1>3. CalendarOK => CalendarAgrees
    BY SMT, DateReadBack DEF CalendarOK, CalendarAgrees
  <1>4. QED
    BY <1>1, <1>2, <1>3, PTL DEF IoSpec

-------------------------------------------------------------------------------
(* Timestamps: what is written is read back, and what is read is a timestamp. *)

(* Every day is the day of a date. *)
LEMMA EveryDay ==
  ASSUME NEW day \in Int
  PROVE  \E y, m, d : ValidDate(y, m, d) /\ DaysFromCivil(Date(y, m, d)) = day
  <1> DEFINE n == IF day >= 0 THEN day + 1 ELSE 1 - day
             first == 1970 - n
             start == NewYear(first).day
             IsDay(x) == \E y, m, d : ValidDate(y, m, d) /\ DaysFromCivil(Date(y, m, d)) = x
             S == {i \in Nat : IsDay(start + i)}
  <1>1. first \in Int /\ start \in Int /\ start <= day
    <2>1. first \in Int /\ first <= 1969 /\ n >= 1 /\ -n <= day - 1 /\ n \in Int
      OBVIOUS
    <2> HIDE DEF n
    <2> DEFINE w == first - 1
    <2>2. LeapsBefore(first) = w \div 4 - w \div 100 + w \div 400 /\ w \in Int /\ w <= 1968
      BY <2>1 DEF LeapsBefore
    <2> HIDE DEF w
    <2>3. w \div 4 - w \div 100 + w \div 400 <= 478 /\ LeapsBefore(first) \in Int
      BY <2>2
    <2>4. LeapsBefore(1970) = 477
      BY DEF LeapsBefore
    <2>5. start = 365 * (first - 1970) + LeapsBefore(first) - 477
      BY <2>4 DEF NewYear
    <2>6. start \in Int /\ start <= 365 * (0 - n) + 1
      BY <2>1, <2>2, <2>3, <2>5
    <2> HIDE DEF start
    <2>7. 365 * (0 - n) + 1 <= day
      BY <2>1
    <2>8. QED
      BY <2>1, <2>6, <2>7
  <1>2. IsDay(start)
    BY <1>1, NewYearIs
  <1> HIDE DEF n, first, start
  <1>3. ASSUME NEW x, IsDay(x) PROVE IsDay(x + 1)
    <2>1. PICK y, m, d : ValidDate(y, m, d) /\ DaysFromCivil(Date(y, m, d)) = x
      BY <1>3
    <2>2. PICK y2, m2, d2 :
                 /\ DayAfter(Date(y, m, d)) = Date(y2, m2, d2) /\ ValidDate(y2, m2, d2)
                 /\ DaysFromCivil(Date(y2, m2, d2)) = DaysFromCivil(Date(y, m, d)) + 1
      BY <2>1, DayAfterIs
    <2>3. QED
      BY <2>1, <2>2
  <1> HIDE DEF IsDay
  <1> DEFINE k == day - start
  <1>4. k \in Nat /\ start + k = day /\ start + 0 = start
    BY <1>1
  <1> HIDE DEF k
  <1>5. 0 \in S
    BY <1>2, <1>4
  <1>6. \A i \in 0..k - 1 : i \in S => i + 1 \in S
    <2> SUFFICES ASSUME NEW i \in 0..k - 1, i \in S PROVE i + 1 \in S
      OBVIOUS
    <2>1. (start + i) + 1 = start + (i + 1) /\ i + 1 \in Nat
      BY <1>1
    <2>2. IsDay((start + i) + 1)
      BY <1>3
    <2>3. QED
      BY <2>1, <2>2
  <1> HIDE DEF S
  <1>7. 0..k \subseteq S
    BY <1>4, <1>5, <1>6, UpTo
  <1>8. k \in 0..k
    BY <1>4
  <1>9. IsDay(day)
    BY <1>4, <1>7, <1>8 DEF S
  <1>10. QED
    BY <1>9 DEF IsDay

(* A timestamp is read back from its text, unless four characters cannot     *)
(* write its year; then the text does not parse.                             *)
THEOREM TimeReadBack ==
  ASSUME NEW t \in Timestamps
  PROVE  FromRfc3339(ToRfc3339(t)) = IF FourCharacters(YearOf(t)) THEN {t} ELSE {}
  <1> DEFINE s == ToRfc3339(t)
             day == t.day
             sod == t.sod
  <1>1. day \in Int /\ sod \in Nat /\ sod < 86400 /\ t = [day |-> day, sod |-> sod]
    BY SMT DEF Timestamps, SecondsOfDay
  <1> HIDE DEF day, sod
  <1>2. PICK y, m, d : ValidDate(y, m, d) /\ DaysFromCivil(Date(y, m, d)) = day
    BY <1>1, EveryDay
  <1>3. CivilFromDays(day) = Date(y, m, d)
    BY <1>2, DateReadBack
  <1>4. YearOf(t) = y
    BY <1>3 DEF YearOf, day, Date
  <1>5. m \in 1..12 /\ d \in 1..31
    BY <1>2 DEF ValidDate, MonthLength
  <1> DEFINE hh == sod \div 3600
             mm == (sod % 3600) \div 60
             ss == sod % 60
  <1>6. /\ hh \in 0..23 /\ mm \in 0..59 /\ ss \in 0..59
        /\ hh * 3600 + mm * 60 + ss = sod /\ sod \div 86400 = 0 /\ sod % 86400 = sod
    <2> DEFINE r == sod % 3600
               q == r % 60
    <2>1. /\ hh \in Nat /\ hh < 24 /\ r \in Nat /\ sod = 3600 * hh + r
          /\ mm \in Nat /\ mm < 60 /\ q \in Nat /\ q < 60 /\ r = 60 * mm + q
          /\ sod \div 86400 = 0 /\ sod % 86400 = sod
      BY SMT, <1>1
    <2> HIDE DEF r, q, hh, mm
    <2>2. sod % 60 = q
      <3>1. sod = 3600 * hh + (60 * mm + q)
        BY SMT, <2>1
      <3>2. (3600 * hh + (60 * mm + q)) % 60 = q
        BY SMT, <2>1
      <3>3. QED
        BY <3>1, <3>2
    <2> HIDE DEF ss
    <2>3. ss = q
      BY <2>2 DEF ss
    <2>4. hh \in 0..23 /\ mm \in 0..59 /\ ss \in 0..59 /\ hh * 3600 + mm * 60 + ss = sod
      BY SMT, <2>1, <2>3
    <2>5. QED
      BY <2>1, <2>4
  <1>7. s = [date |-> Date(y, m, d), hh |-> hh, mm |-> mm, ss |-> ss]
    BY <1>3 DEF ToRfc3339, day, sod
  <1> HIDE DEF s, hh, mm, ss
  <1>8. /\ s.date = Date(y, m, d) /\ s.hh = hh /\ s.mm = mm /\ s.ss = ss
        /\ s.date.y = y /\ s.date.m = m /\ s.date.d = d
    BY <1>7 DEF Date
  <1> DEFINE secs == s.hh * 3600 + s.mm * 60 + s.ss
             read == [day |-> DaysFromCivil(s.date) + secs \div 86400, sod |-> secs % 86400]
  <1>9. secs = sod
    BY <1>6, <1>8
  <1>10. read = t
    <2>1. DaysFromCivil(s.date) + sod \div 86400 = day
      BY <1>1, <1>2, <1>6, <1>8
    <2>2. QED
      BY <1>1, <1>6, <1>9, <2>1
  <1>11. FromRfc3339(s) = {x \in {read} :
              /\ FourCharacters(s.date.y) /\ s.date.m \in 1..12 /\ s.date.d \in 1..31
              /\ s.hh \in -9..23 /\ s.mm \in -9..59 /\ s.ss \in -9..59}
    BY DEF FromRfc3339
  <1> HIDE DEF read, secs
  <1>12. hh \in -9..23 /\ mm \in -9..59 /\ ss \in -9..59
    BY <1>6
  <1>13. FromRfc3339(s) = {x \in {t} : FourCharacters(y)}
    BY <1>5, <1>8, <1>10, <1>11, <1>12
  <1>14. QED
    BY <1>4, <1>13 DEF s

(* What a text stands for is a timestamp. *)
LEMMA ReadTime ==
  ASSUME NEW s, NEW t \in FromRfc3339(s)
  PROVE  t \in Timestamps
  <1> DEFINE y == s.date.y
             m == s.date.m
             d == s.date.d
             hh == s.hh
             mm == s.mm
             ss == s.ss
             secs == hh * 3600 + mm * 60 + ss
             days == DaysFromCivil(s.date)
             day == days + secs \div 86400
             sod == secs % 86400
  <1>1. /\ t = [day |-> day, sod |-> sod]
        /\ FourCharacters(y) /\ m \in 1..12 /\ d \in 1..31
        /\ hh \in -9..23 /\ mm \in -9..59 /\ ss \in -9..59
    BY DEF FromRfc3339
  <1> HIDE DEF hh, mm, ss, y, m, d, days, day, sod
  <1>2. secs \in Int
    BY SMT, <1>1
  <1>3. y \in Int /\ d \in Int /\ m \in Int
    BY SMT, <1>1 DEF FourCharacters
  <1>4. days \in Int
    <2>1. days = DaysFromCivil(Date(y, m, d))
      BY DEF DaysFromCivil, Date, days, y, m, d
    <2> DEFINE n == MarchYear(y, m)
    <2>2. DaysFromCivil(Date(y, m, d))
            = 365 * n + n \div 4 - n \div 100 + n \div 400 + MarchDay(m, d) - 719468
      BY <1>1, <1>3, DaysCounted
    <2>3. n \in Int
      BY <1>3 DEF MarchYear
    <2>4. MarchDay(m, d) \in Int
      <3>1. MarchMonth(m) \in Int
        BY <1>3 DEF MarchMonth
      <3>2. (153 * MarchMonth(m) + 2) \div 5 \in Int
        BY SMT, <3>1
      <3>3. QED
        BY SMT, <1>3, <3>2 DEF MarchDay
    <2> HIDE DEF n
    <2>5. QED
      BY SMT, <2>1, <2>2, <2>3, <2>4
  <1> HIDE DEF secs
  <1>5. day \in Int /\ sod \in Nat /\ sod < 86400
    BY SMT, <1>2, <1>4 DEF day, sod
  <1>6. QED
    BY SMT, <1>1, <1>5 DEF Timestamps, SecondsOfDay

-------------------------------------------------------------------------------
(* did:key: a number written in one base is the number read in the other. *)

(* A first value and a step at every number make a function. *)
Stepped(T, first, step) ==
    {f \in [Nat -> T] : f[0] = first /\ \A n \in Nat \ {0} : f[n] = step[n][f[n - 1]]}

LEMMA StepByStep ==
  ASSUME NEW T, NEW first \in T, NEW step \in [Nat -> [T -> T]]
  PROVE  Stepped(T, first, step) # {}
  <1> DEFINE Begun(n) == {g \in [0..n -> T] :
                             g[0] = first /\ \A i \in 1..n : g[i] = step[i][g[i - 1]]}
             Some == {n \in Nat : Begun(n) # {}}
  <1>1. ASSUME NEW n \in Nat PROVE n \in Some
    <2>1. 0 \in Some
      <3>1. [i \in 0..0 |-> first] \in Begun(0)
        OBVIOUS
      <3>2. QED
        BY <3>1
    <2>2. ASSUME NEW m \in Nat, m \in Some PROVE m + 1 \in Some
      <3>1. PICK g : g \in Begun(m)
        BY <2>2
      <3> DEFINE last == step[m + 1][g[m]]
                 h == [i \in 0..m + 1 |-> IF i = m + 1 THEN last ELSE g[i]]
      <3>2. g \in [0..m -> T] /\ g[0] = first /\ \A i \in 1..m : g[i] = step[i][g[i - 1]]
        BY <3>1
      <3>3. last \in T
        BY <3>2
      <3>4. h[m + 1] = last /\ \A i \in 0..m : h[i] = g[i]
        OBVIOUS
      <3>5. h \in [0..m + 1 -> T]
        <4> HIDE DEF last
        <4>1. QED
          BY <3>2, <3>3
      <3> HIDE DEF h
      <3>6. ASSUME NEW i \in 1..m + 1 PROVE h[i] = step[i][h[i - 1]]
        <4>1. CASE i = m + 1
          <5>1. i - 1 = m /\ h[m] = g[m]
            BY <3>4, <4>1
          <5>2. QED
            BY <3>4, <4>1, <5>1
        <4>2. CASE i # m + 1
          <5>1. i \in 1..m /\ h[i] = g[i] /\ h[i - 1] = g[i - 1]
            BY <3>4, <4>2
          <5>2. QED
            BY <3>2, <5>1
        <4>3. QED
          BY <4>1, <4>2
      <3>7. h \in Begun(m + 1)
        BY <3>2, <3>4, <3>5, <3>6
      <3> HIDE DEF Begun
      <3>8. QED
        BY <3>7
    <2>3. 0..n \subseteq Some
      <3>1. \A i \in 0..n - 1 : i \in Some => i + 1 \in Some
        BY <2>2
      <3> HIDE DEF Some
      <3>2. QED
        BY <2>1, <3>1, UpTo
    <2>4. QED
      BY <2>3
  <1> DEFINE part(n) == CHOOSE g : g \in Begun(n)
             f == [n \in Nat |-> part(n)[n]]
  <1>2. ASSUME NEW n \in Nat PROVE part(n) \in Begun(n)
    BY <1>1
  <1> HIDE DEF part
  <1>3. ASSUME NEW n \in Nat, NEW i \in 0..n PROVE part(n + 1)[i] = part(n)[i]
    <2> DEFINE g == part(n)
               h == part(n + 1)
               Same == {j \in 0..n : g[j] = h[j]}
    <2>1. /\ g[0] = first /\ \A j \in 1..n : g[j] = step[j][g[j - 1]]
          /\ h[0] = first /\ \A j \in 1..n + 1 : h[j] = step[j][h[j - 1]]
      BY <1>2
    <2> HIDE DEF g, h
    <2>2. 0 \in Same
      BY <2>1
    <2>3. ASSUME NEW j \in 0..n - 1, j \in Same PROVE j + 1 \in Same
      <3>1. j + 1 \in 1..n /\ j + 1 \in 1..n + 1 /\ (j + 1) - 1 = j
        OBVIOUS
      <3>2. g[j + 1] = step[j + 1][g[j]] /\ h[j + 1] = step[j + 1][h[j]]
        BY <2>1, <3>1
      <3>3. QED
        BY <2>3, <3>1, <3>2
    <2> HIDE DEF Same
    <2>4. 0..n \subseteq Same
      BY <2>2, <2>3, UpTo
    <2>5. QED
      BY <2>4 DEF Same, g, h
  <1>4. f \in [Nat -> T] /\ f[0] = first
    <2>1. ASSUME NEW n \in Nat PROVE part(n)[n] \in T
      BY <1>2
    <2>2. part(0)[0] = first
      BY <1>2
    <2>3. QED
      BY <2>1, <2>2
  <1>5. ASSUME NEW n \in Nat \ {0} PROVE f[n] = step[n][f[n - 1]]
    <2>1. n - 1 \in Nat /\ (n - 1) + 1 = n /\ n - 1 \in 0..n - 1
      OBVIOUS
    <2>2. f[n] = part(n)[n] /\ f[n - 1] = part(n - 1)[n - 1]
      BY <2>1
    <2>3. part(n)[n] = step[n][part(n)[n - 1]]
      BY <1>2
    <2>4. part(n)[n - 1] = part(n - 1)[n - 1]
      BY <1>3, <2>1
    <2>5. QED
      BY <2>2, <2>3, <2>4
  <1> HIDE DEF f
  <1>6. QED
    BY <1>4, <1>5 DEF Stepped

(* The bases between which texts are converted. *)
Bases == {<<256, 58>>, <<58, 256>>}

(* What is carried is less than the base that is converted from. *)
CarriedOver(from, to, digits, v, carry) ==
    /\ carry[0] = v
    /\ \A i \in Nat : /\ carry[i] \in 0..from - 1
                      /\ carry[i + 1] = (carry[i] + DigitOf(digits, i + 1) * from) \div to

LEMMA CarriesAre ==
  ASSUME NEW from, NEW to, <<from, to>> \in Bases, NEW digits \in Seq(0..to - 1),
         NEW v \in 0..from - 1
  PROVE  CarriedOver(from, to, digits, v, Carries(from, to, digits, v))
  <1> DEFINE T == 0..from - 1
             digit(i) == DigitOf(digits, i)
             next(c, i) == (c + digit(i) * from) \div to
             At(f, i) == IF i = 0 THEN v ELSE next(f[i - 1], i)
             carry == Carries(from, to, digits, v)
  <1>1. \/ from = 256 /\ to = 58
        \/ from = 58 /\ to = 256
    BY DEF Bases
  <1>2. ASSUME NEW i \in Nat PROVE digit(i + 1) \in 0..to - 1
    BY <1>1 DEF DigitOf
  <1> HIDE DEF digit
  <1>3. ASSUME NEW c \in T, NEW i \in Nat \ {0} PROVE next(c, i) \in T
    <2> DEFINE d == digit(i)
    <2>1. d \in 0..to - 1
      <3>1. i - 1 \in Nat /\ (i - 1) + 1 = i
        OBVIOUS
      <3>2. QED
        BY <1>2, <3>1
    <2> HIDE DEF d
    <2>2. CASE from = 256 /\ to = 58
      <3>1. c \in 0..255 /\ d \in 0..57
        BY <2>1, <2>2
      <3>2. (c + d * 256) \div 58 \in 0..255
        BY <3>1
      <3>3. QED
        BY <2>2, <3>2 DEF d
    <2>3. CASE from = 58 /\ to = 256
      <3>1. c \in 0..57 /\ d \in 0..255
        BY <2>1, <2>3
      <3>2. (c + d * 58) \div 256 \in 0..57
        BY <3>1
      <3>3. QED
        BY <2>3, <3>2 DEF d
    <2>4. QED
      BY <1>1, <2>2, <2>3
  <1>4. \E f : f = [i \in Nat |-> At(f, i)]
    <2> DEFINE go == [i \in Nat |-> [c \in T |-> IF i = 0 THEN v ELSE next(c, i)]]
    <2>1. go \in [Nat -> [T -> T]]
      <3>1. ASSUME NEW i \in Nat, NEW c \in T PROVE (IF i = 0 THEN v ELSE next(c, i)) \in T
        <4> HIDE DEF next
        <4>1. QED
          BY <1>3
      <3> HIDE DEF next, T
      <3>2. QED
        BY <3>1
    <2>2. v \in T
      OBVIOUS
    <2>3. \A i \in Nat \ {0}, c \in T : go[i][c] = next(c, i)
      <3> HIDE DEF next, T
      <3>1. QED
        OBVIOUS
    <2> HIDE DEF go, T
    <2>4. PICK f \in [Nat -> T] : f[0] = v /\ \A i \in Nat \ {0} : f[i] = go[i][f[i - 1]]
      <3>1. Stepped(T, v, go) # {}
        BY <2>1, <2>2, StepByStep
      <3>2. QED
        BY <3>1 DEF Stepped
    <2>5. ASSUME NEW i \in Nat PROVE f[i] = At(f, i)
      <3>1. CASE i = 0
        BY <2>4, <3>1
      <3>2. CASE i # 0
        <4>1. i \in Nat \ {0} /\ f[i - 1] \in T
          BY <2>4, <3>2
        <4> HIDE DEF next
        <4>2. f[i] = go[i][f[i - 1]] /\ go[i][f[i - 1]] = next(f[i - 1], i)
          BY <2>3, <2>4, <4>1
        <4>3. QED
          BY <3>2, <4>2
      <3>3. QED
        BY <3>1, <3>2
    <2>6. f = [i \in Nat |-> At(f, i)]
      <3>1. f = [i \in Nat |-> f[i]]
        BY <2>4
      <3> HIDE DEF At
      <3>2. QED
        BY <2>5, <3>1
    <2>7. QED
      BY <2>6
  <1>5. carry = CHOOSE f : f = [i \in Nat |-> At(f, i)]
    BY DEF Carries, digit
  <1> HIDE DEF carry
  <1>6. carry = [i \in Nat |-> At(carry, i)]
    BY <1>4, <1>5
  <1>7. carry[0] = v /\ \A i \in Nat : carry[i + 1] = next(carry[i], i + 1)
    <2>1. \A i \in Nat : carry[i] = At(carry, i)
      BY <1>6
    <2>2. ASSUME NEW i \in Nat PROVE carry[i + 1] = next(carry[i], i + 1)
      <3>1. i + 1 \in Nat /\ i + 1 # 0 /\ (i + 1) - 1 = i
        OBVIOUS
      <3>2. carry[i + 1] = At(carry, i + 1)
        BY <2>1, <3>1
      <3> HIDE DEF next
      <3>3. QED
        BY <3>1, <3>2
    <2>3. QED
      BY <2>1, <2>2
  <1> HIDE DEF next
  <1>8. ASSUME NEW i \in Nat PROVE carry[i] \in T
    <2> DEFINE S == {j \in Nat : carry[j] \in T}
    <2>1. 0 \in S
      BY <1>7
    <2>2. ASSUME NEW j \in 0..i - 1, j \in S PROVE j + 1 \in S
      <3>0. j \in Nat /\ j + 1 \in Nat \ {0}
        OBVIOUS
      <3>1. carry[j + 1] = next(carry[j], j + 1)
        BY <1>7, <3>0
      <3>2. next(carry[j], j + 1) \in T
        BY <1>3, <2>2, <3>0
      <3>3. QED
        BY <3>0, <3>1, <3>2
    <2> HIDE DEF S
    <2>3. 0..i \subseteq S
      BY <2>1, <2>2, UpTo
    <2>4. QED
      BY <2>3 DEF S
  <1>9. QED
    BY <1>7, <1>8 DEF CarriedOver, carry, next, digit

(* A number's digits in a base, lowest first and without zeros on top: what  *)
(* is left above the first i digits is quotient i.                           *)
QuotientAt(b, digits, q, i) ==
    q[i] \in Nat /\ digits[i] \in 0..b - 1 /\ q[i - 1] = b * q[i] + digits[i]

Quotients(b, digits, x, q) ==
    q[0] = x /\ q[Len(digits)] = 0 /\ \A i \in 1..Len(digits) : QuotientAt(b, digits, q, i)

Writes(b, digits, x) ==
    /\ digits \in Seq(0..b - 1) /\ x \in Nat
    /\ digits # <<>> => digits[Len(digits)] # 0
    /\ \E q : Quotients(b, digits, x, q)

(* Digits write one number. *)
LEMMA OneNumber ==
  ASSUME NEW b \in Nat, NEW digits, NEW x, NEW y, Writes(b, digits, x), Writes(b, digits, y)
  PROVE  x = y
  <1> DEFINE n == Len(digits)
  <1>1. PICK p : Quotients(b, digits, x, p)
    BY DEF Writes
  <1>2. PICK q : Quotients(b, digits, y, q)
    BY DEF Writes
  <1>3. n \in Nat
    BY DEF Writes
  <1> DEFINE Same == {k \in 0..n : p[n - k] = q[n - k]}
  <1>4. 0 \in Same
    BY <1>1, <1>2, <1>3 DEF Quotients
  <1>5. ASSUME NEW k \in 0..n - 1, k \in Same PROVE k + 1 \in Same
    <2> DEFINE i == n - k
    <2>1. i \in 1..n /\ n - (k + 1) = i - 1 /\ k + 1 \in 0..n
      BY <1>3
    <2>2. p[i - 1] = b * p[i] + digits[i] /\ q[i - 1] = b * q[i] + digits[i]
      BY <1>1, <1>2, <2>1 DEF Quotients, QuotientAt
    <2>3. p[i] = q[i]
      BY <1>5
    <2> HIDE DEF i, n
    <2>4. QED
      BY <2>1, <2>2, <2>3
  <1> HIDE DEF Same
  <1>6. 0..n \subseteq Same
    <2> HIDE DEF n
    <2>1. QED
      BY <1>3, <1>4, <1>5, UpTo
  <1>7. p[0] = q[0]
    <2>1. n \in Same /\ n - n = 0
      BY <1>3, <1>6
    <2>2. QED
      BY <2>1 DEF Same
  <1>8. QED
    BY <1>1, <1>2, <1>7 DEF Quotients

(* A number is written in one way. *)
LEMMA OneWriting ==
  ASSUME NEW b \in {58, 256}, NEW d, NEW e, NEW x, Writes(b, d, x), Writes(b, e, x),
         Len(d) <= Len(e)
  PROVE  d = e
  <1> DEFINE n == Len(d)
             m == Len(e)
  <1>1. PICK p : Quotients(b, d, x, p)
    BY DEF Writes
  <1>2. PICK q : Quotients(b, e, x, q)
    BY DEF Writes
  <1>3. n \in Nat /\ m \in Nat /\ n <= m /\ d \in Seq(0..b - 1) /\ e \in Seq(0..b - 1)
    BY DEF Writes
  <1>4. /\ \A i \in 1..n : QuotientAt(b, d, p, i)
        /\ \A i \in 1..m : QuotientAt(b, e, q, i)
        /\ p[0] = q[0] /\ p[n] = 0 /\ q[m] = 0
    BY <1>1, <1>2 DEF Quotients
  <1> HIDE DEF n, m
  <1>5. ASSUME NEW i \in 1..n, p[i - 1] = q[i - 1] PROVE p[i] = q[i] /\ d[i] = e[i]
    <2> DEFINE u == p[i]
               w == q[i]
               r == d[i]
               s == e[i]
    <2>1. u \in Nat /\ w \in Nat /\ r \in 0..b - 1 /\ s \in 0..b - 1 /\ b * u + r = b * w + s
      <3>1. i \in 1..m
        BY <1>3
      <3>2. QED
        BY <1>4, <1>5, <3>1 DEF QuotientAt
    <2> HIDE DEF u, w, r, s
    <2>2. CASE b = 58
      <3>1. u = w /\ r = s
        BY <2>1, <2>2
      <3>2. QED
        BY <3>1 DEF u, w, r, s
    <2>3. CASE b = 256
      <3>1. u = w /\ r = s
        BY <2>1, <2>3
      <3>2. QED
        BY <3>1 DEF u, w, r, s
    <2>4. QED
      BY <2>2, <2>3
  <1> DEFINE Same == {i \in 0..n : p[i] = q[i]}
  <1>6. 0..n \subseteq Same
    <2>1. 0 \in Same
      BY <1>3, <1>4
    <2>2. ASSUME NEW i \in 0..n - 1, i \in Same PROVE i + 1 \in Same
      <3>1. i + 1 \in 1..n /\ (i + 1) - 1 = i /\ i + 1 \in 0..n
        BY <1>3
      <3>2. p[i] = q[i]
        BY <2>2
      <3>3. p[i + 1] = q[i + 1]
        BY <1>5, <3>1, <3>2
      <3>4. QED
        BY <3>1, <3>3
    <2> HIDE DEF Same
    <2>3. QED
      BY <1>3, <2>1, <2>2, UpTo
  <1>7. ASSUME NEW i \in 1..n PROVE d[i] = e[i]
    <2>1. i - 1 \in 0..n
      BY <1>3
    <2>2. p[i - 1] = q[i - 1]
      BY <1>6, <2>1
    <2>3. QED
      BY <1>5, <2>2
  <1>8. q[n] = 0
    <2>1. n \in 0..n
      BY <1>3
    <2>2. QED
      BY <1>4, <1>6, <2>1
  <1>9. n = m
    <2> SUFFICES ASSUME n < m PROVE FALSE
      BY <1>3
    <2> DEFINE Zero == {i \in 0..m - n - 1 : q[n + i] = 0}
               k == m - n - 1
    <2>1. 0 \in Zero
      BY <1>3, <1>8
    <2>2. ASSUME NEW i \in 0..k - 1, i \in Zero PROVE i + 1 \in Zero
      <3> DEFINE j == n + i + 1
      <3>1. j \in 1..m /\ j - 1 = n + i /\ n + (i + 1) = j /\ i + 1 \in 0..k
        BY <1>3
      <3>2. q[j - 1] = 0 /\ q[j - 1] = b * q[j] + e[j] /\ q[j] \in Nat /\ e[j] \in 0..b - 1
        BY <1>4, <2>2, <3>1 DEF QuotientAt
      <3> DEFINE w == q[j]
                 s == e[j]
      <3> HIDE DEF j
      <3>3. w \in Nat /\ s \in 0..b - 1 /\ b * w + s = 0
        BY <3>2
      <3> HIDE DEF w, s
      <3>4. w = 0
        BY <3>3
      <3>5. QED
        BY <3>1, <3>4 DEF w
    <2>3. k \in Zero
      <3>1. k \in Nat /\ k \in 0..k
        BY <1>3
      <3> HIDE DEF Zero, k
      <3>2. 0..k \subseteq Zero
        BY <2>1, <2>2, <3>1, UpTo
      <3>3. QED
        BY <3>1, <3>2
    <2>4. m - 1 = n + k /\ m \in 1..m /\ e # <<>>
      BY <1>3 DEF m
    <2>5. q[m - 1] = 0
      BY <2>3, <2>4
    <2>6. q[m - 1] = b * q[m] + e[m] /\ q[m] = 0 /\ e[m] \in 0..b - 1
      BY <1>4, <2>4 DEF QuotientAt
    <2>7. e[m] = 0
      <3> DEFINE s == e[m]
      <3>1. s \in 0..b - 1 /\ b * 0 + s = 0
        BY <2>5, <2>6
      <3> HIDE DEF s
      <3>2. s = 0
        BY <3>1
      <3>3. QED
        BY <3>2 DEF s
    <2>8. QED
      BY <2>4, <2>7 DEF Writes, m
  <1>10. QED
    <2>1. Len(d) = n /\ Len(e) = n
      BY <1>9 DEF n, m
    <2>2. d = [i \in 1..n |-> d[i]] /\ e = [i \in 1..n |-> e[i]]
      BY <1>3, <2>1
    <2>3. QED
      BY <1>7, <2>2

(* One digit: what is carried, and what stays. *)
LEMMA DigitCarried ==
  ASSUME NEW from, NEW to, <<from, to>> \in Bases, NEW c \in 0..from - 1, NEW d \in 0..to - 1,
         NEW w \in Nat
  PROVE  LET more == (c + d * from) \div to
             left == (c + d * from) % to
         IN  /\ left \in 0..to - 1 /\ more \in Nat
             /\ from * (to * w + d) + c = to * (from * w + more) + left
             /\ d # 0 /\ more = 0 => left # 0
             /\ d = 0 => more \in 0..to - 1
             /\ d = 0 /\ c \in 0..to - 1 => more = 0
             /\ d = 0 /\ c # 0 /\ more = 0 => left # 0
  <1>1. CASE from = 256 /\ to = 58
    <2> DEFINE t == c + d * 256
    <2>1. t \in Nat /\ c \in 0..255 /\ d \in 0..57
      BY <1>1
    <2>2. t = 58 * (t \div 58) + (t % 58) /\ t \div 58 \in Nat /\ t % 58 \in 0..57
      <3> HIDE DEF t
      <3>1. QED
        BY <2>1
    <2> DEFINE more == t \div 58
               left == t % 58
    <2> HIDE DEF more, left
    <2>3. c + d * 256 = 58 * more + left /\ more \in Nat /\ left \in 0..57
      BY <2>2 DEF more, left
    <2>4. /\ 256 * (58 * w + d) + c = 58 * (256 * w + more) + left
          /\ d # 0 /\ more = 0 => left # 0
          /\ d = 0 => more \in 0..57
          /\ d = 0 /\ c \in 0..57 => more = 0
          /\ d = 0 /\ c # 0 /\ more = 0 => left # 0
      BY <2>1, <2>3
    <2>5. QED
      BY <1>1, <2>3, <2>4 DEF more, left
  <1>2. CASE from = 58 /\ to = 256
    <2> DEFINE t == c + d * 58
    <2>1. t \in Nat /\ c \in 0..57 /\ d \in 0..255
      BY <1>2
    <2>2. t = 256 * (t \div 256) + (t % 256) /\ t \div 256 \in Nat /\ t % 256 \in 0..255
      <3> HIDE DEF t
      <3>1. QED
        BY <2>1
    <2> DEFINE more == t \div 256
               left == t % 256
    <2> HIDE DEF more, left
    <2>3. c + d * 58 = 256 * more + left /\ more \in Nat /\ left \in 0..255
      BY <2>2 DEF more, left
    <2>4. /\ 58 * (256 * w + d) + c = 256 * (58 * w + more) + left
          /\ d # 0 /\ more = 0 => left # 0
          /\ d = 0 => more \in 0..255
          /\ d = 0 /\ c \in 0..255 => more = 0
          /\ d = 0 /\ c # 0 /\ more = 0 => left # 0
      BY <2>1, <2>3
    <2>5. QED
      BY <1>2, <2>3, <2>4 DEF more, left
  <1>3. QED
    BY <1>1, <1>2 DEF Bases

(* Taking in one more digit. *)
LEMMA Pushed ==
  ASSUME NEW from, NEW to, <<from, to>> \in Bases, NEW digits, NEW x, Writes(to, digits, x),
         NEW v \in 0..from - 1
  PROVE  Writes(to, Push(from, to, digits, v), from * x + v)
  <1> DEFINE len == Len(digits)
             carry == Carries(from, to, digits, v)
             digit(i) == DigitOf(digits, i)
             S == {i \in len..len + 2 : carry[i] = 0}
             n == Min(S)
             p == Push(from, to, digits, v)
  <1>1. from \in {58, 256} /\ to \in {58, 256}
    BY DEF Bases
  <1>2. digits \in Seq(0..to - 1) /\ len \in Nat /\ x \in Nat
    BY DEF Writes
  <1>3. PICK q : Quotients(to, digits, x, q)
    BY DEF Writes
  <1>4. ASSUME NEW i \in Nat \ {0}
        PROVE  /\ digit(i) \in 0..to - 1
               /\ i > len => digit(i) = 0
               /\ i <= len => digit(i) = digits[i]
    BY <1>1, <1>2 DEF DigitOf
  <1>5. /\ carry[0] = v
        /\ \A i \in Nat : /\ carry[i] \in 0..from - 1
                          /\ carry[i + 1] = (carry[i] + digit(i + 1) * from) \div to
    <2>1. CarriedOver(from, to, digits, v, carry)
      BY <1>2, CarriesAre
    <2> HIDE DEF carry
    <2>2. QED
      BY <2>1 DEF CarriedOver
  <1>6. p = [i \in 1..n |-> (carry[i - 1] + digit(i) * from) % to]
    BY DEF Push
  <1> HIDE DEF carry, digit, p, len
  <1>7. carry[len + 1] \in 0..to - 1 /\ carry[len + 2] = 0
    <2> DEFINE c == carry[len]
               e == carry[len + 1]
    <2>1. /\ c \in 0..from - 1 /\ e \in 0..from - 1
          /\ digit(len + 1) = 0 /\ digit(len + 2) = 0
      <3>1. /\ len \in Nat /\ len + 1 \in Nat \ {0} /\ len + 1 > len
            /\ len + 2 \in Nat \ {0} /\ len + 2 > len
        BY <1>2
      <3>2. digit(len + 1) = 0 /\ digit(len + 2) = 0
        BY <1>4, <3>1
      <3>3. QED
        BY <1>5, <3>1, <3>2
    <2>2. e = (c + 0 * from) \div to
      BY <1>2, <1>5, <2>1
    <2>3. carry[len + 2] = (e + 0 * from) \div to
      <3>1. (len + 1) + 1 = len + 2 /\ len + 1 \in Nat
        BY <1>2
      <3>2. carry[(len + 1) + 1] = (e + digit((len + 1) + 1) * from) \div to
        BY <1>5, <3>1
      <3> HIDE DEF e
      <3>3. QED
        BY <2>1, <3>1, <3>2
    <2> HIDE DEF c, e
    <2>4. 0 \in 0..to - 1 /\ 0 \in Nat
      BY <1>1
    <2>5. e \in 0..to - 1
      BY <2>1, <2>2, <2>4, DigitCarried
    <2>6. (e + 0 * from) \div to = 0
      BY <2>1, <2>4, <2>5, DigitCarried
    <2>7. QED
      BY <2>3, <2>5, <2>6 DEF e
  <1>8. n \in len..len + 2 /\ carry[n] = 0 /\ \A i \in len..n - 1 : carry[i] # 0
    <2>1. S \in SUBSET Nat /\ len + 2 \in S
      BY <1>2, <1>7
    <2>2. Min(S) \in S /\ \A i \in S : Min(S) <= i
      BY <2>1, LeastIsIn
    <2>3. n \in S /\ \A i \in S : n <= i
      BY <2>2
    <2> HIDE DEF n
    <2>4. n \in len..len + 2 /\ carry[n] = 0
      BY <2>3
    <2>5. ASSUME NEW i \in len..n - 1, carry[i] = 0 PROVE FALSE
      <3>1. i \in len..len + 2 /\ ~(n <= i)
        BY <1>2, <2>4
      <3>2. i \in S
        BY <2>5, <3>1
      <3>3. QED
        BY <2>3, <3>1, <3>2
    <2>6. QED
      BY <2>4, <2>5
  <1> HIDE DEF n, S
  <1> DEFINE above(i) == IF i <= len THEN q[i] ELSE 0
             r == [i \in 0..n |-> from * above(i) + carry[i]]
  <1>9. n \in Nat /\ len <= n
    BY <1>2, <1>8
  <1>10. ASSUME NEW i \in 0..n
         PROVE  above(i) \in Nat /\ (i > 0 => above(i - 1) = to * above(i) + digit(i))
    <2>1. q[0] = x /\ q[len] = 0
      BY <1>3 DEF Quotients, len
    <2>2. ASSUME NEW j \in 1..len
          PROVE  q[j] \in Nat /\ digits[j] \in 0..to - 1 /\ q[j - 1] = to * q[j] + digits[j]
      BY <1>3 DEF Quotients, QuotientAt, len
    <2>3. above(i) \in Nat
      <3>1. CASE i = 0
        BY <1>2, <2>1, <3>1
      <3>2. CASE i \in 1..len
        BY <1>2, <2>2, <3>2
      <3>3. CASE i > len
        BY <1>2, <1>9, <3>3
      <3>4. QED
        BY <1>2, <1>9, <3>1, <3>2, <3>3
    <2>4. CASE i > 0 /\ i <= len
      <3>1. i \in 1..len /\ i \in Nat \ {0} /\ i - 1 <= len
        BY <1>2, <1>9, <2>4
      <3>2. digit(i) = digits[i]
        BY <1>4, <2>4, <3>1
      <3>3. above(i - 1) = q[i - 1] /\ above(i) = q[i]
        BY <2>4, <3>1
      <3>4. q[i - 1] = to * q[i] + digits[i]
        BY <2>2, <3>1
      <3> HIDE DEF above
      <3>5. QED
        BY <2>3, <3>2, <3>3, <3>4
    <2>5. CASE i > len
      <3>1. i \in Nat \ {0} /\ digit(i) = 0
        BY <1>2, <1>4, <1>9, <2>5
      <3>2. above(i) = 0
        BY <1>2, <1>9, <2>5
      <3>3. above(i - 1) = 0
        <4>1. CASE i - 1 = len
          BY <1>2, <2>1, <4>1
        <4>2. CASE i - 1 # len
          BY <1>2, <1>9, <2>5, <4>2
        <4>3. QED
          BY <4>1, <4>2
      <3>4. to * 0 + 0 = 0
        BY <1>1
      <3> HIDE DEF above
      <3>5. QED
        BY <3>1, <3>2, <3>3, <3>4
    <2>6. QED
      BY <1>2, <1>9, <2>3, <2>4, <2>5
  <1>11. above(0) = x
    BY <1>2, <1>3 DEF Quotients
  <1>12. above(n) = 0
    <2>1. CASE n = len
      BY <1>2, <1>3, <2>1 DEF Quotients, len
    <2>2. CASE n # len
      BY <1>2, <1>9, <2>2
    <2>3. QED
      BY <2>1, <2>2
  <1> HIDE DEF above
  <1>13. \A i \in 0..n : r[i] = from * above(i) + carry[i]
    OBVIOUS
  <1> HIDE DEF r
  <1>14. ASSUME NEW i \in 1..n
         PROVE  /\ r[i] \in Nat /\ p[i] \in 0..to - 1 /\ r[i - 1] = to * r[i] + p[i]
                /\ (digit(i) # 0 \/ (digit(i) = 0 /\ carry[i - 1] # 0)) /\ carry[i] = 0 => p[i] # 0
    <2> DEFINE c == carry[i - 1]
               d == digit(i)
               w == above(i)
               more == (c + d * from) \div to
               left == (c + d * from) % to
    <2>1. i \in Nat \ {0} /\ i - 1 \in Nat /\ (i - 1) + 1 = i /\ i \in 0..n /\ i - 1 \in 0..n
      BY <1>9
    <2>2. c \in 0..from - 1 /\ carry[i] = more
      BY <1>5, <2>1
    <2>3. d \in 0..to - 1 /\ w \in Nat /\ above(i - 1) = to * w + d
      BY <1>4, <1>10, <2>1
    <2>4. p[i] = left
      BY <1>6
    <2>5. r[i] = from * w + more /\ r[i - 1] = from * (to * w + d) + c
      BY <1>13, <2>1, <2>2, <2>3
    <2> HIDE DEF c, d, w
    <2>6. /\ left \in 0..to - 1 /\ more \in Nat
          /\ from * (to * w + d) + c = to * (from * w + more) + left
          /\ d # 0 /\ more = 0 => left # 0
          /\ d = 0 /\ c # 0 /\ more = 0 => left # 0
      BY <2>2, <2>3, DigitCarried
    <2> HIDE DEF more, left
    <2>7. from * w + more \in Nat
      BY <1>1, <2>3, <2>6
    <2>8. QED
      BY <2>2, <2>4, <2>5, <2>6, <2>7 DEF c, d
  <1>15. p \in Seq(0..to - 1) /\ Len(p) = n
    <2>1. p = [i \in 1..n |-> p[i]]
      BY <1>6
    <2>2. \A i \in 1..n : p[i] \in 0..to - 1
      BY <1>14
    <2>3. QED
      <3> DEFINE T == 0..to - 1
      <3>1. p \in [1..n -> T]
        BY <2>1, <2>2
      <3> HIDE DEF T
      <3>2. p \in Seq(T) /\ Len(p) = n
        BY <1>9, <3>1
      <3>3. QED
        BY <3>2 DEF T
  <1>16. p # <<>> => p[Len(p)] # 0
    <2> SUFFICES ASSUME p # <<>> PROVE p[n] # 0
      BY <1>15
    <2>1. n \in 1..n /\ n \in Nat \ {0} /\ carry[n] = 0
      BY <1>8, <1>9, <1>15
    <2>2. CASE n = len
      <3>1. digits # <<>> /\ digit(n) = digits[n]
        BY <1>4, <2>1, <2>2 DEF len
      <3>2. digit(n) # 0
        BY <2>2, <3>1 DEF Writes, len
      <3>3. QED
        BY <1>14, <2>1, <3>2
    <2>3. CASE n # len
      <3>1. n > len /\ n - 1 \in len..n - 1
        BY <1>2, <1>9, <2>3
      <3>2. digit(n) = 0 /\ carry[n - 1] # 0
        BY <1>4, <1>8, <2>1, <3>1
      <3>3. QED
        BY <1>14, <2>1, <3>2
    <2>4. QED
      BY <2>2, <2>3
  <1>17. Quotients(to, p, from * x + v, r)
    <2>1. 0 \in 0..n /\ n \in 0..n /\ from * 0 + 0 = 0
      BY <1>1, <1>9
    <2>2. r[0] = from * x + v
      BY <1>5, <1>11, <1>13, <2>1
    <2>3. r[n] = 0
      BY <1>8, <1>12, <1>13, <2>1
    <2>4. \A i \in 1..n : QuotientAt(to, p, r, i)
      BY <1>14 DEF QuotientAt
    <2>5. QED
      BY <1>15, <2>2, <2>3, <2>4 DEF Quotients
  <1>18. from * x + v \in Nat
    BY <1>1, <1>2
  <1>19. QED
    BY <1>15, <1>16, <1>17, <1>18 DEF Writes, p

(* What a sequence is made of. *)
LEMMA ElementsOf ==
  ASSUME NEW T, NEW seq \in Seq(T)
  PROVE  Len(seq) \in Nat /\ \A i \in 1..Len(seq) : seq[i] \in T
  OBVIOUS

(* The number that input digits stand for, highest first, as far as they were *)
(* taken in.                                                                  *)
IsDigits(from, s) == Len(s) \in Nat /\ \A k \in 1..Len(s) : s[k] \in 0..from - 1

IsNumber(from, s, number) ==
    /\ number[0] = 0
    /\ \A k \in 0..Len(s) : number[k] \in Nat
    /\ \A k \in 0..Len(s) - 1 : number[k + 1] = from * number[k] + s[k + 1]

LEMMA NumberExists ==
  ASSUME NEW from \in Nat, NEW s, IsDigits(from, s)
  PROVE  \E number : IsNumber(from, s, number)
  <1>0. Len(s) \in Nat /\ \A k \in 1..Len(s) : s[k] \in 0..from - 1
    BY DEF IsDigits
  <1> DEFINE next(k, c) == IF k \in 1..Len(s) THEN from * c + s[k] ELSE 0
             go == [k \in Nat |-> [c \in Nat |-> next(k, c)]]
  <1>1. ASSUME NEW k \in Nat, NEW c \in Nat PROVE next(k, c) \in Nat
    <2>1. CASE k \in 1..Len(s)
      <3>1. s[k] \in 0..from - 1
        BY <1>0, <2>1
      <3> DEFINE d == s[k]
      <3> HIDE DEF d
      <3>2. from * c + d \in Nat
        <4>1. d \in Nat
          BY <3>1 DEF d
        <4>2. from * c \in Nat
          OBVIOUS
        <4>3. QED
          BY <4>1, <4>2
      <3>3. QED
        BY <2>1, <3>2 DEF d
    <2>2. CASE k \notin 1..Len(s)
      BY <2>2
    <2>3. QED
      BY <2>1, <2>2
  <1>2. ASSUME NEW k \in 0..Len(s) - 1, NEW c PROVE next(k + 1, c) = from * c + s[k + 1]
    <2>1. k + 1 \in 1..Len(s)
      BY <1>0
    <2>2. QED
      BY <2>1
  <1> HIDE DEF next
  <1>3. go \in [Nat -> [Nat -> Nat]] /\ \A k, c \in Nat : go[k][c] = next(k, c)
    BY <1>1
  <1> HIDE DEF go
  <1> DEFINE T == Nat
  <1>4. 0 \in T /\ go \in [Nat -> [T -> T]]
    BY <1>3
  <1> HIDE DEF T
  <1>11. Stepped(T, 0, go) # {}
    BY <1>4, StepByStep
  <1>5. PICK f \in [Nat -> T] : f[0] = 0 /\ \A k \in Nat \ {0} : f[k] = go[k][f[k - 1]]
    BY <1>11 DEF Stepped
  <1>9. \A k \in Nat : f[k] \in Nat
    BY <1>5 DEF T
  <1>6. ASSUME NEW k \in 0..Len(s) - 1 PROVE f[k + 1] = from * f[k] + s[k + 1]
    <2>6. k + 1 \in Nat \ {0} /\ (k + 1) - 1 = k /\ k \in Nat
      BY <1>0
    <2>1. k + 1 \in Nat \ {0} /\ (k + 1) - 1 = k /\ k \in Nat /\ f[k] \in Nat
      BY <1>9, <2>6
    <2>2. f[k + 1] = go[k + 1][f[(k + 1) - 1]]
      BY <1>5, <2>1
    <2>3. go[k + 1][f[k]] = next(k + 1, f[k])
      BY <1>3, <2>1
    <2>4. next(k + 1, f[k]) = from * f[k] + s[k + 1]
      BY <1>2
    <2>5. QED
      BY <2>1, <2>2, <2>3, <2>4
  <1>7. \A k \in 0..Len(s) : f[k] \in Nat
    BY <1>9
  <1>8. IsNumber(from, s, f)
    BY <1>5, <1>6, <1>7 DEF IsNumber
  <1>10. QED
    BY <1>8

(* The conversion, one input digit after the other. *)
LEMMA DigitsAre ==
  ASSUME NEW from, NEW to, <<from, to>> \in Bases, NEW s \in Seq(0..from - 1)
  PROVE  LET digits == Digits(from, to, s)
         IN  /\ digits[0] = <<>>
             /\ \A k \in 0..Len(s) - 1 : digits[k + 1] = Push(from, to, digits[k], s[k + 1])
  <1> DEFINE n == Len(s)
             T == {d \in Seq(0..to - 1) : \E x \in Nat : Writes(to, d, x)}
             push(d, v) == Push(from, to, d, v)
             next(k, d) == IF k \in 1..n THEN push(d, s[k]) ELSE <<>>
             go == [k \in Nat |-> [d \in T |-> next(k, d)]]
             At(f, k) == IF k = 0 THEN <<>> ELSE push(f[k - 1], s[k])
             digits == Digits(from, to, s)
  <1>1. n \in Nat /\ from \in {58, 256} /\ to \in {58, 256}
    BY DEF Bases
  <1>2. <<>> \in T
    <2> DEFINE q == [i \in 0..0 |-> 0]
    <2>1. q[0] = 0 /\ Len(<<>>) = 0
      OBVIOUS
    <2> HIDE DEF q
    <2>2. Quotients(to, <<>>, 0, q)
      BY <2>1 DEF Quotients
    <2>3. <<>> \in Seq(0..to - 1)
      OBVIOUS
    <2>4. Writes(to, <<>>, 0)
      BY <2>2, <2>3 DEF Writes
    <2>5. QED
      BY <2>3, <2>4
  <1>3. ASSUME NEW k \in Nat, NEW d \in T PROVE next(k, d) \in T
    <2>1. CASE k \in 1..n
      <3>1. s[k] \in 0..from - 1
        BY <2>1, ElementsOf
      <3>2. PICK x \in Nat : Writes(to, d, x)
        OBVIOUS
      <3>3. Writes(to, push(d, s[k]), from * x + s[k])
        BY <3>1, <3>2, Pushed
      <3> HIDE DEF push
      <3>4. push(d, s[k]) \in T
        BY <3>3 DEF Writes
      <3>5. QED
        BY <2>1, <3>4
    <2>2. CASE k \notin 1..n
      BY <1>2, <2>2
    <2>3. QED
      BY <2>1, <2>2
  <1> HIDE DEF T, next, push
  <1>4. go \in [Nat -> [T -> T]] /\ \A k \in Nat, d \in T : go[k][d] = next(k, d)
    BY <1>3
  <1> HIDE DEF go
  <1>5. Stepped(T, <<>>, go) # {}
    BY <1>2, <1>4, StepByStep
  <1>6. PICK g \in [Nat -> T] : g[0] = <<>> /\ \A k \in Nat \ {0} : g[k] = go[k][g[k - 1]]
    BY <1>5 DEF Stepped
  <1>7. \E f : f = [k \in 0..n |-> At(f, k)]
    <2> DEFINE f == [k \in 0..n |-> g[k]]
    <2>1. ASSUME NEW k \in 0..n PROVE f[k] = At(f, k)
      <3>1. CASE k = 0
        BY <1>6, <3>1
      <3>2. CASE k # 0
        <4>1. k \in 1..n /\ k \in Nat \ {0} /\ k - 1 \in 0..n /\ k - 1 \in Nat
          BY <1>1, <3>2
        <4>2. f[k] = g[k] /\ f[k - 1] = g[k - 1] /\ g[k - 1] \in T
          BY <1>6, <4>1
        <4>3. g[k] = go[k][g[k - 1]]
          BY <1>6, <4>1
        <4>4. go[k][g[k - 1]] = next(k, g[k - 1])
          BY <1>4, <4>1, <4>2
        <4>5. next(k, g[k - 1]) = push(g[k - 1], s[k])
          BY <4>1 DEF next
        <4> HIDE DEF f
        <4>6. QED
          BY <3>2, <4>2, <4>3, <4>4, <4>5
      <3>3. QED
        BY <3>1, <3>2
    <2>2. f = [k \in 0..n |-> f[k]]
      OBVIOUS
    <2> HIDE DEF f
    <2>3. f = [k \in 0..n |-> At(f, k)]
      BY <2>1, <2>2
    <2>4. QED
      BY <2>3
  <1>8. digits = CHOOSE f : f = [k \in 0..n |-> At(f, k)]
    BY DEF Digits, push
  <1> HIDE DEF digits
  <1>9. digits = [k \in 0..n |-> At(digits, k)]
    BY <1>7, <1>8
  <1>10. \A k \in 0..n : digits[k] = At(digits, k)
    BY <1>9
  <1>11. digits[0] = <<>>
    BY <1>1, <1>10
  <1>12. ASSUME NEW k \in 0..n - 1 PROVE digits[k + 1] = push(digits[k], s[k + 1])
    <2>1. k + 1 \in 0..n /\ k + 1 # 0 /\ (k + 1) - 1 = k
      BY <1>1
    <2>2. digits[k + 1] = At(digits, k + 1)
      BY <1>10, <2>1
    <2>3. QED
      BY <2>1, <2>2
  <1>13. QED
    BY <1>11, <1>12 DEF digits, push

(* A text is converted to one that stands for the same number. *)
LEMMA Converted ==
  ASSUME NEW from, NEW to, <<from, to>> \in Bases, NEW s \in Seq(0..from - 1),
         s # <<>>, s[1] # 0
  PROVE  \E d, x : /\ Convert(from, to, s) = Reverse(d) /\ d # <<>>
                   /\ Writes(to, d, x) /\ Writes(from, Reverse(s), x)
  <1> DEFINE n == Len(s)
             digits == Digits(from, to, s)
             t == Reverse(s)
  <1>1. n \in Nat \ {0} /\ from \in {58, 256} /\ to \in {58, 256} /\ DOMAIN s = 1..n
    BY DEF Bases
  <1>15. IsDigits(from, s) /\ from \in Nat
    BY <1>1, ElementsOf DEF IsDigits
  <1>2. PICK h : IsNumber(from, s, h)
    BY <1>15, NumberExists
  <1>3. /\ h[0] = 0
        /\ \A k \in 0..n : h[k] \in Nat
        /\ \A k \in 0..n - 1 : h[k + 1] = from * h[k] + s[k + 1]
    BY <1>2 DEF IsNumber
  <1>4. /\ digits[0] = <<>>
        /\ \A k \in 0..n - 1 : digits[k + 1] = Push(from, to, digits[k], s[k + 1])
    BY DigitsAre
  <1> HIDE DEF digits
  <1>5. \A k \in 1..n : s[k] \in 0..from - 1
    BY ElementsOf
  <1> DEFINE S == {k \in 0..n : Writes(to, digits[k], h[k])}
  <1>6. 0 \in S
    <2> DEFINE q == [i \in 0..0 |-> 0]
    <2>1. q[0] = 0 /\ Len(<<>>) = 0
      OBVIOUS
    <2> HIDE DEF q
    <2>2. Quotients(to, <<>>, 0, q)
      BY <2>1 DEF Quotients
    <2>3. <<>> \in Seq(0..to - 1)
      OBVIOUS
    <2>4. Writes(to, <<>>, 0)
      BY <2>2, <2>3 DEF Writes
    <2>5. QED
      BY <1>1, <1>3, <1>4, <2>4
  <1>7. ASSUME NEW k \in 0..n - 1, k \in S PROVE k + 1 \in S
    <2>1. k + 1 \in 1..n /\ k + 1 \in 0..n
      BY <1>1
    <2>2. s[k + 1] \in 0..from - 1
      BY <1>5, <2>1
    <2>3. Writes(to, Push(from, to, digits[k], s[k + 1]), from * h[k] + s[k + 1])
      BY <1>7, <2>2, Pushed
    <2>4. Writes(to, digits[k + 1], h[k + 1])
      BY <1>3, <1>4, <2>3
    <2>5. QED
      BY <2>1, <2>4
  <1> HIDE DEF S, n
  <1>8. Writes(to, digits[n], h[n])
    <2>3. n \in Nat /\ \A k \in 0..n - 1 : k \in S => k + 1 \in S
      BY <1>1, <1>7
    <2>1. 0..n \subseteq S
      BY <1>6, <2>3, UpTo
    <2>2. n \in 0..n
      BY <1>1
    <2>4. QED
      BY <2>1, <2>2 DEF S
  <1>9. t \in Seq(0..from - 1) /\ Len(t) = n
        /\ \A i \in 1..n : t[i] = s[(n - i) + 1] /\ t[i] \in 0..from - 1
    <2>1. t = [i \in 1..n |-> s[(n - i) + 1]]
      BY DEF Reverse, n
    <2> HIDE DEF t
    <2>2. ASSUME NEW i \in 1..n PROVE t[i] = s[(n - i) + 1] /\ t[i] \in 0..from - 1
      <3>1. (n - i) + 1 \in 1..n
        BY <1>1
      <3>2. QED
        BY <1>5, <2>1, <3>1
    <2> DEFINE T == 0..from - 1
    <2>3. t \in [1..n -> T]
      BY <2>1, <2>2
    <2> HIDE DEF T
    <2>4. t \in Seq(T) /\ Len(t) = n
      BY <1>1, <2>3
    <2>5. QED
      BY <2>2, <2>4 DEF T
  <1> HIDE DEF t
  <1>10. Writes(from, t, h[n])
    <2> DEFINE q == [i \in 0..n |-> h[n - i]]
    <2>1. \A i \in 0..n : q[i] = h[n - i]
      OBVIOUS
    <2> HIDE DEF q
    <2>2. ASSUME NEW i \in 1..n PROVE QuotientAt(from, t, q, i)
      <3>1. /\ n - i \in 0..n - 1 /\ n - i \in 0..n /\ n - (i - 1) = (n - i) + 1
            /\ i \in 0..n /\ i - 1 \in 0..n
        BY <1>1
      <3>2. q[i] = h[n - i] /\ q[i - 1] = h[(n - i) + 1]
        BY <2>1, <3>1
      <3>3. h[(n - i) + 1] = from * h[n - i] + s[(n - i) + 1] /\ h[n - i] \in Nat
        BY <1>3, <3>1
      <3>4. t[i] = s[(n - i) + 1] /\ t[i] \in 0..from - 1
        BY <1>9
      <3>5. QED
        BY <3>2, <3>3, <3>4 DEF QuotientAt
    <2>3. q[0] = h[n] /\ q[n] = 0
      <3>1. 0 \in 0..n /\ n \in 0..n /\ n - 0 = n /\ n - n = 0
        BY <1>1
      <3>2. QED
        BY <1>3, <2>1, <3>1
    <2>4. Quotients(from, t, h[n], q)
      BY <1>9, <2>2, <2>3 DEF Quotients
    <2>5. t # <<>> => t[Len(t)] # 0
      <3>1. n \in 1..n /\ (n - n) + 1 = 1
        BY <1>1
      <3>2. QED
        BY <1>9, <3>1
    <2>6. h[n] \in Nat
      BY <1>1, <1>3
    <2>7. QED
      BY <1>9, <2>4, <2>5, <2>6 DEF Writes
  <1>11. digits[n] # <<>>
    <2> SUFFICES ASSUME digits[n] = <<>> PROVE FALSE
      OBVIOUS
    <2>1. PICK q : Quotients(to, <<>>, h[n], q)
      BY <1>8 DEF Writes
    <2>2. h[n] = 0
      BY <2>1 DEF Quotients
    <2>3. Writes(from, <<>>, 0)
      <3>1. q[0] = 0 /\ Len(<<>>) = 0
        BY <2>1, <2>2 DEF Quotients
      <3>2. Quotients(from, <<>>, 0, q)
        BY <3>1 DEF Quotients
      <3>3. <<>> \in Seq(0..from - 1)
        OBVIOUS
      <3>4. QED
        BY <3>2, <3>3 DEF Writes
    <2>4. Len(<<>>) <= Len(t)
      BY <1>1, <1>9
    <2>5. <<>> = t
      BY <1>1, <1>10, <2>2, <2>3, <2>4, OneWriting
    <2>6. QED
      BY <1>1, <1>9, <2>5
  <1>12. LeadingZeros(s) = <<>>
    <2> DEFINE u == Append(s, 1)
               I == {i \in 1..Len(u) : u[i] # 0}
    <2>1. u[1] # 0 /\ 1 \in 1..Len(u)
      OBVIOUS
    <2>2. I \in SUBSET Nat /\ 1 \in I
      BY <2>1
    <2>3. LeadingZeros(s) = SubSeq(s, 1, (IF I # {} THEN Min(I) ELSE 0) - 1)
      BY DEF LeadingZeros, SelectInSeq
    <2> HIDE DEF u
    <2>4. \A i \in I : i >= 1
      OBVIOUS
    <2> HIDE DEF I
    <2>5. Min(I) = 1
      <3>1. I # {}
        BY <2>2
      <3>2. Min(I) \in I /\ \A x \in I : Min(I) <= x
        BY <2>2, <3>1, LeastIsIn
      <3> DEFINE mn == Min(I)
      <3> HIDE DEF mn
      <3>3. mn >= 1 /\ mn <= 1 /\ mn \in Nat
        BY <2>2, <2>4, <3>2 DEF mn
      <3>4. mn = 1
        BY <3>3
      <3>5. QED
        BY <3>4 DEF mn
    <2>6. LeadingZeros(s) = SubSeq(s, 1, 0)
      BY <2>2, <2>3, <2>5
    <2>7. QED
      BY <2>6
  <1>13. Convert(from, to, s) = Reverse(digits[n])
    <2> DEFINE r == Reverse(digits[n])
    <2>1. r \in Seq(0..to - 1)
      <3> DEFINE e == digits[n]
                 m == Len(e)
                 T == 0..to - 1
      <3>1. e \in Seq(T)
        BY <1>8 DEF Writes
      <3> HIDE DEF e, T
      <3>2. m \in Nat /\ \A i \in 1..m : e[(m - i) + 1] \in T
        BY <3>1
      <3>3. Reverse(e) = [i \in 1..m |-> e[(m - i) + 1]]
        BY DEF Reverse
      <3> HIDE DEF m
      <3>4. Reverse(e) \in Seq(T)
        BY <3>2, <3>3
      <3>5. QED
        BY <3>4 DEF e, T
    <2>2. Convert(from, to, s) = <<>> \o r
      BY <1>12 DEF Convert, digits, n
    <2> HIDE DEF r
    <2>3. <<>> \o r = r
      BY <2>1
    <2>4. QED
      BY <2>2, <2>3 DEF r
  <1>14. QED
    BY <1>8, <1>10, <1>11, <1>13 DEF t
(* Turned round twice, a sequence is itself. *)
LEMMA ReversedTwice ==
  ASSUME NEW T, NEW seq \in Seq(T)
  PROVE  /\ Reverse(seq) \in Seq(T) /\ Reverse(Reverse(seq)) = seq
         /\ seq # <<>> => Reverse(seq) # <<>> /\ Reverse(seq)[1] = seq[Len(seq)]
  <1> DEFINE n == Len(seq)
             r == Reverse(seq)
             b == Reverse(r)
  <1>1. n \in Nat /\ \A i \in 1..n : seq[i] \in T
    BY ElementsOf
  <1>2. seq = [i \in 1..n |-> seq[i]]
    OBVIOUS
  <1>3. r = [i \in 1..n |-> seq[(n - i) + 1]]
    BY DEF Reverse
  <1>4. b = [i \in 1..Len(r) |-> r[(Len(r) - i) + 1]]
    BY DEF Reverse
  <1>5. seq # <<>> => n \in 1..n
    BY <1>1
  <1> HIDE DEF n, r, b
  <1>6. ASSUME NEW i \in 1..n
        PROVE  /\ (n - i) + 1 \in 1..n /\ (n - ((n - i) + 1)) + 1 = i
               /\ r[i] = seq[(n - i) + 1] /\ r[i] \in T
    <2>1. (n - i) + 1 \in 1..n /\ (n - ((n - i) + 1)) + 1 = i
      BY <1>1
    <2>2. QED
      BY <1>1, <1>3, <2>1
  <1>7. r \in Seq(T) /\ Len(r) = n
    <2>1. r \in [1..n -> T]
      BY <1>3, <1>6
    <2>2. QED
      BY <1>1, <2>1
  <1>8. \A i \in 1..n : b[i] = seq[i]
    <2> SUFFICES ASSUME NEW i \in 1..n PROVE b[i] = seq[i]
      OBVIOUS
    <2>1. b[i] = r[(n - i) + 1]
      BY <1>4, <1>7
    <2> DEFINE j == (n - i) + 1
    <2>2. j \in 1..n /\ (n - j) + 1 = i /\ b[i] = r[j]
      BY <1>6, <2>1
    <2> HIDE DEF j
    <2>3. r[j] = seq[(n - j) + 1]
      BY <1>6, <2>2
    <2>4. QED
      BY <2>2, <2>3
  <1>9. b = seq
    <2>1. b = [i \in 1..n |-> b[i]]
      BY <1>4, <1>7
    <2>2. QED
      BY <1>2, <1>8, <2>1
  <1>10. ASSUME seq # <<>> PROVE r # <<>> /\ r[1] = seq[n]
    <2>1. n \in 1..n /\ 1 \in 1..n /\ (n - 1) + 1 = n
      BY <1>1, <1>5, <1>10
    <2>2. r[1] = seq[n]
      BY <1>6, <2>1
    <2>3. Len(r) # 0
      BY <1>7, <2>1
    <2>4. r # <<>>
      BY <2>3
    <2>5. QED
      BY <2>2, <2>4
  <1>11. QED
    BY <1>7, <1>9, <1>10 DEF b, r, n

(* What a number is written in does not depend on how it was found. *)
LEMMA WrittenOnce ==
  ASSUME NEW b \in {58, 256}, NEW d, NEW e, NEW x, Writes(b, d, x), Writes(b, e, x)
  PROVE  d = e
  <1>1. Len(d) \in Nat /\ Len(e) \in Nat
    BY ElementsOf DEF Writes
  <1>2. CASE Len(d) <= Len(e)
    BY <1>2, OneWriting
  <1>3. CASE Len(e) <= Len(d)
    BY <1>3, OneWriting
  <1>4. QED
    BY <1>1, <1>2, <1>3

(* The did of a key stands for that key and no other. *)
THEOREM KeyReadBack ==
  ASSUME NEW vk \in Key
  PROVE  DecodeDidKey(EncodeDidKey(vk)) = {vk}
  <1> DEFINE s == ED25519_MULTICODEC \o vk
             text == Convert(256, 58, s)
  <1> DEFINE Byte == 0..256 - 1
             Digit == 0..58 - 1
             n == Len(vk)
  <1>1. vk \in Seq(0..255) /\ n \in Nat
    BY KeyAssumption
  <1>2. s \in Seq(Byte) /\ Len(s) = n + 2 /\ s[1] = 237
        /\ SubSeq(s, 1, 2) = <<237, 1>> /\ SubSeq(s, 3, Len(s)) = vk
    <2>1. <<237, 1>> \in Seq(0..255) /\ Len(<<237, 1>>) = 2
      OBVIOUS
    <2>2. s \in Seq(0..255) /\ Len(s) = n + 2 /\ s[1] = 237 /\ s[2] = 1
          /\ \A i \in 1..n : s[i + 2] = vk[i]
      BY <1>1, <2>1 DEF ED25519_MULTICODEC
    <2> HIDE DEF s
    <2>3. SubSeq(s, 1, 2) = <<237, 1>>
      <3>1. SubSeq(s, 1, 2) = [i \in 1..2 |-> s[i]]
        BY <1>1, <2>2
      <3>2. <<237, 1>> = [i \in 1..2 |-> s[i]]
        BY <2>2
      <3>3. QED
        BY <3>1, <3>2
    <2>4. SubSeq(s, 3, Len(s)) = vk
      <3> DEFINE v == SubSeq(s, 3, Len(s))
      <3>1. v = [i \in 1..n |-> s[i + 2]]
        BY <1>1, <2>2
      <3>2. vk = [i \in 1..n |-> vk[i]]
        BY <1>1
      <3>3. QED
        BY <2>2, <3>1, <3>2
    <2>5. s \in Seq(Byte)
      BY <2>2
    <2>6. QED
      BY <2>2, <2>3, <2>4, <2>5
  <1> HIDE DEF s
  <1>3. s # <<>> /\ s[1] # 0 /\ s \in Seq(0..256 - 1)
    BY <1>1, <1>2
  <1>4. <<256, 58>> \in Bases /\ <<58, 256>> \in Bases
    BY DEF Bases
  <1>5. PICK d, x : /\ Convert(256, 58, s) = Reverse(d) /\ d # <<>>
                    /\ Writes(58, d, x) /\ Writes(256, Reverse(s), x)
    BY ZenonT(60), <1>3, <1>4, Converted
  <1> DEFINE u == Reverse(d)
  <1>6. d \in Seq(0..58 - 1) /\ d[Len(d)] # 0
    BY <1>5 DEF Writes
  <1>7. u \in Seq(0..58 - 1) /\ u # <<>> /\ u[1] # 0 /\ Reverse(u) = d
    BY <1>5, <1>6, ReversedTwice
  <1>8. text = u
    BY <1>5
  <1> HIDE DEF u, text
  <1>9. PICK e, y : /\ Convert(58, 256, u) = Reverse(e) /\ e # <<>>
                    /\ Writes(256, e, y) /\ Writes(58, Reverse(u), y)
    BY ZenonT(60), <1>4, <1>7, Converted
  <1>10. x = y
    BY <1>5, <1>7, <1>9, OneNumber
  <1>11. e = Reverse(s)
    BY <1>5, <1>9, <1>10, WrittenOnce
  <1>12. Convert(58, 256, text) = s
    <2>1. Reverse(Reverse(s)) = s
      BY <1>3, ReversedTwice
    <2>2. QED
      BY <1>8, <1>9, <1>11, <2>1
  <1>13. EncodeDidKey(vk) = text
    BY DEF EncodeDidKey, text, s
  <1>14. DecodeDidKey(text) =
            {v \in {SubSeq(s, 2 + 1, Len(s))} : SubSeq(s, 1, 2) = <<237, 1>> /\ v \in Key}
    <2>1. Len(ED25519_MULTICODEC) = 2
      BY DEF ED25519_MULTICODEC
    <2>2. QED
      <3>1. ED25519_MULTICODEC = <<237, 1>>
        BY DEF ED25519_MULTICODEC
      <3>2. DecodeDidKey(text) =
              {v \in {SubSeq(s, Len(ED25519_MULTICODEC) + 1, Len(s))} :
                  SubSeq(s, 1, Len(ED25519_MULTICODEC)) = ED25519_MULTICODEC /\ v \in Key}
        BY <1>12 DEF DecodeDidKey
      <3>3. QED
        BY <2>1, <3>1, <3>2
  <1>15. DecodeDidKey(text) = {v \in {vk} : v \in Key}
    <2>1. 2 + 1 = 3 /\ SubSeq(s, 2 + 1, Len(s)) = vk /\ SubSeq(s, 1, 2) = <<237, 1>>
      BY <1>2
    <2>2. QED
      BY <1>14, <2>1
  <1>16. QED
    BY <1>13, <1>15

-------------------------------------------------------------------------------
(* The inductive invariant. *)

(* The calendar has walked from one of its first days. *)
TodayOK ==
    /\ walked \in 0..MaxWalk
    /\ \E y \in FirstYears : today.day = NewYear(y).day + walked

(* A presentation of what a wallet holds, built on a day of the walk. *)
BuiltAt(p, now, until, ends) ==
    p = Identified(BuildPresentation(Subject, Audience, Nonce, now, ends, Held(now, until)))

IsBuilt(p) ==
    \E now \in Times, lifetime \in Lifetimes : \E until \in {now, OpenEnd} :
        BuiltAt(p, now, until, [now EXCEPT !.day = @ + lifetime])

VCMembers ==
    {"id", "issuer", "subject", "readable", "validFrom", "validUntil", "verificationMethod",
     "category", "schemaId", "bodyRoot", "relianceRoot", "aionSignature", "disclosures",
     "relianceDisclosures"}

VPMembers ==
    {"id", "holder", "verificationMethod", "domain", "challenge", "issuedAt", "expiresAt",
     "aionSignature", "verifiableCredential"}

(* A credential carries the signature of a claim that was shown. *)
CarriesOne(vc) ==
    DOMAIN vc = VCMembers
        /\ \E o \in Range(native.claims) : vc.aionSignature = o.issuer_signature

CredentialsOK(vcs) ==
    vcs \in Seq(Range(vcs)) /\ \A vc \in Range(vcs) : CarriesOne(vc)

DocOK ==
    /\ DOMAIN doc = VPMembers
    /\ doc.aionSignature = native.subject_signature
    /\ CredentialsOK(doc.verifiableCredential)

(* A document nobody touched is what was exported, of issuers that resolve. *)
OnItsWay ==
    /\ altered = 0 => doc = ExportVP(native)
    /\ \A c \in Range(native.claims) : c.issuer_id \in Resolvable

IoInv ==
    /\ TodayOK /\ altered \in Nat
    /\ native # Nothing => IsBuilt(native)
    /\ native = Nothing => doc = Nothing
    /\ doc # Nothing => DocOK /\ OnItsWay

-------------------------------------------------------------------------------
(* Claims and presentations. *)

LEMMA HeldIs ==
  ASSUME NEW now \in Times, NEW until \in {now, OpenEnd}
  PROVE  HeldOK(now, until)
  <1>1. HeldOK(now, now) /\ HeldOK(now, OpenEnd)
    BY HeldAssumption
  <1>2. QED
    BY <1>1

(* What is held is shown by records of twelve fields, signed by their issuers. *)
LEMMA HeldParts ==
  ASSUME NEW now \in Times, NEW until \in {now, OpenEnd}, NEW c \in Range(Held(now, until))
  PROVE  /\ ClaimShaped(c) /\ Authentic(c) /\ c.reliance = c.reliance_root
         /\ c.from \in Timestamps /\ c.until \in Timestamps \cup {OpenEnd}
  <1> DEFINE issued == [c EXCEPT !.fields = <<>>, !.reliance = {}]
             keys == DOMAIN c.fields
  <1>1. /\ AsIssued(issued) /\ c = Disclose(issued, keys) /\ keys \subseteq DOMAIN c.body_root
        /\ c.from \in Timestamps /\ c.until \in Timestamps \cup {OpenEnd}
    <2>1. IsDisclosed(c) /\ c.from \in Timestamps /\ c.until \in Timestamps \cup {OpenEnd}
      <3>1. HeldOK(now, until)
        BY HeldIs
      <3>2. QED
        BY <3>1 DEF HeldOK
    <2>2. QED
      BY <2>1 DEF IsDisclosed
  <1> HIDE DEF issued, keys
  <1>2. /\ ClaimShaped(c) /\ c.body_root = issued.body_root /\ c.reliance = issued.reliance_root
        /\ c.reliance_root = issued.reliance_root
        /\ keys \subseteq DOMAIN issued.body_root => Authentic(c)
    BY <1>1, DisclosedParts
  <1>3. QED
    BY <1>1, <1>2

(* A built presentation, part by part. *)
BuiltIs(p, now, until, ends) ==
    /\ p.subject_id = Subject /\ p.subject_key = Subject
    /\ p.audience = Audience /\ p.nonce = Nonce
    /\ p.issued_at = now /\ p.expires_at = ends /\ p.claims = Held(now, until)
    /\ p.presentation_id = Hash(PresSigning(p))
    /\ p.subject_signature = [by |-> Subject, over |-> PresSigning(p)]
    /\ p = [presentation_id |-> p.presentation_id, subject_id |-> p.subject_id,
            subject_key |-> p.subject_key, audience |-> p.audience, nonce |-> p.nonce,
            issued_at |-> p.issued_at, expires_at |-> p.expires_at, claims |-> p.claims,
            subject_signature |-> p.subject_signature]
    /\ p # Nothing

LEMMA NativeParts ==
  ASSUME NEW now, NEW until, NEW ends, NEW p, BuiltAt(p, now, until, ends)
  PROVE  BuiltIs(p, now, until, ends)
  <1> DEFINE q == BuildPresentation(Subject, Audience, Nonce, now, ends, Held(now, until))
             content == PresSigning(q)
             held == Held(now, until)
  <1>1. q = AsPres(Subject, Subject, Audience, Nonce, now, ends, held,
                   [by |-> Subject, over |-> content])
    BY BuiltSigned
  <1>2. p = Identified(q)
    BY DEF BuiltAt
  <1>3. content = <<q.subject_id, q.audience, q.nonce, q.issued_at, q.expires_at,
                    [i \in DOMAIN q.claims |-> q.claims[i].claim_id]>>
    BY DEF PresSigning
  <1> HIDE DEF content, q, held
  <1>4. /\ q.subject_id = Subject /\ q.subject_key = Subject /\ q.audience = Audience
        /\ q.nonce = Nonce /\ q.issued_at = now /\ q.expires_at = ends /\ q.claims = held
        /\ q.subject_signature = [by |-> Subject, over |-> content]
    BY <1>1 DEF AsPres
  <1> DEFINE sig == [by |-> Subject, over |-> content]
  <1> HIDE DEF sig
  <1>5. p = [presentation_id |-> Hash(content), subject_id |-> Subject,
             subject_key |-> Subject, audience |-> Audience, nonce |-> Nonce,
             issued_at |-> now, expires_at |-> ends, claims |-> held,
             subject_signature |-> sig]
    BY <1>2, <1>4 DEF Identified, content, sig
  <1>6. /\ p.subject_id = Subject /\ p.subject_key = Subject
        /\ p.audience = Audience /\ p.nonce = Nonce
        /\ p.issued_at = now /\ p.expires_at = ends /\ p.claims = held
        /\ p.presentation_id = Hash(content) /\ p.subject_signature = sig
        /\ "claims" \in DOMAIN p
    BY <1>5
  <1>7. PresSigning(p) = content
    BY <1>3, <1>4, <1>6 DEF PresSigning
  <1>8. p # Nothing
    <2>1. "claims" \notin DOMAIN Nothing
      BY DEF Nothing
    <2>2. QED
      BY <1>6, <2>1
  <1>9. QED
    BY <1>5, <1>6, <1>7, <1>8 DEF held, sig, BuiltIs

LEMMA BuiltClaims ==
  ASSUME NEW now, NEW until, NEW ends, NEW p, BuiltAt(p, now, until, ends)
  PROVE  p.claims = Held(now, until)
  <1>1. BuiltIs(p, now, until, ends)
    BY NativeParts
  <1>2. QED
    BY <1>1 DEF BuiltIs

-------------------------------------------------------------------------------
(* The invariant holds. *)

LEMMA NewYearType == ASSUME NEW y \in Int PROVE NewYear(y).day \in Int
  BY DEF NewYear, LeapsBefore

LEMMA IoInvInit == IoInit => IoInv
  <1> SUFFICES ASSUME IoInit PROVE IoInv
    OBVIOUS
  <1>1. PICK y \in FirstYears : today = NewYear(y)
    BY DEF IoInit
  <1>2. today.day = NewYear(y).day + 0 /\ walked = 0 /\ 0 \in 0..MaxWalk
    <2>1. y \in Int /\ MaxWalk \in Nat
      BY SMT, InteropAssumption
    <2>2. NewYear(y).day \in Int
      BY <2>1, NewYearType
    <2>3. today.day = NewYear(y).day /\ walked = 0
      BY <1>1 DEF IoInit
    <2>4. QED
      BY <2>1, <2>2, <2>3
  <1>3. TodayOK
    BY <1>2 DEF TodayOK
  <1>4. QED
    BY <1>3 DEF IoInit, IoInv

LEMMA ExportedOK ==
  ASSUME NEW p, IsBuilt(p), p = native
  PROVE  LET vp == ExportVP(p)
         IN  /\ vp # Nothing /\ DOMAIN vp = VPMembers
             /\ vp.aionSignature = p.subject_signature
             /\ CredentialsOK(vp.verifiableCredential)
  <1> DEFINE vp == ExportVP(p)
             vcs == [i \in DOMAIN p.claims |-> ExportVC(p.claims[i])]
  <1>1. PICK now \in Times : \E until \in {now, OpenEnd} : p.claims = Held(now, until)
    <2>1. PICK now \in Times, lifetime \in Lifetimes :
                 \E until \in {now, OpenEnd} :
                     BuiltAt(p, now, until, [now EXCEPT !.day = @ + lifetime])
      BY DEF IsBuilt
    <2> DEFINE ends == [now EXCEPT !.day = @ + lifetime]
    <2>2. PICK until \in {now, OpenEnd} : BuiltAt(p, now, until, ends)
      BY <2>1
    <2> HIDE DEF ends
    <2>3. p.claims = Held(now, until)
      BY <2>2, BuiltClaims
    <2>4. QED
      BY <2>3
  <1>2. PICK until \in {now, OpenEnd} : p.claims = Held(now, until)
    BY <1>1
  <1>3. p.claims \in Seq(Range(p.claims))
    <2>1. HeldOK(now, until)
      BY <1>2, HeldIs
    <2>2. QED
      BY <1>2, <2>1 DEF HeldOK
  <1>4. ASSUME NEW i \in DOMAIN p.claims PROVE CarriesOne(vcs[i])
    <2>1. p.claims[i] \in Range(native.claims)
      BY DEF Range
    <2>2. vcs[i] = ExportVC(p.claims[i])
      OBVIOUS
    <2> DEFINE c == p.claims[i]
               vc == ExportVC(c)
    <2>3. DOMAIN vc = VCMembers /\ vc.aionSignature = c.issuer_signature
      BY DEF ExportVC, VCMembers
    <2> HIDE DEF c, vc, vcs
    <2>4. QED
      BY <2>1, <2>2, <2>3 DEF CarriesOne, c, vc
  <1>5. vcs \in Seq(Range(vcs))
    <2> DEFINE n == Len(p.claims)
    <2>1. n \in Nat /\ DOMAIN p.claims = 1..n
      BY <1>3
    <2>2. vcs = [i \in 1..n |-> vcs[i]]
      BY <2>1
    <2> HIDE DEF vcs, n
    <2>3. QED
      BY <2>1, <2>2, SequenceOfSome
  <1>6. DOMAIN vp = VPMembers /\ vp.aionSignature = p.subject_signature
        /\ vp.verifiableCredential = vcs
    <2> HIDE DEF vcs
    <2>1. vp = [id |-> p.presentation_id, holder |-> p.subject_id,
                verificationMethod |-> EncodeDidKey(p.subject_key),
                domain |-> p.audience, challenge |-> p.nonce, issuedAt |-> ToRfc3339(p.issued_at),
                expiresAt |-> ToRfc3339(p.expires_at), aionSignature |-> p.subject_signature,
                verifiableCredential |-> vcs]
      BY DEF ExportVP, vcs
    <2> HIDE DEF vp
    <2>2. QED
      BY <2>1 DEF VPMembers
  <1>7. vp # Nothing
    <2>1. "domain" \in DOMAIN vp /\ "domain" \notin DOMAIN Nothing
      BY <1>6 DEF VPMembers, Nothing
    <2> HIDE DEF vp
    <2>2. QED
      BY <2>1
  <1>8. CredentialsOK(vcs)
    <2>1. \A vc \in Range(vcs) : \E i \in DOMAIN p.claims : vc = vcs[i]
      BY DEF Range
    <2> HIDE DEF vcs
    <2>2. QED
      BY <1>4, <1>5, <2>1 DEF CredentialsOK
  <1> HIDE DEF vp, vcs
  <1>9. QED
    BY <1>6, <1>7, <1>8 DEF vp

(* Writing a member anew leaves the others, and the members, as they are. *)
LEMMA MemberReplaced ==
  ASSUME NEW r, NEW m, NEW x, NEW k, k \in DOMAIN r, k # m
  PROVE  DOMAIN [r EXCEPT ![m] = x] = DOMAIN r /\ [r EXCEPT ![m] = x][k] = r[k]
  OBVIOUS

(* Other tools write the parts of a credential anew, never its signature. *)
LEMMA RewrittenVCOK ==
  ASSUME NEW vc, CarriesOne(vc), NEW other \in RewrittenVCs(vc)
  PROVE  CarriesOne(other)
  <1> DEFINE Keeps(o) == DOMAIN o = DOMAIN vc /\ o.aionSignature = vc.aionSignature
  <1>1. DOMAIN vc = VCMembers /\ "aionSignature" \in DOMAIN vc
    BY DEF CarriesOne, VCMembers
  <1>2. ASSUME NEW x
        PROVE  /\ Keeps([vc EXCEPT !.validFrom = x]) /\ Keeps([vc EXCEPT !.validUntil = x])
               /\ Keeps([vc EXCEPT !.verificationMethod = x]) /\ Keeps([vc EXCEPT !.subject = x])
               /\ Keeps([vc EXCEPT !.id = x]) /\ Keeps([vc EXCEPT !.relianceDisclosures = x])
               /\ Keeps([vc EXCEPT !.disclosures = x]) /\ Keeps([vc EXCEPT !.readable = x])
    BY <1>1, MemberReplaced
  <1>3. ASSUME NEW x, NEW y
        PROVE  Keeps([vc EXCEPT !.issuer = x, !.verificationMethod = y])
    <2> DEFINE one == [vc EXCEPT !.issuer = x]
    <2>1. [vc EXCEPT !.issuer = x, !.verificationMethod = y]
            = [one EXCEPT !.verificationMethod = y]
      OBVIOUS
    <2>2. DOMAIN one = DOMAIN vc /\ one.aionSignature = vc.aionSignature
      BY <1>1, MemberReplaced
    <2> HIDE DEF one
    <2>3. QED
      BY <1>1, <2>1, <2>2, MemberReplaced
  <1>4. ASSUME NEW f
        PROVE  /\ \A x : Keeps([vc EXCEPT !.disclosures[f] = x])
               /\ \A x : Keeps([vc EXCEPT !.readable[f] = x])
               /\ Keeps([vc EXCEPT !.disclosures = Restrict(@, DOMAIN @ \ {f})])
    <2>1. \A x : \E y : [vc EXCEPT !.disclosures[f] = x] = [vc EXCEPT !.disclosures = y]
      OBVIOUS
    <2>2. \A x : \E y : [vc EXCEPT !.readable[f] = x] = [vc EXCEPT !.readable = y]
      OBVIOUS
    <2>3. \E y : [vc EXCEPT !.disclosures = Restrict(@, DOMAIN @ \ {f})]
                   = [vc EXCEPT !.disclosures = y]
      OBVIOUS
    <2> HIDE DEF Keeps
    <2>4. QED
      BY <1>2, <2>1, <2>2, <2>3
  <1> HIDE DEF Keeps
  <1>5. Keeps(other)
    <2> DEFINE Of(f) == {[vc EXCEPT !.disclosures[f] = Forged], [vc EXCEPT !.readable[f] = Forged],
                         [vc EXCEPT !.disclosures = Restrict(@, DOMAIN @ \ {f})]}
    <2>1. \/ \E x : other = [vc EXCEPT !.validFrom = x]
          \/ \E x : other = [vc EXCEPT !.validUntil = x]
          \/ \E x : other = [vc EXCEPT !.verificationMethod = x]
          \/ \E x : other = [vc EXCEPT !.issuer = x, !.verificationMethod = EncodeDidKey(x)]
          \/ \E x : other = [vc EXCEPT !.subject = x]
          \/ other = [vc EXCEPT !.id = Forged]
          \/ other = [vc EXCEPT !.relianceDisclosures = {}]
          \/ \E f : other \in Of(f)
      BY Zenon DEF RewrittenVCs
    <2>2. ASSUME NEW f, other \in Of(f) PROVE Keeps(other)
      <3>1. CASE other = [vc EXCEPT !.disclosures[f] = Forged]
        BY <1>4, <3>1
      <3>2. CASE other = [vc EXCEPT !.readable[f] = Forged]
        BY <1>4, <3>2
      <3>3. CASE other = [vc EXCEPT !.disclosures = Restrict(@, DOMAIN @ \ {f})]
        BY <1>4, <3>3
      <3>4. QED
        BY <2>2, <3>1, <3>2, <3>3
    <2> HIDE DEF Of
    <2>3. CASE \E f : other \in Of(f)
      BY <2>2, <2>3
    <2>4. ASSUME NEW x
          PROVE  /\ other = [vc EXCEPT !.validFrom = x] => Keeps(other)
                 /\ other = [vc EXCEPT !.validUntil = x] => Keeps(other)
                 /\ other = [vc EXCEPT !.verificationMethod = x] => Keeps(other)
                 /\ other = [vc EXCEPT !.subject = x] => Keeps(other)
                 /\ other = [vc EXCEPT !.id = x] => Keeps(other)
                 /\ other = [vc EXCEPT !.relianceDisclosures = x] => Keeps(other)
      BY <1>2
    <2>5. ASSUME NEW x, NEW y, other = [vc EXCEPT !.issuer = x, !.verificationMethod = y]
          PROVE  Keeps(other)
      BY <1>3, <2>5
    <2>6. QED
      BY <2>1, <2>3, <2>4, <2>5
  <1>6. QED
    BY <1>1, <1>5 DEF CarriesOne, Keeps

(* Nor do they write the holder's signature, or credentials of their own. *)
LEMMA RewrittenVPOK ==
  ASSUME DocOK, NEW other \in RewrittenVPs(doc), doc.verifiableCredential # <<>>
  PROVE  /\ DOMAIN other = VPMembers /\ other.aionSignature = doc.aionSignature
         /\ CredentialsOK(other.verifiableCredential)
  <1> DEFINE vcs == doc.verifiableCredential
             n == Len(vcs)
             Kept(o) == /\ DOMAIN o = VPMembers /\ o.aionSignature = doc.aionSignature
             Fine(o) == Kept(o) /\ CredentialsOK(o.verifiableCredential)
  <1>1. /\ DOMAIN doc = VPMembers /\ "aionSignature" \in DOMAIN doc
        /\ "verifiableCredential" \in DOMAIN doc
        /\ CredentialsOK(vcs) /\ vcs # <<>>
    BY DEF DocOK, VPMembers
  <1>2. n \in Nat \ {0} /\ DOMAIN vcs = 1..n /\ vcs \in Seq(Range(vcs))
    BY <1>1 DEF CredentialsOK
  <1>3. ASSUME NEW x
        PROVE  /\ Fine([doc EXCEPT !.issuedAt = x]) /\ Fine([doc EXCEPT !.expiresAt = x])
               /\ Fine([doc EXCEPT !.verificationMethod = x]) /\ Fine([doc EXCEPT !.domain = x])
               /\ Fine([doc EXCEPT !.holder = x])
               /\ CredentialsOK(x) => Fine([doc EXCEPT !.verifiableCredential = x])
    <2>1. Fine([doc EXCEPT !.issuedAt = x]) /\ Fine([doc EXCEPT !.expiresAt = x])
      BY <1>1, MemberReplaced
    <2>2. Fine([doc EXCEPT !.verificationMethod = x]) /\ Fine([doc EXCEPT !.domain = x])
          /\ Fine([doc EXCEPT !.holder = x])
      BY <1>1, MemberReplaced
    <2>3. Kept([doc EXCEPT !.verifiableCredential = x])
      BY <1>1, MemberReplaced
    <2>4. [doc EXCEPT !.verifiableCredential = x].verifiableCredential = x
      BY <1>1
    <2>5. QED
      BY <2>1, <2>2, <2>3, <2>4
  <1>4. ASSUME NEW x, NEW y PROVE Fine([doc EXCEPT !.holder = x, !.verificationMethod = y])
    <2> DEFINE one == [doc EXCEPT !.holder = x]
    <2>1. [doc EXCEPT !.holder = x, !.verificationMethod = y]
            = [one EXCEPT !.verificationMethod = y]
      OBVIOUS
    <2>2. DOMAIN one = DOMAIN doc /\ one.aionSignature = doc.aionSignature
          /\ one.verifiableCredential = vcs
      BY <1>1, MemberReplaced
    <2> HIDE DEF one
    <2>3. QED
      BY <1>1, <2>1, <2>2, MemberReplaced
  <1>5. ASSUME NEW s, NEW m \in Nat, s = [i \in 1..m |-> s[i]], \A i \in 1..m : CarriesOne(s[i])
        PROVE  CredentialsOK(s)
    BY <1>5, SequenceOfSome DEF CredentialsOK, Range
  <1>6. ASSUME NEW i \in 1..n PROVE CarriesOne(vcs[i])
    BY <1>1, <1>2 DEF CredentialsOK, Range
  <1> HIDE DEF Fine, Kept
  <1>7. CredentialsOK(Reverse(vcs))
    <2> DEFINE s == [i \in 1..n |-> vcs[(n - i) + 1]]
    <2>1. Reverse(vcs) = s
      BY DEF Reverse
    <2>2. ASSUME NEW i \in 1..n PROVE CarriesOne(s[i])
      <3>1. (n - i) + 1 \in 1..n
        BY <1>2
      <3>2. QED
        BY <1>6, <3>1
    <2>3. s = [i \in 1..n |-> s[i]]
      OBVIOUS
    <2> HIDE DEF s, n
    <2>4. QED
      BY <1>2, <1>5, <2>1, <2>2, <2>3
  <1>8. CredentialsOK(Tail(vcs))
    <2> DEFINE s == Tail(vcs)
    <2>1. s = [i \in 1..n - 1 |-> s[i]] /\ n - 1 \in Nat
      BY <1>2
    <2>2. ASSUME NEW i \in 1..n - 1 PROVE CarriesOne(s[i])
      <3>1. s[i] = vcs[i + 1] /\ i + 1 \in 1..n
        BY <1>2
      <3>2. QED
        BY <1>6, <3>1
    <2> HIDE DEF s, n
    <2>3. QED
      BY <1>5, <2>1, <2>2 DEF s
  <1>9. ASSUME NEW i \in 1..n, NEW vc \in RewrittenVCs(vcs[i])
        PROVE  CredentialsOK([vcs EXCEPT ![i] = vc])
    <2> DEFINE s == [vcs EXCEPT ![i] = vc]
    <2>1. s = [j \in 1..n |-> s[j]]
      BY <1>2
    <2>2. ASSUME NEW j \in 1..n PROVE CarriesOne(s[j])
      <3>1. CarriesOne(vc)
        BY <1>6, RewrittenVCOK
      <3>2. s[j] = IF j = i THEN vc ELSE vcs[j]
        BY <1>2
      <3> HIDE DEF s
      <3>3. QED
        BY <1>6, <3>1, <3>2
    <2> HIDE DEF s, n
    <2>3. QED
      BY <1>2, <1>5, <2>1, <2>2 DEF s
  <1>10. Fine(other)
    <2> DEFINE Of(i, vc) == [doc EXCEPT !.verifiableCredential[i] = vc]
    <2>1. \/ \E x : other = [doc EXCEPT !.issuedAt = x]
          \/ \E x : other = [doc EXCEPT !.expiresAt = x]
          \/ \E x : other = [doc EXCEPT !.holder = x, !.verificationMethod = EncodeDidKey(x)]
          \/ \E x : other = [doc EXCEPT !.verificationMethod = x]
          \/ other = [doc EXCEPT !.domain = Elsewhere]
          \/ other = [doc EXCEPT !.verifiableCredential = Reverse(@)]
          \/ other = [doc EXCEPT !.verifiableCredential = Tail(@)]
          \/ \E i \in DOMAIN vcs : \E vc \in RewrittenVCs(vcs[i]) : other = Of(i, vc)
      <3> DEFINE inside == UNION {{[doc EXCEPT !.verifiableCredential[i] = vc]
                                     : vc \in RewrittenVCs(doc.verifiableCredential[i])}
                                  : i \in DOMAIN doc.verifiableCredential}
      <3>1. CASE other \in inside
        <4>1. PICK i \in DOMAIN vcs :
                     other \in {[doc EXCEPT !.verifiableCredential[i] = vc]
                                  : vc \in RewrittenVCs(vcs[i])}
          BY <3>1
        <4>2. QED
          BY <4>1
      <3> HIDE DEF inside
      <3>2. CASE other \notin inside
        BY Zenon, <3>2 DEF RewrittenVPs, inside
      <3>3. QED
        BY <3>1, <3>2
    <2>2. ASSUME NEW i \in DOMAIN vcs, NEW vc \in RewrittenVCs(vcs[i]), other = Of(i, vc)
          PROVE  Fine(other)
      <3>1. other = [doc EXCEPT !.verifiableCredential = [vcs EXCEPT ![i] = vc]]
        BY <2>2
      <3>2. QED
        BY <1>2, <1>3, <1>9, <3>1
    <2>3. ASSUME other = [doc EXCEPT !.verifiableCredential = Reverse(@)] PROVE Fine(other)
      BY <1>3, <1>7, <2>3
    <2>4. ASSUME other = [doc EXCEPT !.verifiableCredential = Tail(@)] PROVE Fine(other)
      BY <1>3, <1>8, <2>4
    <2> HIDE DEF Of
    <2>5. ASSUME NEW x
          PROVE  /\ other = [doc EXCEPT !.issuedAt = x] => Fine(other)
                 /\ other = [doc EXCEPT !.expiresAt = x] => Fine(other)
                 /\ other = [doc EXCEPT !.verificationMethod = x] => Fine(other)
                 /\ other = [doc EXCEPT !.domain = x] => Fine(other)
      BY <1>3
    <2>6. ASSUME NEW x, NEW y, other = [doc EXCEPT !.holder = x, !.verificationMethod = y]
          PROVE  Fine(other)
      BY <1>4, <2>6
    <2>7. QED
      BY <2>1, <2>2, <2>3, <2>4, <2>5, <2>6
  <1>11. QED
    BY <1>10 DEF Fine, Kept

LEMMA IoInvStep == IoInv /\ [IoNext]_ioVars => IoInv'
  <1> SUFFICES ASSUME IoInv, [IoNext]_ioVars PROVE IoInv'
    OBVIOUS
  <1>1. CASE NextDay
    <2>1. /\ native = Nothing /\ doc = Nothing /\ native' = native /\ doc' = doc
          /\ walked < MaxWalk /\ walked' = walked + 1 /\ today'.day = today.day + 1
      BY <1>1 DEF NextDay, IoInv
    <2>7. altered' = altered
      BY <1>1 DEF NextDay
    <2>2. PICK y \in FirstYears : today.day = NewYear(y).day + walked
      BY DEF IoInv, TodayOK
    <2>3. NewYear(y).day \in Int /\ walked \in 0..MaxWalk /\ MaxWalk \in Nat
      <3>1. y \in Int /\ MaxWalk \in Nat
        BY SMT, InteropAssumption
      <3>2. QED
        BY <3>1, NewYearType DEF IoInv, TodayOK
    <2>4. today'.day = NewYear(y).day + walked' /\ walked' \in 0..MaxWalk
      BY <2>1, <2>2, <2>3
    <2>5. TodayOK'
      BY <2>4 DEF TodayOK
    <2>6. QED
      BY <2>1, <2>5, <2>7 DEF IoInv
  <1>2. CASE Build
    <2>1. native = Nothing /\ doc = Nothing /\ doc' = doc /\ today' = today /\ walked' = walked
          /\ altered' = altered
      BY <1>2 DEF Build, IoInv
    <2>2. PICK sod \in Hours, lifetime \in Lifetimes, last \in {TRUE, FALSE} :
                 LET now == [day |-> today.day, sod |-> sod]
                     p == BuildPresentation(Subject, Audience, Nonce, now,
                              [now EXCEPT !.day = @ + lifetime],
                              Held(now, IF last THEN now ELSE OpenEnd))
                 IN  native' = Identified(p)
      BY <1>2 DEF Build
    <2> DEFINE now == [day |-> today.day, sod |-> sod]
               until == IF last THEN now ELSE OpenEnd
               ends == [now EXCEPT !.day = @ + lifetime]
    <2>3. now \in Times
      <3>1. PICK y \in FirstYears : today.day = NewYear(y).day + walked
        BY DEF IoInv, TodayOK
      <3>2. walked \in 0..MaxWalk
        BY DEF IoInv, TodayOK
      <3>3. now = [day |-> NewYear(y).day + walked, sod |-> sod]
        BY <3>1
      <3>4. QED
        BY <3>2, <3>3 DEF Times
    <2>4. native' = Identified(BuildPresentation(Subject, Audience, Nonce, now, ends,
                                                 Held(now, until)))
      BY <2>2
    <2>5. until \in {now, OpenEnd}
      OBVIOUS
    <2>6. IsBuilt(native')
      <3> HIDE DEF until
      <3>1. BuiltAt(native', now, until, ends)
        BY <2>4 DEF BuiltAt
      <3> HIDE DEF now
      <3>2. QED
        BY <2>3, <2>5, <3>1 DEF IsBuilt
    <2>7. TodayOK'
      BY <2>1 DEF IoInv, TodayOK
    <2>8. QED
      BY <2>1, <2>6, <2>7 DEF IoInv
  <1>3. CASE Export
    <2>1. native # Nothing /\ doc' = ExportVP(native) /\ native' = native
          /\ today' = today /\ walked' = walked /\ altered' = altered
          /\ \A i \in DOMAIN native.claims : native.claims[i].issuer_id \in Resolvable
      BY <1>3 DEF Export
    <2>2. DOMAIN doc' = VPMembers /\ doc'.aionSignature = native.subject_signature
          /\ CredentialsOK(doc'.verifiableCredential)
      BY <2>1, ExportedOK DEF IoInv
    <2>3. DocOK'
      BY <2>1, <2>2 DEF DocOK, CredentialsOK, CarriesOne
    <2>4. OnItsWay'
      <3>1. \A c \in Range(native.claims) : c.issuer_id \in Resolvable
        BY <2>1 DEF Range
      <3>2. doc' = ExportVP(native')
        BY <2>1 DEF ExportVP
      <3>3. ExportVP(native') = ExportVP(native)'
        BY DEF ExportVP, ExportVC
      <3>4. QED
        BY <2>1, <3>1, <3>2, <3>3 DEF OnItsWay
    <2>5. QED
      BY <2>1, <2>3, <2>4 DEF IoInv, TodayOK
  <1>4. CASE Rewrite
    <2>1. /\ doc # Nothing /\ doc.verifiableCredential # <<>> /\ doc' \in RewrittenVPs(doc)
          /\ native' = native /\ today' = today /\ walked' = walked
          /\ altered' = altered + 1
      BY <1>4 DEF Rewrite
    <2>2. DocOK
      BY <2>1 DEF IoInv
    <2>3. DOMAIN doc' = VPMembers /\ doc'.aionSignature = doc.aionSignature
          /\ CredentialsOK(doc'.verifiableCredential)
      BY <2>1, <2>2, RewrittenVPOK
    <2>4. DocOK'
      BY <2>1, <2>2, <2>3 DEF DocOK, CredentialsOK, CarriesOne
    <2>5. native' # Nothing
      BY <2>1 DEF IoInv
    <2>6. altered' \in Nat /\ altered' # 0
      BY <2>1 DEF IoInv
    <2>7. OnItsWay'
      BY <2>1, <2>6 DEF IoInv, OnItsWay
    <2>8. QED
      BY <2>1, <2>4, <2>5, <2>6, <2>7 DEF IoInv, TodayOK
  <1>5. CASE UNCHANGED ioVars
    BY <1>5 DEF ioVars, IoInv, TodayOK, DocOK, CredentialsOK, CarriesOne, OnItsWay
  <1>6. QED
    BY <1>1, <1>2, <1>3, <1>4, <1>5 DEF IoNext

(* The invariant of every document on its way. *)
THEOREM IoInvHolds == IoSpec => []IoInv
  BY IoInvInit, IoInvStep, PTL DEF IoSpec

-------------------------------------------------------------------------------
(* What is imported. *)

(* A credential is imported as a claim that carries its signature and proves *)
(* itself.                                                                   *)
LEMMA ImportedClaim ==
  ASSUME NEW vc, NEW c \in ImportVC(vc)
  PROVE  ClaimShaped(c) /\ Authentic(c) /\ c.issuer_signature = vc.aionSignature
  <1>1. Authentic(c) /\ c \in RebuildNative(vc)
    BY DEF ImportVC
  <1>2. PICK from, until :
               c = [claim_id |-> vc.id, subject_id |-> vc.subject, issuer_id |-> vc.issuer,
                    category |-> vc.category, schema_id |-> vc.schemaId, from |-> from,
                    until |-> until, body_root |-> vc.bodyRoot,
                    reliance_root |-> vc.relianceRoot, fields |-> vc.disclosures,
                    reliance |-> vc.relianceDisclosures, issuer_signature |-> vc.aionSignature]
    BY <1>1 DEF RebuildNative
  <1>3. c = AsClaim(vc.id, vc.subject, vc.issuer, vc.category, vc.schemaId, from, until,
                    vc.bodyRoot, vc.relianceRoot, vc.disclosures, vc.relianceDisclosures,
                    vc.aionSignature)
    BY <1>2 DEF AsClaim
  <1>4. ClaimShaped(c) /\ c.issuer_signature = vc.aionSignature
    <2>1. /\ c.claim_id = vc.id /\ c.subject_id = vc.subject /\ c.issuer_id = vc.issuer
          /\ c.category = vc.category /\ c.schema_id = vc.schemaId /\ c.from = from
          /\ c.until = until /\ c.body_root = vc.bodyRoot /\ c.reliance_root = vc.relianceRoot
          /\ c.fields = vc.disclosures /\ c.reliance = vc.relianceDisclosures
          /\ c.issuer_signature = vc.aionSignature
      BY <1>3 DEF AsClaim
    <2>2. QED
      BY <1>3, <2>1 DEF ClaimShaped
  <1>5. QED
    BY <1>1, <1>4

(* Two claims that prove themselves by one signature differ in the fields    *)
(* they show and in nothing else, and what either shows is what was signed.  *)
LEMMA SameSignature ==
  ASSUME NEW c, NEW o, ClaimShaped(c), ClaimShaped(o), Authentic(c), Authentic(o),
         o.reliance = o.reliance_root, c.issuer_signature = o.issuer_signature
  PROVE  /\ [c EXCEPT !.fields = o.fields] = o
         /\ \A k \in DOMAIN c.fields : c.fields[k] = o.body_root[k]
  <1>1. /\ c.issuer_signature = [by |-> c.issuer_id, over |-> ClaimSigning(c)]
        /\ o.issuer_signature = [by |-> o.issuer_id, over |-> ClaimSigning(o)]
        /\ c.claim_id = Hash(ClaimSigning(c)) /\ o.claim_id = Hash(ClaimSigning(o))
        /\ c.reliance = c.reliance_root
        /\ \A k \in DOMAIN c.fields : c.fields[k] = c.body_root[k]
    BY DEF Authentic, RelianceProven, FieldsProven
  <1>2. ClaimSigning(c) = ClaimSigning(o)
    <2>1. [by |-> c.issuer_id, over |-> ClaimSigning(c)].over
            = [by |-> o.issuer_id, over |-> ClaimSigning(o)].over
      BY <1>1
    <2>2. QED
      BY <2>1
  <1>3. /\ c.subject_id = o.subject_id /\ c.issuer_id = o.issuer_id
        /\ c.category = o.category /\ c.schema_id = o.schema_id /\ c.from = o.from
        /\ c.until = o.until /\ c.body_root = o.body_root /\ c.reliance_root = o.reliance_root
    BY <1>2 DEF ClaimSigning
  <1>4. [c EXCEPT !.fields = o.fields]
          = AsClaim(c.claim_id, c.subject_id, c.issuer_id, c.category, c.schema_id, c.from,
                    c.until, c.body_root, c.reliance_root, o.fields, c.reliance,
                    c.issuer_signature)
    BY ReplaceFields DEF ClaimShaped
  <1>5. c.claim_id = o.claim_id /\ c.reliance = o.reliance
    BY <1>1, <1>2, <1>3
  <1>6. [c EXCEPT !.fields = o.fields] = o
    BY <1>3, <1>4, <1>5 DEF ClaimShaped
  <1>7. QED
    BY <1>1, <1>3, <1>6

(* Whatever other tools wrote anew, an imported presentation shows only      *)
(* claims that were shown, as their issuers signed them, and one whose       *)
(* holder's signature holds says what its holder signed (vc.rs, vp.rs).      *)
THEOREM ImportedIsSignedHolds == IoSpec => []ImportedIsSigned
  <1>1. IoInv => ImportedIsSigned
    <2> SUFFICES ASSUME IoInv, doc # Nothing, NEW p \in ImportVP(doc)
                 PROVE  /\ \A c \in Range(p.claims) : \E o \in Range(native.claims) :
                              /\ [c EXCEPT !.fields = o.fields] = o
                              /\ \A k \in DOMAIN c.fields : c.fields[k] = o.body_root[k]
                        /\ p.subject_signature
                               = [by |-> p.subject_key, over |-> PresSigning(p)] =>
                              /\ PresSigning(p) = PresSigning(native)
                              /\ p.subject_key = native.subject_key
      BY DEF ImportedIsSigned
    <2>1. DocOK /\ IsBuilt(native)
      BY DEF IoInv
    <2> DEFINE vcs == doc.verifiableCredential
               claims == [i \in DOMAIN vcs |-> CHOOSE c \in ImportVC(vcs[i]) : TRUE]
    <2>2. PICK now \in Times, lifetime \in Lifetimes : \E until \in {now, OpenEnd} :
                 BuiltAt(native, now, until, [now EXCEPT !.day = @ + lifetime])
      BY <2>1 DEF IsBuilt
    <2> DEFINE ends == [now EXCEPT !.day = @ + lifetime]
    <2>3. PICK until \in {now, OpenEnd} : BuiltAt(native, now, until, ends)
      BY <2>2
    <2> HIDE DEF ends
    <2>4. BuiltIs(native, now, until, ends)
      BY <2>3, NativeParts
    <2>5. /\ native.claims = Held(now, until) /\ native.subject_key = Subject
          /\ native.subject_signature = [by |-> Subject, over |-> PresSigning(native)]
      BY <2>4 DEF BuiltIs
    <2>6. /\ \A i \in DOMAIN vcs : ImportVC(vcs[i]) # {}
          /\ p \in RebuildPresentation(doc, claims)
      BY DEF ImportVP
    <2>7. ASSUME NEW i \in DOMAIN vcs PROVE claims[i] \in ImportVC(vcs[i])
      BY <2>6
    <2>8. \A c \in Range(claims) : \E i \in DOMAIN vcs : c = claims[i]
      BY DEF Range
    <2> HIDE DEF claims
    <2>9. p.claims = claims /\ p.subject_signature = doc.aionSignature
      BY <2>6 DEF RebuildPresentation
    <2>10. ASSUME NEW c \in Range(p.claims)
           PROVE  \E o \in Range(native.claims) :
                     /\ [c EXCEPT !.fields = o.fields] = o
                     /\ \A k \in DOMAIN c.fields : c.fields[k] = o.body_root[k]
      <3>1. PICK i \in DOMAIN vcs : c = claims[i]
        BY <2>8, <2>9
      <3>2. ClaimShaped(c) /\ Authentic(c) /\ c.issuer_signature = vcs[i].aionSignature
        BY <2>7, <3>1, ImportedClaim
      <3>3. CarriesOne(vcs[i])
        BY <2>1 DEF DocOK, CredentialsOK, Range
      <3>4. PICK o \in Range(native.claims) : c.issuer_signature = o.issuer_signature
        BY <3>2, <3>3 DEF CarriesOne
      <3>5. ClaimShaped(o) /\ Authentic(o) /\ o.reliance = o.reliance_root
        BY <2>5, HeldParts
      <3>6. QED
        BY <3>2, <3>4, <3>5, SameSignature
    <2>11. ASSUME p.subject_signature = [by |-> p.subject_key, over |-> PresSigning(p)]
           PROVE  PresSigning(p) = PresSigning(native) /\ p.subject_key = native.subject_key
      <3>1. [by |-> p.subject_key, over |-> PresSigning(p)]
              = [by |-> Subject, over |-> PresSigning(native)]
        BY <2>1, <2>5, <2>9, <2>11 DEF DocOK
      <3>2. p.subject_key = Subject /\ PresSigning(p) = PresSigning(native)
        <4>1. [by |-> p.subject_key, over |-> PresSigning(p)].by
                = [by |-> Subject, over |-> PresSigning(native)].by
          BY <3>1
        <4>2. [by |-> p.subject_key, over |-> PresSigning(p)].over
                = [by |-> Subject, over |-> PresSigning(native)].over
          BY <3>1
        <4>3. QED
          BY <4>1, <4>2
      <3>3. QED
        BY <2>5, <3>2
    <2>12. QED
      BY <2>10, <2>11
  <1>2. QED
    BY <1>1, IoInvHolds, PTL

-------------------------------------------------------------------------------
(* Out and back. *)

(* What a presentation has that was built or imported: its parts and theirs. *)
Exportable(c) ==
    /\ ClaimShaped(c) /\ Authentic(c) /\ c.issuer_id \in Key
    /\ c.from \in Timestamps /\ c.until \in Timestamps \cup {OpenEnd}

Presented(p) ==
    /\ p = [presentation_id |-> p.presentation_id, subject_id |-> p.subject_id,
            subject_key |-> p.subject_key, audience |-> p.audience, nonce |-> p.nonce,
            issued_at |-> p.issued_at, expires_at |-> p.expires_at, claims |-> p.claims,
            subject_signature |-> p.subject_signature]
    /\ p.subject_id = p.subject_key /\ p.subject_key \in Key
    /\ p.issued_at \in Timestamps /\ p.expires_at \in Timestamps
    /\ p.claims \in Seq(Range(p.claims))
    /\ \A c \in Range(p.claims) : Exportable(c)

Writable(t) == FourCharacters(YearOf(t))

ClaimWritable(c) == Writable(c.from) /\ (c.until = OpenEnd \/ Writable(c.until))

(* A claim comes back as itself, or its times cannot be written. *)
LEMMA ClaimBack ==
  ASSUME NEW c, Exportable(c)
  PROVE  ImportVC(ExportVC(c)) = IF ClaimWritable(c) THEN {c} ELSE {}
  <1> DEFINE vc == ExportVC(c)
             until == IF c.until = OpenEnd THEN Absent ELSE ToRfc3339(c.until)
  <1>1. vc = [id |-> c.claim_id, issuer |-> c.issuer_id, subject |-> c.subject_id,
              readable |-> c.fields, validFrom |-> ToRfc3339(c.from),
              validUntil |-> until,
              verificationMethod |-> EncodeDidKey(c.issuer_id), category |-> c.category,
              schemaId |-> c.schema_id, bodyRoot |-> c.body_root,
              relianceRoot |-> c.reliance_root,
              aionSignature |-> c.issuer_signature, disclosures |-> c.fields,
              relianceDisclosures |-> c.reliance]
    BY DEF ExportVC
  <1> HIDE DEF vc, until
  <1>2. /\ vc.id = c.claim_id /\ vc.issuer = c.issuer_id /\ vc.subject = c.subject_id
        /\ vc.validFrom = ToRfc3339(c.from) /\ vc.validUntil = until
        /\ vc.verificationMethod = EncodeDidKey(c.issuer_id) /\ vc.category = c.category
        /\ vc.schemaId = c.schema_id /\ vc.bodyRoot = c.body_root
        /\ vc.relianceRoot = c.reliance_root /\ vc.aionSignature = c.issuer_signature
        /\ vc.disclosures = c.fields /\ vc.relianceDisclosures = c.reliance
    BY <1>1
  <1>3. FromRfc3339(vc.validFrom) = IF Writable(c.from) THEN {c.from} ELSE {}
    BY <1>2, TimeReadBack DEF Exportable, Writable
  <1>4. Until(vc) = IF c.until = OpenEnd \/ Writable(c.until) THEN {c.until} ELSE {}
    <2>1. CASE c.until = OpenEnd
      <3>1. vc.validUntil = Absent
        BY <1>2, <2>1 DEF until
      <3>2. QED
        BY <2>1, <3>1 DEF Until
    <2>2. CASE c.until # OpenEnd
      <3>1. vc.validUntil = ToRfc3339(c.until) /\ c.until \in Timestamps
        BY <1>2, <2>2 DEF until, Exportable
      <3>2. ToRfc3339(c.until) # Absent
        <4>1. "ss" \in DOMAIN ToRfc3339(c.until)
          BY DEF ToRfc3339
        <4>2. "ss" \notin DOMAIN Absent
          BY DEF Absent
        <4>3. QED
          BY <4>1, <4>2
      <3>3. FromRfc3339(ToRfc3339(c.until)) = IF Writable(c.until) THEN {c.until} ELSE {}
        BY <3>1, TimeReadBack DEF Writable
      <3>4. QED
        BY <2>2, <3>1, <3>2, <3>3 DEF Until
    <2>3. QED
      BY <2>1, <2>2
  <1>5. DecodeDidKey(vc.verificationMethod) = {c.issuer_id}
    BY <1>2, KeyReadBack DEF Exportable
  <1> DEFINE Rebuilt(from, un) == AsClaim(c.claim_id, c.subject_id, c.issuer_id, c.category,
                                          c.schema_id, from, un, c.body_root, c.reliance_root,
                                          c.fields, c.reliance, c.issuer_signature)
  <1>6. RebuildNative(vc) =
          {Rebuilt(from, un) : from \in FromRfc3339(vc.validFrom), un \in Until(vc)}
    BY <1>2 DEF RebuildNative, AsClaim
  <1>7. Rebuilt(c.from, c.until) = c
    BY DEF Exportable, ClaimShaped
  <1> HIDE DEF Rebuilt
  <1>8. RebuildNative(vc) = IF ClaimWritable(c) THEN {c} ELSE {}
    BY <1>3, <1>4, <1>6, <1>7 DEF ClaimWritable
  <1>9. Authentic(c)
    BY DEF Exportable
  <1>10. ImportVC(vc) = IF ClaimWritable(c) THEN {c} ELSE {}
    BY <1>5, <1>8, <1>9 DEF ImportVC
  <1>11. QED
    BY <1>10 DEF vc

(* A presentation's times can all be written, or one of them cannot. *)
LEMMA TimesWritable ==
  ASSUME NEW p, Presented(p)
  PROVE  (\A t \in TimesOf(p) : Writable(t))
           <=> /\ Writable(p.issued_at) /\ Writable(p.expires_at)
               /\ \A c \in Range(p.claims) : ClaimWritable(c)
  <1> DEFINE Of(c) == {c.from, c.until} \ {OpenEnd}
  <1>1. \A c \in Range(p.claims) : c.from # OpenEnd
    BY InteropAssumption DEF Presented, Exportable
  <1>2. \A c \in Range(p.claims) : ClaimWritable(c) <=> \A t \in Of(c) : Writable(t)
    BY <1>1 DEF ClaimWritable
  <1>3. \A t : t \in TimesOf(p) <=> \/ t \in {p.issued_at, p.expires_at}
                                    \/ \E c \in Range(p.claims) : t \in Of(c)
    BY DEF TimesOf
  <1> HIDE DEF Of
  <1>4. QED
    BY <1>2, <1>3

(* A presentation comes back as itself, or not at all. *)
LEMMA PresentationBack ==
  ASSUME NEW p, Presented(p)
  PROVE  ImportVP(ExportVP(p)) = BackAgain(p)
  <1> DEFINE vp == ExportVP(p)
             vcs == [i \in DOMAIN p.claims |-> ExportVC(p.claims[i])]
             claims == [i \in DOMAIN vcs |-> CHOOSE c \in ImportVC(vcs[i]) : TRUE]
             passes == /\ DecodeDidKey(vp.verificationMethod) = {vp.holder}
                       /\ \A i \in DOMAIN vcs : ImportVC(vcs[i]) # {}
             AllWritable == \A c \in Range(p.claims) : ClaimWritable(c)
  <1>1. vp = [id |-> p.presentation_id, holder |-> p.subject_id,
              verificationMethod |-> EncodeDidKey(p.subject_key),
              domain |-> p.audience, challenge |-> p.nonce, issuedAt |-> ToRfc3339(p.issued_at),
              expiresAt |-> ToRfc3339(p.expires_at), aionSignature |-> p.subject_signature,
              verifiableCredential |-> vcs]
    BY DEF ExportVP
  <1> HIDE DEF vp
  <1>2. /\ vp.id = p.presentation_id /\ vp.holder = p.subject_id
        /\ vp.verificationMethod = EncodeDidKey(p.subject_key) /\ vp.domain = p.audience
        /\ vp.challenge = p.nonce /\ vp.issuedAt = ToRfc3339(p.issued_at)
        /\ vp.expiresAt = ToRfc3339(p.expires_at) /\ vp.aionSignature = p.subject_signature
        /\ vp.verifiableCredential = vcs
    BY <1>1
  <1>3. DOMAIN vcs = DOMAIN p.claims /\ \A i \in DOMAIN p.claims : vcs[i] = ExportVC(p.claims[i])
    OBVIOUS
  <1>4. ImportVP(vp) = IF passes THEN RebuildPresentation(vp, claims) ELSE {}
    BY <1>2 DEF ImportVP
  <1> HIDE DEF vcs
  <1>5. DecodeDidKey(vp.verificationMethod) = {vp.holder}
    BY <1>2, KeyReadBack DEF Presented
  <1>6. ASSUME NEW i \in DOMAIN p.claims
        PROVE  ImportVC(vcs[i]) = IF ClaimWritable(p.claims[i]) THEN {p.claims[i]} ELSE {}
    <2>1. Exportable(p.claims[i])
      BY DEF Presented, Range
    <2>2. QED
      BY <1>3, <2>1, ClaimBack
  <1>7. passes <=> AllWritable
    BY <1>3, <1>5, <1>6 DEF Range
  <1>8. ASSUME AllWritable PROVE claims = p.claims
    <2>1. ASSUME NEW i \in DOMAIN p.claims PROVE claims[i] = p.claims[i]
      <3>1. ImportVC(vcs[i]) = {p.claims[i]}
        BY <1>6, <1>8 DEF Range
      <3>2. (CHOOSE c \in ImportVC(vcs[i]) : TRUE) = p.claims[i]
        BY <3>1
      <3>3. QED
        BY <1>3, <3>2
    <2>2. p.claims = [i \in DOMAIN p.claims |-> p.claims[i]]
      BY DEF Presented
    <2>3. claims = [i \in DOMAIN p.claims |-> claims[i]]
      BY <1>3
    <2> HIDE DEF claims
    <2>4. QED
      BY <2>1, <2>2, <2>3
  <1> HIDE DEF passes, claims
  <1>9. FromRfc3339(vp.issuedAt) = (IF Writable(p.issued_at) THEN {p.issued_at} ELSE {})
        /\ FromRfc3339(vp.expiresAt) = IF Writable(p.expires_at) THEN {p.expires_at} ELSE {}
    BY <1>2, TimeReadBack DEF Presented, Writable
  <1>10. ASSUME AllWritable
         PROVE  RebuildPresentation(vp, claims)
                  = IF Writable(p.issued_at) /\ Writable(p.expires_at) THEN {p} ELSE {}
    <2> DEFINE Rebuilt(from, until) ==
                 [presentation_id |-> p.presentation_id, subject_id |-> p.subject_id,
                  subject_key |-> p.subject_id, audience |-> p.audience, nonce |-> p.nonce,
                  issued_at |-> from, expires_at |-> until, claims |-> p.claims,
                  subject_signature |-> p.subject_signature]
    <2>1. RebuildPresentation(vp, claims) =
            {Rebuilt(from, until) : from \in FromRfc3339(vp.issuedAt),
                                    until \in FromRfc3339(vp.expiresAt)}
      BY <1>2, <1>8, <1>10 DEF RebuildPresentation
    <2>2. Rebuilt(p.issued_at, p.expires_at) = p
      BY DEF Presented
    <2> HIDE DEF Rebuilt
    <2>3. QED
      BY <1>9, <2>1, <2>2
  <1>11. BackAgain(p) = IF Writable(p.issued_at) /\ Writable(p.expires_at) /\ AllWritable
                        THEN {p} ELSE {}
    BY TimesWritable DEF BackAgain, Writable
  <1>12. ImportVP(vp) = BackAgain(p)
    BY <1>4, <1>7, <1>10, <1>11
  <1>13. QED
    BY <1>12 DEF vp

(* What a wallet builds can be presented. *)
LEMMA BuiltPresented ==
  ASSUME NEW p, IsBuilt(p), \A c \in Range(p.claims) : c.issuer_id \in Resolvable
  PROVE  Presented(p)
  <1>1. PICK now \in Times, lifetime \in Lifetimes : \E until \in {now, OpenEnd} :
               BuiltAt(p, now, until, [now EXCEPT !.day = @ + lifetime])
    BY DEF IsBuilt
  <1> DEFINE ends == [now EXCEPT !.day = @ + lifetime]
  <1>2. PICK until \in {now, OpenEnd} : BuiltAt(p, now, until, ends)
    BY <1>1
  <1>3. now \in Timestamps /\ ends \in Timestamps
    <2>1. PICK y \in FirstYears, n \in 0..MaxWalk, sod \in Hours :
                 now = [day |-> NewYear(y).day + n, sod |-> sod]
      BY DEF Times
    <2>2. y \in Int /\ lifetime \in Nat /\ MaxWalk \in Nat
      BY SMT, InteropAssumption
    <2>3. sod \in Nat /\ sod < 86400
      BY SMT, InteropAssumption DEF SecondsOfDay
    <2>4. NewYear(y).day \in Int
      BY <2>2, NewYearType
    <2> DEFINE day == NewYear(y).day + n
    <2>5. day \in Int /\ day + lifetime \in Int /\ sod \in Nat /\ sod < 86400
      BY SMT, <2>2, <2>3, <2>4
    <2> HIDE DEF day
    <2>6. now = [day |-> day, sod |-> sod]
      BY <2>1 DEF day
    <2>7. ends = [day |-> day + lifetime, sod |-> sod]
      BY <2>6
    <2>8. QED
      BY SMT, <2>5, <2>6, <2>7 DEF Timestamps, SecondsOfDay
  <1> HIDE DEF ends
  <1>4. BuiltIs(p, now, until, ends)
    BY <1>2, NativeParts
  <1>5. /\ p = [presentation_id |-> p.presentation_id, subject_id |-> p.subject_id,
                subject_key |-> p.subject_key, audience |-> p.audience, nonce |-> p.nonce,
                issued_at |-> p.issued_at, expires_at |-> p.expires_at, claims |-> p.claims,
                subject_signature |-> p.subject_signature]
        /\ p.subject_id = Subject /\ p.subject_key = Subject /\ p.claims = Held(now, until)
        /\ p.issued_at = now /\ p.expires_at = ends
    BY <1>4 DEF BuiltIs
  <1>6. Subject \in Key /\ Resolvable \subseteq Key
    BY SMT, InteropAssumption
  <1>7. p.claims \in Seq(Range(p.claims))
    <2>1. HeldOK(now, until)
      BY HeldIs
    <2>2. QED
      BY <1>5, <2>1 DEF HeldOK
  <1>8. ASSUME NEW c \in Range(p.claims) PROVE Exportable(c)
    <2>1. /\ ClaimShaped(c) /\ Authentic(c)
          /\ c.from \in Timestamps /\ c.until \in Timestamps \cup {OpenEnd}
      BY <1>5, HeldParts
    <2>2. c.issuer_id \in Key
      BY <1>6
    <2>3. QED
      BY <1>3, <2>1, <2>2 DEF Exportable
  <1>9. QED
    BY <1>3, <1>5, <1>6, <1>7, <1>8 DEF Presented

(* What is imported can be presented, and exported, again. *)
LEMMA DecodedKey ==
  ASSUME NEW text, NEW vk, DecodeDidKey(text) = {vk}
  PROVE  vk \in Key
  <1>1. vk \in DecodeDidKey(text)
    OBVIOUS
  <1>2. QED
    BY <1>1 DEF DecodeDidKey

LEMMA ImportedPresented ==
  ASSUME NEW vp, NEW p \in ImportVP(vp),
         vp.verifiableCredential \in Seq(Range(vp.verifiableCredential))
  PROVE  Presented(p)
  <1> DEFINE vcs == vp.verifiableCredential
             claims == [i \in DOMAIN vcs |-> CHOOSE c \in ImportVC(vcs[i]) : TRUE]
  <1>1. /\ DecodeDidKey(vp.verificationMethod) = {vp.holder}
        /\ \A i \in DOMAIN vcs : ImportVC(vcs[i]) # {}
        /\ p \in RebuildPresentation(vp, claims)
    BY DEF ImportVP
  <1>2. DOMAIN claims = DOMAIN vcs /\ \A i \in DOMAIN vcs : claims[i] \in ImportVC(vcs[i])
    BY <1>1
  <1>3. claims \in Seq(Range(claims))
    <2>1. Len(vcs) \in Nat /\ DOMAIN vcs = 1..Len(vcs)
      BY ElementsOf
    <2>2. claims = [i \in 1..Len(vcs) |-> claims[i]]
      BY <2>1
    <2> HIDE DEF claims, vcs
    <2>3. \A i \in 1..Len(vcs) : claims[i] \in Range(claims)
      BY <1>2, <2>1 DEF Range
    <2>4. claims \in [1..Len(vcs) -> Range(claims)]
      BY <2>2, <2>3
    <2>5. QED
      BY <2>1, <2>4
  <1> HIDE DEF claims
  <1>4. PICK from \in FromRfc3339(vp.issuedAt), until \in FromRfc3339(vp.expiresAt) :
               p = [presentation_id |-> vp.id, subject_id |-> vp.holder,
                    subject_key |-> vp.holder, audience |-> vp.domain, nonce |-> vp.challenge,
                    issued_at |-> from, expires_at |-> until, claims |-> claims,
                    subject_signature |-> vp.aionSignature]
    BY <1>1 DEF RebuildPresentation
  <1>5. vp.holder \in Key
    BY <1>1, DecodedKey
  <1>6. from \in Timestamps /\ until \in Timestamps
    BY ReadTime
  <1>7. ASSUME NEW c \in Range(claims) PROVE Exportable(c)
    <2>1. PICK i \in DOMAIN vcs : c = claims[i]
      BY <1>2 DEF Range
    <2> DEFINE vc == vcs[i]
    <2>2. c \in ImportVC(vc)
      BY <1>2, <2>1
    <2> HIDE DEF vc
    <2>3. ClaimShaped(c) /\ Authentic(c)
      BY <2>2, ImportedClaim
    <2>4. DecodeDidKey(vc.verificationMethod) = {c.issuer_id} /\ c \in RebuildNative(vc)
      BY <2>2 DEF ImportVC
    <2>5. c.issuer_id \in Key
      BY <2>4, DecodedKey
    <2>6. c.from \in FromRfc3339(vc.validFrom) /\ c.until \in Until(vc)
      BY <2>4 DEF RebuildNative
    <2>7. c.from \in Timestamps
      BY <2>6, ReadTime
    <2>8. c.until \in Timestamps \cup {OpenEnd}
      BY <2>6, ReadTime DEF Until
    <2>9. QED
      BY <2>3, <2>5, <2>7, <2>8 DEF Exportable
  <1>8. /\ p = [presentation_id |-> p.presentation_id, subject_id |-> p.subject_id,
                subject_key |-> p.subject_key, audience |-> p.audience, nonce |-> p.nonce,
                issued_at |-> p.issued_at, expires_at |-> p.expires_at, claims |-> p.claims,
                subject_signature |-> p.subject_signature]
        /\ p.subject_id = vp.holder /\ p.subject_key = vp.holder
        /\ p.issued_at = from /\ p.expires_at = until /\ p.claims = claims
    BY <1>4
  <1>9. QED
    BY <1>3, <1>5, <1>6, <1>7, <1>8 DEF Presented

(* A document nobody touched, of whatever claims and issued at whatever time, *)
(* imports to the presentation it was exported from, unless four characters   *)
(* cannot write one of its years; then to nothing (vc.rs, vp.rs, rfc3339.rs,  *)
(* didkey.rs).                                                                *)
THEOREM RoundTripsExactlyHolds == IoSpec => []RoundTripsExactly
  <1>1. IoInv => RoundTripsExactly
    <2> SUFFICES ASSUME IoInv, doc # Nothing, altered = 0
                 PROVE  ImportVP(doc) = BackAgain(native)
      BY DEF RoundTripsExactly
    <2>1. native # Nothing /\ doc = ExportVP(native) /\ IsBuilt(native)
          /\ \A c \in Range(native.claims) : c.issuer_id \in Resolvable
      BY DEF IoInv, OnItsWay
    <2>2. Presented(native)
      BY <2>1, BuiltPresented
    <2>3. QED
      BY <2>1, <2>2, PresentationBack
  <1>2. QED
    BY <1>1, IoInvHolds, PTL

(* Whatever a document imports to, exported again it imports to the same.    *)
THEOREM ImportIsStableHolds == IoSpec => []ImportIsStable
  <1>1. IoInv => ImportIsStable
    <2> SUFFICES ASSUME IoInv, doc # Nothing, NEW p \in ImportVP(doc)
                 PROVE  ImportVP(ExportVP(p)) = BackAgain(p)
      BY DEF ImportIsStable
    <2>1. doc.verifiableCredential \in Seq(Range(doc.verifiableCredential))
      BY DEF IoInv, DocOK, CredentialsOK
    <2>2. Presented(p)
      BY <2>1, ImportedPresented
    <2>3. QED
      BY <2>2, PresentationBack
  <1>2. QED
    BY <1>1, IoInvHolds, PTL
===============================================================================
