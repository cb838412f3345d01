----------------------------- MODULE TimeProofs -----------------------------
(***************************************************************************)
(* Proofs about module Time: the conversions agree with the calendar on    *)
(* every second of every day that fits in 32 bits, whatever Seconds is.    *)
(*                                                                         *)
(* The loops over the years are a recursive function; what it computes is  *)
(* proved from its least counterexample.                                   *)
(***************************************************************************)
EXTENDS Time, WellFoundedInduction, TLAPS

-----------------------------------------------------------------------------
\* Every nonempty set of natural numbers has a least element.
LEMMA LeastElement ==
    ASSUME NEW T, T \subseteq Nat, T # {}
    PROVE  \E x \in T : \A y \in T : x <= y
<1> DEFINE R == {p \in Nat \X Nat : p[1] < p[2]}
<1>1. OpToRel(<, Nat) = R
  BY Zenon DEF OpToRel
<1>2. IsWellFoundedOn(OpToRel(<, Nat), Nat)
  BY NatLessThanWellFounded
<1>3. IsWellFoundedOn(R, Nat)
  BY Zenon, <1>1, <1>2
<1>4. PICK x \in T : \A y \in T : ~ (<<y, x>> \in R)
  BY <1>3, WFMin
<1>5. ASSUME NEW y \in T  PROVE  x <= y
  <2>1. x \in Nat /\ y \in Nat /\ <<y, x>> \in Nat \X Nat
    OBVIOUS
  <2>2. ~ (y < x)
    BY <1>4, <2>1
  <2> QED  BY <2>1, <2>2
<1> QED  BY <1>5

-----------------------------------------------------------------------------
\* The code's test for a leap year is the calendar's rule.
LEMMA LeapAgrees ==
    ASSUME NEW y \in 70..207
    PROVE  ISLEAP(y) <=> Leap(y + 1900)
<1>1. (y + 1900) % 4 = y % 4
  OBVIOUS
<1>2. (y + 1900) % 100 = y % 100
  OBVIOUS
<1>3. (y + 1900) % 400 = 0 => y % 100 = 0 /\ y % 4 = 0
  OBVIOUS
<1> QED  BY <1>1, <1>2, <1>3 DEF ISLEAP, Leap

\* The first days of two consecutive years.
LEMMA NewYearStep ==
    ASSUME NEW y \in 70..206
    PROVE  NewYear(y + 1901) = NewYear(y + 1900) + DAYS_IN_YEAR(y)
<1> DEFINE x == y + 1900
<1>1. x \in 1970..2106
  OBVIOUS
<1> HIDE DEF x
<1>2. x \div 4 - (x - 1) \div 4 = IF x % 4 = 0 THEN 1 ELSE 0
  BY <1>1
<1>3. x \div 100 - (x - 1) \div 100 = IF x % 100 = 0 THEN 1 ELSE 0
  BY <1>1
<1>4. x \div 400 - (x - 1) \div 400 = IF x % 400 = 0 THEN 1 ELSE 0
  BY <1>1
<1>5. x % 100 = 0 => x % 4 = 0
  BY <1>1
<1>6. x % 400 = 0 => x % 100 = 0
  BY <1>1
<1>7. LeapsBefore(x + 1) - LeapsBefore(x) = IF Leap(x) THEN 1 ELSE 0
  BY <1>1, <1>2, <1>3, <1>4, <1>5, <1>6 DEF LeapsBefore, Leap
<1>8. LeapsBefore(x + 1) \in Int /\ LeapsBefore(x) \in Int /\ LeapsBefore(1970) \in Int
  BY <1>1 DEF LeapsBefore
<1>9. NewYear(x + 1) - NewYear(x) = 365 + (IF Leap(x) THEN 1 ELSE 0)
  BY <1>1, <1>7, <1>8 DEF NewYear
<1>10. DAYS_IN_YEAR(y) = 365 + (IF Leap(x) THEN 1 ELSE 0)
  BY LeapAgrees DEF DAYS_IN_YEAR, x
<1>11. NewYear(x + 1) \in Int /\ NewYear(x) \in Int
  BY <1>1, <1>8 DEF NewYear
<1>12. NewYear(x + 1) = NewYear(x) + DAYS_IN_YEAR(y)
  BY <1>9, <1>10, <1>11
<1> QED  BY <1>12 DEF x

LEMMA NewYearType ==
    ASSUME NEW y \in 1970..2107
    PROVE  NewYear(y) \in Nat
<1>1. (y - 1) \div 4 >= 492 /\ (y - 1) \div 100 <= 21 /\ (y - 1) \div 400 >= 4
  OBVIOUS
<1>2. LeapsBefore(1970) = 477
  BY DEF LeapsBefore
<1>3. LeapsBefore(y) \in Int
  BY DEF LeapsBefore
<1>4. NewYear(y) >= 365 * (y - 1970) - 2
  BY <1>1, <1>2, <1>3 DEF NewYear, LeapsBefore
<1>5. NewYear(1970) = 0
  BY <1>2 DEF NewYear
<1> QED  BY <1>2, <1>3, <1>4, <1>5 DEF NewYear

\* What the loop of ofc_time_make_time computes: the calendar's first day.
LEMMA DaysOfYearsValue ==
    \A y \in 70..207 : DaysOfYears[y] = NewYear(y + 1900)
<1> DEFINE Body(f) == [y \in 70..207 |->
                          IF y = 70 THEN 0 ELSE f[y - 1] + DAYS_IN_YEAR(y - 1)]
           G == [y \in 70..207 |-> NewYear(y + 1900)]
<1>1. NewYear(70 + 1900) = 0
  BY DEF NewYear, LeapsBefore
<1>2. ASSUME NEW y \in 71..207
      PROVE  NewYear(y + 1900) = NewYear((y - 1) + 1900) + DAYS_IN_YEAR(y - 1)
  <2>1. y - 1 \in 70..206 /\ (y - 1) + 1901 = y + 1900
    OBVIOUS
  <2> QED  BY <2>1, NewYearStep
<1>3. G = Body(G)
  <2>1. \A y \in 70..207 : G[y] = NewYear(y + 1900)
    OBVIOUS
  <2>2. ASSUME NEW y \in 70..207
        PROVE  NewYear(y + 1900) = IF y = 70 THEN 0 ELSE G[y - 1] + DAYS_IN_YEAR(y - 1)
    BY <1>1, <1>2, <2>1
  <2> HIDE DEF G
  <2>3. ASSUME NEW y \in 70..207  PROVE G[y] = Body(G)[y]
    <3>1. G[y] = IF y = 70 THEN 0 ELSE G[y - 1] + DAYS_IN_YEAR(y - 1)
      BY SMT, <2>1, <2>2
    <3> QED  BY SMT, <3>1
  <2>4. G = [y \in 70..207 |-> G[y]]
    BY DEF G
  <2> QED  BY <2>3, <2>4
<1> HIDE DEF G
<1>4. DaysOfYears = Body(DaysOfYears)
  BY ZenonT(30), <1>3 DEF DaysOfYears
<1> DEFINE Bad == {y \in 70..207 : DaysOfYears[y] # NewYear(y + 1900)}
<1>5. SUFFICES ASSUME Bad # {}  PROVE FALSE
  OBVIOUS
<1>6. PICK x \in Bad : \A y \in Bad : x <= y
  <2>1. Bad \subseteq Nat
    OBVIOUS
  <2> HIDE DEF Bad
  <2> QED  BY <1>5, <2>1, LeastElement
<1>7. CASE x = 70
  BY <1>1, <1>4, <1>6, <1>7
<1>8. CASE x # 70
  <2>1. x \in 71..207 /\ x - 1 \in 70..207 /\ x - 1 \notin Bad
    BY <1>6, <1>8
  <2>2. DaysOfYears[x - 1] = NewYear((x - 1) + 1900)
    BY <2>1
  <2>3. DaysOfYears[x] = DaysOfYears[x - 1] + DAYS_IN_YEAR(x - 1)
    BY <1>4, <2>1
  <2> QED  BY <1>2, <2>1, <2>2, <2>3
<1> QED  BY <1>7, <1>8

\* The first day of year y, which is counted from 1900.
FirstDay(y) == NewYear(y + 1900)

\* A later year begins after the last day of an earlier one.
LEMMA FirstDayOrder ==
    ASSUME NEW x \in 70..206, NEW y \in 70..206, x < y
    PROVE  FirstDay(x) + DAYS_IN_YEAR(x) <= FirstDay(y)
<1>1. NewYear(x + 1901) = NewYear(x + 1900) + DAYS_IN_YEAR(x)
  BY SMT, NewYearStep
<1>2. NewYear(x + 1901) \in Nat
  BY SMT, NewYearType
<1>3. CASE y = x + 1
  BY SMT, <1>1, <1>2, <1>3 DEF FirstDay
<1>4. CASE y >= x + 2
  <2>1. (x + 1900) \div 4 <= (y + 1899) \div 4 /\ (x + 1900) \div 400 <= (y + 1899) \div 400
    BY SMT, <1>4
  <2>2. (y + 1899) \div 100 <= (x + 1900) \div 100 + 2
    BY SMT
  <2>3. LeapsBefore(y + 1900) >= LeapsBefore(x + 1901) - 2
    BY SMT, <2>1, <2>2 DEF LeapsBefore
  <2>4. LeapsBefore(y + 1900) \in Int /\ LeapsBefore(x + 1901) \in Int /\ LeapsBefore(1970) \in Int
    BY SMT DEF LeapsBefore
  <2>5. NewYear(x + 1901) <= NewYear(y + 1900)
    BY SMT, <1>4, <2>3, <2>4 DEF NewYear
  <2> QED  BY SMT, <1>1, <2>5 DEF FirstDay
<1> QED  BY SMT, <1>3, <1>4

\* Is e a day of year y, counted from 0, of a year before 2107?
InYear(y, e) == y \in 70..206 /\ e \in Nat /\ e < DAYS_IN_YEAR(y)

\* Where the loop of ofc_time_local_time stops: at the year of the day.
LEMMA YearAndDayValue ==
    \A y, e : InYear(y, e) => YearAndDay(FirstDay(y) + e) = <<y, e>>
<1>a. SUFFICES ASSUME NEW y \in 70..206, NEW e \in Nat, e < DAYS_IN_YEAR(y)
               PROVE  YearAndDay(FirstDay(y) + e) = <<y, e>>
  BY Zenon DEF InYear
<1> DEFINE d == FirstDay(y) + e
           In(x) == d - DaysTaken[x] \in 0..(DAYS_IN_YEAR(x) - 1)
<1>1. \A x \in 70..206 : DaysTaken[x] = FirstDay(x)
  BY SMT, DaysOfYearsValue DEF DaysTaken, FirstDay
<1>2. \A x \in 70..206 : FirstDay(x) \in Nat
  BY SMT, NewYearType DEF FirstDay
<1>3. \A x \in 70..206 : DAYS_IN_YEAR(x) \in 365..366
  BY SMT DEF DAYS_IN_YEAR
<1>4. d \in Nat /\ FirstDay(y) <= d /\ d < FirstDay(y) + DAYS_IN_YEAR(y) /\ d - FirstDay(y) = e
  BY SMT, <1>a, <1>2, <1>3
<1> HIDE DEF d
<1>5. In(y)
  BY SMT, <1>1, <1>2, <1>3, <1>4
<1>6. ASSUME NEW x \in 70..206, In(x)  PROVE  x = y
  <2>1. /\ DaysTaken[x] = FirstDay(x) /\ FirstDay(x) \in Nat /\ FirstDay(y) \in Nat
        /\ DAYS_IN_YEAR(x) \in 365..366 /\ DAYS_IN_YEAR(y) \in 365..366
    BY SMT, <1>1, <1>2, <1>3
  <2>2. FirstDay(x) <= d /\ d < FirstDay(x) + DAYS_IN_YEAR(x)
    BY SMT, <1>4, <1>6, <2>1
  <2>3. ASSUME x < y  PROVE FALSE
    <3>1. FirstDay(x) + DAYS_IN_YEAR(x) <= FirstDay(y)
      BY SMT, <2>3, FirstDayOrder
    <3> QED  BY SMT, <1>4, <2>1, <2>2, <3>1
  <2>4. ASSUME y < x  PROVE FALSE
    <3>1. FirstDay(y) + DAYS_IN_YEAR(y) <= FirstDay(x)
      BY SMT, <2>4, FirstDayOrder
    <3> QED  BY SMT, <1>4, <2>1, <2>2, <3>1
  <2> QED  BY SMT, <2>3, <2>4
<1>7. YearOf(d) = CHOOSE x \in 70..206 : In(x)
  BY Zenon DEF YearOf
<1> HIDE DEF In
<1>8. YearOf(d) = y
  BY Zenon, <1>5, <1>6, <1>7
<1>9. d - DaysTaken[y] = e
  BY SMT, <1>1, <1>4
<1>10. YearAndDay(d) = <<y, e>>
  BY Zenon, <1>8, <1>9 DEF YearAndDay
<1> QED  BY Zenon, <1>10 DEF d

-----------------------------------------------------------------------------
\* The table of the days before each month, which has no leap day.
LEMMA Table ==
    /\ DaysBefore(0) = 0     /\ DaysBefore(1) = 31    /\ DaysBefore(2) = 59
    /\ DaysBefore(3) = 90    /\ DaysBefore(4) = 120   /\ DaysBefore(5) = 151
    /\ DaysBefore(6) = 181   /\ DaysBefore(7) = 212   /\ DaysBefore(8) = 243
    /\ DaysBefore(9) = 273   /\ DaysBefore(10) = 304  /\ DaysBefore(11) = 334
  BY DEF DaysBefore, DAYS_BEFORE_MONTH

\* The days of month m, counted from 0, in a year without a leap day.
PlainLength(m) == IF m = 1 THEN 28 ELSE IF m \in {3, 5, 8, 10} THEN 30 ELSE 31

LEMMA TableType == \A m \in 0..11 : DaysBefore(m) \in 0..334
<1> SUFFICES ASSUME NEW m \in 0..11  PROVE DaysBefore(m) \in 0..334
  OBVIOUS
<1>1. \/ m = 0 \/ m = 1 \/ m = 2 \/ m = 3 \/ m = 4 \/ m = 5
      \/ m = 6 \/ m = 7 \/ m = 8 \/ m = 9 \/ m = 10 \/ m = 11
  OBVIOUS
<1> QED  BY SMT, <1>1, Table

LEMMA TableStep ==
    ASSUME NEW m \in 0..11
    PROVE  /\ m < 11 => DaysBefore(m + 1) = DaysBefore(m) + PlainLength(m)
           /\ m = 11 => DaysBefore(m) + PlainLength(m) = 365
           /\ PlainLength(m) \in 28..31
<1>1. \/ m = 0 \/ m = 1 \/ m = 2 \/ m = 3 \/ m = 4 \/ m = 5
      \/ m = 6 \/ m = 7 \/ m = 8 \/ m = 9 \/ m = 10 \/ m = 11
  OBVIOUS
<1> QED  BY SMT, <1>1, Table DEF PlainLength

LEMMA TableOrder ==
    ASSUME NEW m \in 0..11, NEW n \in 0..11, m < n
    PROVE  DaysBefore(m + 1) <= DaysBefore(n)
<1>1. \/ m = 0 \/ m = 1 \/ m = 2 \/ m = 3 \/ m = 4 \/ m = 5
      \/ m = 6 \/ m = 7 \/ m = 8 \/ m = 9 \/ m = 10
  OBVIOUS
<1>2. \/ n = 1 \/ n = 2 \/ n = 3 \/ n = 4 \/ n = 5
      \/ n = 6 \/ n = 7 \/ n = 8 \/ n = 9 \/ n = 10 \/ n = 11
  OBVIOUS
<1> QED  BY <1>1, <1>2, Table

\* The loop over the months stops at the month of the day.
LEMMA MonthOfValue ==
    ASSUME NEW m \in 0..11, NEW k \in Nat
    PROVE  k < PlainLength(m) => MonthOf(DaysBefore(m) + k) = m
<1>a. SUFFICES ASSUME k < PlainLength(m)  PROVE MonthOf(DaysBefore(m) + k) = m
  OBVIOUS
<1> DEFINE d == DaysBefore(m) + k
           In(n) == DaysBefore(n) <= d /\ (n < 11 => d < DaysBefore(n + 1))
<1>1. DaysBefore(m) \in 0..334
  BY SMT, TableType
<1>2. PlainLength(m) \in 28..31
  BY SMT, TableStep
<1>3. m < 11 => DaysBefore(m + 1) = DaysBefore(m) + PlainLength(m)
  BY SMT, TableStep
<1>4. /\ d \in Nat /\ DaysBefore(m) <= d
      /\ m < 11 => d < DaysBefore(m + 1)
  BY SMT, <1>a, <1>1, <1>2, <1>3
<1> HIDE DEF d
<1>5. ASSUME NEW n \in 0..11, In(n)  PROVE  n = m
  <2>1. DaysBefore(n) \in 0..334
    BY SMT, TableType
  <2>2. ASSUME n < m  PROVE FALSE
    <3>1. DaysBefore(n + 1) <= DaysBefore(m) /\ n + 1 \in 0..11
      BY SMT, <2>2, TableOrder
    <3>2. DaysBefore(n + 1) \in 0..334
      BY SMT, <3>1, TableType
    <3>3. d < DaysBefore(n + 1)
      BY SMT, <1>5, <2>2
    <3>4. DaysBefore(m) <= d
      BY Zenon, <1>4
    <3>5. d \in Int /\ DaysBefore(m) \in Int /\ DaysBefore(n + 1) \in Int
      BY SMT, <1>1, <1>4, <3>2
    <3> QED  BY SMT, <3>1, <3>3, <3>4, <3>5
  <2>3. ASSUME m < n  PROVE FALSE
    <3>1. DaysBefore(m + 1) <= DaysBefore(n) /\ m + 1 \in 0..11
      BY SMT, <2>3, TableOrder
    <3>2. DaysBefore(m + 1) \in 0..334
      BY SMT, <3>1, TableType
    <3>3. d < DaysBefore(m + 1) /\ DaysBefore(n) <= d
      BY SMT, <1>4, <1>5, <2>3
    <3>4. d \in Int /\ DaysBefore(n) \in Int /\ DaysBefore(m + 1) \in Int
      BY SMT, <1>4, <2>1, <3>2
    <3> QED  BY SMT, <3>1, <3>3, <3>4
  <2> QED  BY SMT, <2>2, <2>3
<1>6. In(m)
  BY Zenon, <1>4
<1>7. MonthOf(d) = CHOOSE n \in 0..11 : In(n)
  BY Zenon DEF MonthOf
<1> HIDE DEF In
<1>8. MonthOf(d) = m
  BY Zenon, <1>5, <1>6, <1>7
<1> QED  BY Zenon, <1>8 DEF d

-----------------------------------------------------------------------------
\* The days before a day of the calendar in its year, months counted from 0.
Before(y, m, day) == DayInYear([year |-> y, mon |-> m, mday |-> day])
LeapDay(y, m) == IF m > 1 /\ ISLEAP(y) THEN 1 ELSE 0

\* Is it a date of the calendar?
InMonth(y, m, day) == day <= MonthLength(y + 1900, m + 1)
DateOK(y, m, day) == y \in 70..207 /\ m \in 0..11 /\ day \in 1..31 /\ InMonth(y, m, day)

LEMMA LengthAgrees ==
    ASSUME NEW y \in 70..207, NEW m \in 0..11
    PROVE  MonthLength(y + 1900, m + 1) = IF m = 1 /\ ISLEAP(y) THEN 29 ELSE PlainLength(m)
<1>1. ISLEAP(y) <=> Leap(y + 1900)
  BY LeapAgrees
<1> QED  BY SMT, <1>1 DEF MonthLength, PlainLength

LEMMA BeforeType ==
    \A y, m, day : DateOK(y, m, day) => Before(y, m, day) \in Nat
<1>a. SUFFICES ASSUME NEW y \in 70..207, NEW m \in 0..11, NEW day \in 1..31
               PROVE  Before(y, m, day) \in Nat
  BY Zenon DEF DateOK
<1>1. Before(y, m, day) = (day - 1) + DaysBefore(m) + LeapDay(y, m)
  BY SMT DEF Before, DayInYear, LeapDay
<1>2. LeapDay(y, m) \in {0, 1}
  BY SMT DEF LeapDay
<1>3. DaysBefore(m) \in 0..334
  BY SMT, TableType
<1> QED  BY SMT, <1>1, <1>2, <1>3

\* A day of a month comes before the first day of the next year.
LEMMA BeforeBound ==
    \A y, m, day : DateOK(y, m, day) /\ y # 207 => InYear(y, Before(y, m, day))
<1>a. SUFFICES ASSUME NEW y \in 70..207, NEW m \in 0..11, NEW day \in 1..31,
                      DateOK(y, m, day), y # 207
               PROVE  InYear(y, Before(y, m, day))
  BY Zenon DEF DateOK
<1>1. DaysBefore(m) + PlainLength(m) <= 365 /\ PlainLength(m) \in 28..31
  <2>1. CASE m = 11
    BY SMT, <2>1, TableStep
  <2>2. CASE m < 11
    <3>1. DaysBefore(m + 1) = DaysBefore(m) + PlainLength(m) /\ PlainLength(m) \in 28..31
      BY SMT, <2>2, TableStep
    <3>2. DaysBefore(m + 1) \in 0..334
      BY SMT, <2>2, TableType
    <3> QED  BY SMT, <3>1, <3>2
  <2> QED  BY SMT, <2>1, <2>2
<1>2. DaysBefore(m) \in 0..334
  BY SMT, TableType
<1>3. Before(y, m, day) \in Nat
  BY Zenon, <1>a, BeforeType
<1>4. Before(y, m, day) = (day - 1) + DaysBefore(m) + LeapDay(y, m)
  BY SMT DEF Before, DayInYear, LeapDay
<1>5. day <= IF m = 1 /\ ISLEAP(y) THEN 29 ELSE PlainLength(m)
  BY SMT, <1>a, LengthAgrees DEF DateOK, InMonth
<1>6. Before(y, m, day) < DAYS_IN_YEAR(y)
  <2>1. CASE ISLEAP(y) /\ m = 1
    <3>1. LeapDay(y, m) = 0 /\ DAYS_IN_YEAR(y) = 366 /\ DaysBefore(m) = 31
      BY SMT, <2>1, Table DEF LeapDay, DAYS_IN_YEAR
    <3> QED  BY SMT, <1>4, <3>1
  <2>2. CASE ISLEAP(y) /\ m # 1
    <3>1. day <= PlainLength(m) /\ DAYS_IN_YEAR(y) = 366 /\ LeapDay(y, m) \in {0, 1}
      BY SMT, <1>5, <2>2 DEF DAYS_IN_YEAR, LeapDay
    <3> QED  BY SMT, <1>1, <1>2, <1>4, <3>1
  <2>3. CASE ~ ISLEAP(y)
    <3>1. day <= PlainLength(m) /\ DAYS_IN_YEAR(y) = 365 /\ LeapDay(y, m) = 0
      BY SMT, <1>5, <2>3 DEF DAYS_IN_YEAR, LeapDay
    <3> QED  BY SMT, <1>1, <1>2, <1>4, <3>1
  <2> QED  BY SMT, <2>1, <2>2, <2>3
<1> QED  BY SMT, <1>a, <1>3, <1>6 DEF InYear

\* ofc_time_local_time finds the month and the day of every day of a year.
LEMMA MonthAndDayValue ==
    \A y, m, day : DateOK(y, m, day) => MonthAndDay(y, Before(y, m, day)) = <<m, day>>
<1>a. SUFFICES ASSUME NEW y \in 70..207, NEW m \in 0..11, NEW day \in 1..31,
                      DateOK(y, m, day)
               PROVE  MonthAndDay(y, Before(y, m, day)) = <<m, day>>
  BY Zenon DEF DateOK
<1> DEFINE d == Before(y, m, day)
           e == IF ISLEAP(y) /\ d > DaysBefore(2) THEN d - 1 ELSE d
<1>0. DaysBefore(m) \in 0..334
  BY SMT, TableType
<1>b. d \in Nat
  BY Zenon, <1>a, BeforeType
<1>1. d = (day - 1) + DaysBefore(m) + (IF m > 1 /\ ISLEAP(y) THEN 1 ELSE 0)
  BY SMT DEF Before, DayInYear
<1>2. DaysBefore(1) = 31 /\ DaysBefore(2) = 59 /\ DaysBefore(0) = 0
  BY SMT, Table
<1>3. m > 1 => DaysBefore(m) >= 59
  <2>1. ASSUME m > 2  PROVE DaysBefore(2 + 1) <= DaysBefore(m)
    BY SMT, <2>1, TableOrder
  <2> QED  BY SMT, <1>0, <2>1, Table
<1>c. day <= IF m = 1 /\ ISLEAP(y) THEN 29 ELSE PlainLength(m)
  BY SMT, <1>a, LengthAgrees DEF DateOK, InMonth
<1> HIDE DEF d
<1>4. CASE ISLEAP(y) /\ m = 1 /\ day = 29
  <2>1. d = 59
    BY SMT, <1>1, <1>2, <1>4
  <2> QED  BY SMT, <1>2, <1>4, <2>1 DEF MonthAndDay, d
<1>5. CASE ~ (ISLEAP(y) /\ m = 1 /\ day = 29)
  <2>1. PlainLength(m) \in 28..31 /\ (m = 1 => PlainLength(m) = 28)
    BY SMT DEF PlainLength
  <2>2. day <= PlainLength(m)
    BY SMT, <1>c, <1>5, <2>1
  <2>3. ISLEAP(y) => d # 59 /\ (d > 59 <=> m > 1)
    <3>1. CASE m = 0
      BY SMT, <1>1, <1>2, <3>1
    <3>2. CASE m = 1
      BY SMT, <1>1, <1>2, <2>1, <2>2, <3>2
    <3>3. CASE m > 1
      BY SMT, <1>0, <1>1, <1>3, <3>3
    <3> QED  BY SMT, <3>1, <3>2, <3>3
  <2>4. e = DaysBefore(m) + (day - 1)
    BY SMT, <1>0, <1>1, <1>2, <2>3
  <2>5. MonthOf(e) = m
    <3>1. day - 1 \in Nat /\ day - 1 < PlainLength(m)
      BY SMT, <2>1, <2>2
    <3> QED  BY SMT, <2>4, <3>1, MonthOfValue
  <2>6. ~ (ISLEAP(y) /\ d = DaysBefore(2))
    BY SMT, <1>2, <2>3
  <2>7. MonthAndDay(y, d) = <<MonthOf(e), e - DaysBefore(MonthOf(e)) + 1>>
    BY SMT, <2>6 DEF MonthAndDay
  <2> HIDE DEF e
  <2>8. (DaysBefore(m) + (day - 1)) - DaysBefore(m) + 1 = day
    BY SMTT(30), <1>0
  <2> QED  BY Zenon, <2>4, <2>5, <2>7, <2>8 DEF d
<1> QED  BY Zenon, <1>4, <1>5

-----------------------------------------------------------------------------
(***************************************************************************)
(* The inductive invariant: the days that are counted are those of the     *)
(* date, by the code's own tables.                                         *)
(***************************************************************************)
CalendarAt(y, m, day) ==
    /\ date = [year |-> y + 1900, mon |-> m + 1, day |-> day]
    /\ DateOK(y, m, day)
    /\ days = FirstDay(y) + Before(y, m, day)

CalendarInv == \E y, m, day : CalendarAt(y, m, day)

LEMMA CalendarInit == TimeInit => CalendarInv
<1>1. SUFFICES ASSUME TimeInit PROVE CalendarInv
  OBVIOUS
<1>2. PICK x \in Years : date = [year |-> x, mon |-> 1, day |-> 1] /\ days = NewYear(x)
  BY Zenon, <1>1 DEF TimeInit
<1>3. x \in 1970..2107
  BY SMTT(30), TimeAssumption
<1> DEFINE y == x - 1900
<1>4. y \in 70..207 /\ y + 1900 = x
  BY SMT, <1>3
<1> HIDE DEF y
<1>5. DateOK(y, 0, 1)
  BY SMT, <1>4 DEF DateOK, InMonth, MonthLength
<1>6. Before(y, 0, 1) = 0
  BY SMT, Table DEF Before, DayInYear
<1>7. FirstDay(y) = NewYear(x) /\ NewYear(x) \in Nat
  BY SMT, <1>3, <1>4, NewYearType DEF FirstDay
<1>8. days = FirstDay(y) + Before(y, 0, 1)
  BY SMT, <1>2, <1>6, <1>7
<1>9. date = [year |-> y + 1900, mon |-> 0 + 1, day |-> 1]
  BY SMT, <1>2, <1>4
<1>10. CalendarAt(y, 0, 1)
  BY SMT, <1>5, <1>8, <1>9 DEF CalendarAt
<1> QED  BY SMT, <1>10 DEF CalendarInv

\* The day after a day of the same month, and after the last of a month.
LEMMA BeforeNextDay ==
    ASSUME NEW y \in 70..207, NEW m \in 0..11, NEW day \in 1..30
    PROVE  Before(y, m, day + 1) = Before(y, m, day) + 1
<1>1. Before(y, m, day + 1) = ((day + 1) - 1) + DaysBefore(m) + LeapDay(y, m)
  BY SMT DEF Before, DayInYear, LeapDay
<1>2. Before(y, m, day) = (day - 1) + DaysBefore(m) + LeapDay(y, m)
  BY SMT DEF Before, DayInYear, LeapDay
<1>3. DaysBefore(m) \in 0..334
  BY SMT, TableType
<1>4. LeapDay(y, m) \in {0, 1}
  BY SMT DEF LeapDay
<1> QED  BY SMT, <1>1, <1>2, <1>3, <1>4

LEMMA BeforeNextMonth ==
    ASSUME NEW y \in 70..207, NEW m \in 0..10
    PROVE  Before(y, m + 1, 1) = Before(y, m, MonthLength(y + 1900, m + 1)) + 1
<1> DEFINE len == MonthLength(y + 1900, m + 1)
<1>1. len = IF m = 1 /\ ISLEAP(y) THEN 29 ELSE PlainLength(m)
  BY SMT, LengthAgrees
<1>2. Before(y, m + 1, 1) = (1 - 1) + DaysBefore(m + 1) + LeapDay(y, m + 1)
  BY SMT DEF Before, DayInYear, LeapDay
<1>3. Before(y, m, len) = (len - 1) + DaysBefore(m) + LeapDay(y, m)
  BY SMT DEF Before, DayInYear, LeapDay
<1> HIDE DEF len
<1>4. DaysBefore(m) \in 0..334
  BY SMT, TableType
<1>5. PlainLength(m) \in 28..31
  BY SMT, TableStep
<1>6. DaysBefore(m + 1) = DaysBefore(m) + PlainLength(m)
  BY SMT, TableStep
<1>7. LeapDay(y, m) \in {0, 1} /\ LeapDay(y, m + 1) \in {0, 1}
  BY SMT DEF LeapDay
<1>8. len + LeapDay(y, m) = PlainLength(m) + LeapDay(y, m + 1) /\ len \in Int
  <2>1. CASE m = 1 /\ ISLEAP(y)
    <3>1. LeapDay(y, m) = 0 /\ LeapDay(y, m + 1) = 1 /\ PlainLength(m) = 28
      BY SMT, <2>1 DEF LeapDay, PlainLength
    <3> QED  BY SMT, <1>1, <2>1, <3>1
  <2>2. CASE ~ (m = 1 /\ ISLEAP(y))
    <3>1. LeapDay(y, m) = LeapDay(y, m + 1)
      BY SMT, <2>2 DEF LeapDay
    <3>2. len = PlainLength(m)
      BY SMT, <1>1, <2>2
    <3> QED  BY SMT, <1>5, <1>7, <3>1, <3>2
  <2> QED  BY SMT, <2>1, <2>2
<1>9. Before(y, m + 1, 1) = Before(y, m, len) + 1
  BY SMT, <1>2, <1>3, <1>4, <1>5, <1>6, <1>7, <1>8
<1> QED  BY SMT, <1>9 DEF len

\* The last day of a year.
LEMMA BeforeNewYear ==
    ASSUME NEW y \in 70..206
    PROVE  FirstDay(y + 1) = (FirstDay(y) + Before(y, 11, 31)) + 1
<1>1. Before(y, 11, 31) = (31 - 1) + DaysBefore(11) + LeapDay(y, 11)
  BY SMT DEF Before, DayInYear, LeapDay
<1>2. DaysBefore(11) = 334
  BY SMT, Table
<1>3. 365 + LeapDay(y, 11) = DAYS_IN_YEAR(y) /\ LeapDay(y, 11) \in {0, 1}
  BY SMT DEF LeapDay, DAYS_IN_YEAR
<1>4. FirstDay(y) \in Nat
  BY SMT, NewYearType DEF FirstDay
<1>5. FirstDay(y + 1) = FirstDay(y) + DAYS_IN_YEAR(y)
  <2>1. (y + 1) + 1900 = y + 1901
    OBVIOUS
  <2> QED  BY SMT, <2>1, NewYearStep DEF FirstDay
<1> QED  BY SMT, <1>1, <1>2, <1>3, <1>4, <1>5

\* The day that follows a day of the calendar: of the same month, of the next
\* month, or of the next year.
Follows(y, m, day) ==
    CalendarAt(y, m, day + 1) \/ CalendarAt(y, m + 1, 1) \/ CalendarAt(y + 1, 0, 1)

LEMMA CalendarStep ==
    \A y, m, day : CalendarAt(y, m, day) /\ NextDay => Follows(y, m, day)'
<1>0. \A y, m, day : CalendarAt(y, m, day) => DateOK(y, m, day)
  BY SMT DEF CalendarAt
<1>a. SUFFICES ASSUME NEW y, NEW m, NEW day
               PROVE  CalendarAt(y, m, day) /\ NextDay => Follows(y, m, day)'
  OBVIOUS
<1>b. CalendarAt(y, m, day) => y \in 70..207 /\ m \in 0..11 /\ day \in 1..31
  BY SMT, <1>0 DEF DateOK
<1>1. SUFFICES ASSUME y \in 70..207, m \in 0..11, day \in 1..31,
                      CalendarAt(y, m, day), NextDay
               PROVE  Follows(y, m, day)'
  BY SMT, <1>b
<1> DEFINE len == MonthLength(y + 1900, m + 1)
<1>2. len \in 28..31
  BY SMT DEF MonthLength
<1>3. FirstDay(y) \in Nat
  BY SMT, <1>1, NewYearType DEF FirstDay
<1>4. Before(y, m, day) \in Nat
  BY Zenon, <1>0, <1>1, BeforeType
<1>5. /\ date = [year |-> y + 1900, mon |-> m + 1, day |-> day]
      /\ date.year = y + 1900 /\ date.mon = m + 1 /\ date.day = day
  BY SMT, <1>1 DEF CalendarAt
<1>6. days' = (FirstDay(y) + Before(y, m, day)) + 1
  BY SMT, <1>1 DEF NextDay, CalendarAt
<1>7. CASE /\ date.day < MonthLength(date.year, date.mon)
           /\ date' = [date EXCEPT !.day = @ + 1]
  <2>1. day < len
    BY SMT, <1>5, <1>7
  <2> HIDE DEF len
  <2>2. day \in 1..30 /\ day + 1 \in 1..31 /\ day + 1 <= len
    BY SMT, <1>1, <1>2, <2>1
  <2>3. date' = [year |-> y + 1900, mon |-> m + 1, day |-> day + 1]
    BY SMT, <1>5, <1>7
  <2>4. Before(y, m, day + 1) = Before(y, m, day) + 1
    BY Zenon, <1>1, <2>2, BeforeNextDay
  <2>5. days' = FirstDay(y) + Before(y, m, day + 1)
    BY SMT, <1>3, <1>4, <1>6, <2>4
  <2>6. DateOK(y, m, day + 1)
    BY SMT, <1>1, <2>2 DEF DateOK, InMonth, len
  <2> QED  BY SMT, <2>3, <2>5, <2>6 DEF CalendarAt, Follows
<1>8. CASE /\ date.day = MonthLength(date.year, date.mon)
           /\ date.mon < 12
           /\ date' = [year |-> date.year, mon |-> date.mon + 1, day |-> 1]
  <2>1. day = len /\ m \in 0..10
    BY SMT, <1>1, <1>5, <1>8
  <2>2. date' = [year |-> y + 1900, mon |-> (m + 1) + 1, day |-> 1]
    BY SMT, <1>5, <1>8
  <2>3. Before(y, m + 1, 1) = Before(y, m, day) + 1
    BY SMT, <1>1, <2>1, BeforeNextMonth
  <2>4. days' = FirstDay(y) + Before(y, m + 1, 1)
    BY SMT, <1>3, <1>4, <1>6, <2>3
  <2>5. DateOK(y, m + 1, 1)
    BY SMT, <1>1, <2>1 DEF DateOK, InMonth, MonthLength
  <2> QED  BY SMT, <2>2, <2>4, <2>5 DEF CalendarAt, Follows
<1>9. CASE /\ date.day = 31 /\ date.mon = 12
           /\ date.year + 1 \in Years
           /\ date' = [year |-> date.year + 1, mon |-> 1, day |-> 1]
  <2>1. day = 31 /\ m = 11
    BY SMT, <1>1, <1>5, <1>9
  <2>2. y \in 70..206
    <3>1. PICK x \in Years : x = date.year + 1
      BY Zenon, <1>9
    <3>2. x \in 1970..2107
      BY SMTT(30), TimeAssumption
    <3> QED  BY SMT, <1>1, <1>5, <3>1, <3>2
  <2>3. date' = [year |-> (y + 1) + 1900, mon |-> 0 + 1, day |-> 1]
    BY SMT, <1>5, <1>9, <2>2
  <2>4. DateOK(y + 1, 0, 1)
    BY SMT, <2>2 DEF DateOK, InMonth, MonthLength
  <2>5. Before(y + 1, 0, 1) = 0
    BY SMT, Table DEF Before, DayInYear
  <2>6. FirstDay(y + 1) = days'
    <3>1. FirstDay(y + 1) = (FirstDay(y) + Before(y, 11, 31)) + 1
      BY SMT, <2>2, BeforeNewYear
    <3> QED  BY SMT, <1>6, <2>1, <3>1
  <2>7. FirstDay(y + 1) \in Nat
    BY SMT, <1>3, <1>4, <1>6, <2>6
  <2>8. days' = FirstDay(y + 1) + Before(y + 1, 0, 1)
    BY SMT, <2>5, <2>6, <2>7
  <2> QED  BY SMT, <2>3, <2>4, <2>8 DEF CalendarAt, Follows
<1> QED  BY SMT, <1>1, <1>7, <1>8, <1>9 DEF NextDay

LEMMA CalendarNext == CalendarInv /\ [NextDay]_timeVars => CalendarInv'
<1>1. ASSUME CalendarInv, UNCHANGED timeVars  PROVE CalendarInv'
  BY SMT, <1>1 DEF CalendarInv, CalendarAt, timeVars
<1>2. ASSUME CalendarInv, NextDay  PROVE CalendarInv'
  <2>1. PICK y, m, day : CalendarAt(y, m, day)
    BY Zenon, <1>2 DEF CalendarInv
  <2>2. Follows(y, m, day)'
    BY Zenon, <1>2, <2>1, CalendarStep
  <2> QED  BY Zenon, <2>2 DEF CalendarInv, Follows
<1> QED  BY Zenon, <1>1, <1>2

-----------------------------------------------------------------------------
\* Does second s of day d fit in the 32 bits of ofc_time_make_time?
SecondOfDay(s) == s \in Nat /\ s < 86400
FitsAt(d, s) == d < 49710 \/ (d = 49710 /\ s <= 23295)

LEMMA SecondsInDay == \A s \in Seconds : SecondOfDay(s)
  BY SMTT(30), TimeAssumption DEF SecondOfDay

\* A word that fits is taken apart into the day and the second it was made of.
LEMMA WordFields ==
    \A d \in Nat : \A s : SecondOfDay(s) /\ FitsAt(d, s)
        => /\ UINT32(d, s)[1] \div UnitsPerDay = d
           /\ (UINT32(d, s)[1] % UnitsPerDay) * 128 + UINT32(d, s)[2] = s
<1>b. SUFFICES ASSUME NEW d \in Nat, NEW s \in Nat, s < 86400, FitsAt(d, s)
               PROVE  /\ UINT32(d, s)[1] \div UnitsPerDay = d
                      /\ (UINT32(d, s)[1] % UnitsPerDay) * 128 + UINT32(d, s)[2] = s
  BY SMT DEF SecondOfDay
<1> DEFINE q == s \div 128
           r == s % 128
<1>0. q \in 0..674 /\ r \in 0..127
  BY SMT, <1>b
<1>1. s \div 128 = q /\ s % 128 = r
  OBVIOUS
<1> HIDE DEF q, r
<1>a. s = 128 * q + r
  BY SMT, <1>0, <1>1
<1>2. s <= 23295 => q <= 181
  BY SMT, <1>0, <1>a
<1>3. d * 675 + q \in Nat /\ d * 675 + q < 33554432
  BY SMT, <1>b, <1>0, <1>2 DEF FitsAt
<1>4. (d * 675 + q) % 33554432 = d * 675 + q
  BY SMT, <1>3
<1>5. (d * 675 + q) \div 675 = d /\ (d * 675 + q) % 675 = q
  BY SMT, <1>0
<1>6. UINT32(d, s) = <<(d * 675 + q) % 33554432, r>>
  BY SMT, <1>0, <1>1 DEF UINT32, UnitsPerDay
<1>7. UINT32(d, s) = <<d * 675 + q, r>>
  BY SMT, <1>4, <1>6
<1>8. UINT32(d, s)[1] = d * 675 + q /\ UINT32(d, s)[2] = r
  BY SMT, <1>7
<1>9. ((d * 675 + q) % 675) * 128 + r = s
  BY SMT, <1>0, <1>a, <1>5
<1> QED  BY SMT, <1>5, <1>8, <1>9 DEF UnitsPerDay

\* A file time: second s of a date, on day d, that fits in 32 bits of seconds.
FileTime(y, m, day, d, s) ==
    DateOK(y, m, day) /\ d = FirstDay(y) + Before(y, m, day) /\ SecondOfDay(s) /\ FitsAt(d, s)

\* A day that fits in 32 bits is one of a year before 2107.
LEMMA FitsBefore2107 ==
    \A y, m, day, d, s : FileTime(y, m, day, d, s) => y # 207 /\ d \in Nat
<1>a. SUFFICES ASSUME NEW y, NEW m, NEW day, NEW d, NEW s, FileTime(y, m, day, d, s)
               PROVE  y # 207 /\ d \in Nat
  OBVIOUS
<1> DEFINE e == Before(y, m, day)
<1>1. y \in 70..207 /\ e \in Nat /\ d = FirstDay(y) + e
  <2>1. DateOK(y, m, day) /\ d = FirstDay(y) + e
    BY Zenon, <1>a DEF FileTime
  <2> QED  BY Zenon, <2>1, BeforeType DEF DateOK
<1>b. FitsAt(d, s)
  BY Zenon, <1>a DEF FileTime
<1> HIDE DEF e
<1>2. FirstDay(207) = 50038
  BY SMT DEF FirstDay, NewYear, LeapsBefore
<1>3. FirstDay(y) \in Nat
  BY SMT, <1>1, NewYearType DEF FirstDay
<1>4. d \in Nat
  BY SMT, <1>1, <1>3
<1>5. ASSUME y = 207  PROVE FALSE
  <2>1. FirstDay(y) = 50038
    BY SMT, <1>2, <1>5
  <2>2. d <= 49710
    BY SMT, <1>b, <1>4 DEF FitsAt
  <2> QED  BY SMT, <1>1, <2>1, <2>2
<1> QED  BY SMT, <1>4, <1>5

\* The hour, the minute and the second of second s of a day make it up.
Hour(s) == s \div 3600
Minute(s) == (s % 3600) \div 60
Second(s) == s % 60

LEMMA TimeOfDay ==
    \A s : SecondOfDay(s) =>
        /\ Hour(s) \in 0..23 /\ Minute(s) \in 0..59 /\ Second(s) \in 0..59
        /\ 3600 * Hour(s) + 60 * Minute(s) + Second(s) = s
<1>0. SUFFICES ASSUME NEW s \in Nat, s < 86400
               PROVE  /\ Hour(s) \in 0..23 /\ Minute(s) \in 0..59 /\ Second(s) \in 0..59
                      /\ 3600 * Hour(s) + 60 * Minute(s) + Second(s) = s
  BY SMT DEF SecondOfDay
<1> DEFINE h  == s \div 3600
           t  == s % 3600
           mi == t \div 60
           se == t % 60
<1>1. h \in 0..23 /\ t \in 0..3599 /\ mi \in 0..59 /\ se \in 0..59
  BY SMT, <1>0
<1>2. s \div 3600 = h /\ s % 3600 = t /\ t \div 60 = mi /\ t % 60 = se
  OBVIOUS
<1> HIDE DEF h, t, mi, se
<1>3. s = 3600 * h + t
  BY SMT, <1>1, <1>2
<1>4. t = 60 * mi + se
  BY SMT, <1>1, <1>2
<1>5. s = 60 * (60 * h + mi) + se /\ 60 * h + mi \in Nat
  BY SMT, <1>1, <1>3, <1>4
<1>6. s % 60 = se
  BY SMT, <1>1, <1>5
<1>7. 3600 * h + 60 * mi + se = s
  BY SMT, <1>1, <1>3, <1>4
<1>8. Hour(s) = h /\ Second(s) = se
  BY SMT, <1>2, <1>6 DEF Hour, Second
<1>9. Minute(s) = mi
  BY SMT, <1>2 DEF Minute
<1> QED  BY SMT, <1>1, <1>7, <1>8, <1>9

Tm(y, m, day, h, mi, se) ==
    [year |-> y, mon |-> m, mday |-> day, hour |-> h, min |-> mi, sec |-> se]

\* What ofc_time_local_time makes of a word.
LEMMA LocalTimeOfWord ==
    ASSUME NEW w, NEW d, NEW s, NEW y, NEW e, NEW m, NEW day,
           w[1] \div UnitsPerDay = d, (w[1] % UnitsPerDay) * 128 + w[2] = s,
           YearAndDay(d) = <<y, e>>, MonthAndDay(y, e) = <<m, day>>
    PROVE  ofc_time_local_time(w) = Tm(y, m, day, Hour(s), Minute(s), Second(s))
  BY SMT DEF ofc_time_local_time, Tm, Hour, Minute, Second

\* What ofc_time_local_time makes of a second of a day that fits.
LEMMA LocalTimeValue ==
    \A y, m, day, d, s : FileTime(y, m, day, d, s) =>
        ofc_time_local_time(UINT32(d, s)) = Tm(y, m, day, Hour(s), Minute(s), Second(s))
<1>1. SUFFICES ASSUME NEW y, NEW m, NEW day, NEW d, NEW s, FileTime(y, m, day, d, s)
               PROVE  ofc_time_local_time(UINT32(d, s))
                          = Tm(y, m, day, Hour(s), Minute(s), Second(s))
  BY Zenon
<1> DEFINE e == Before(y, m, day)
           w == UINT32(d, s)
<1>2. y # 207 /\ d \in Nat
  BY Zenon, <1>1, FitsBefore2107
<1>3. DateOK(y, m, day) /\ d = FirstDay(y) + e /\ SecondOfDay(s) /\ FitsAt(d, s)
  BY Zenon, <1>1 DEF FileTime
<1>4. InYear(y, e)
  BY Zenon, <1>2, <1>3, BeforeBound
<1>5. YearAndDay(d) = <<y, e>>
  BY Zenon, <1>3, <1>4, YearAndDayValue
<1>6. MonthAndDay(y, e) = <<m, day>>
  BY Zenon, <1>3, MonthAndDayValue
<1>7. w[1] \div UnitsPerDay = d
  BY SMT, <1>2, <1>3, WordFields
<1>8. (w[1] % UnitsPerDay) * 128 + w[2] = s
  BY SMT, <1>2, <1>3, WordFields
<1> HIDE DEF w, e
<1>9. ofc_time_local_time(w) = Tm(y, m, day, Hour(s), Minute(s), Second(s))
  BY SMT, <1>5, <1>6, <1>7, <1>8, LocalTimeOfWord
<1> QED  BY Zenon, <1>9 DEF w

\* The calendar's day and its second as a file time.
LEMMA CalendarFileTime ==
    ASSUME NEW y, NEW m, NEW day, NEW s \in Seconds
    PROVE  CalendarAt(y, m, day) /\ Fits(s) => FileTime(y, m, day, days, s)
<1>1. Fits(s) => FitsAt(days, s)
  BY SMT DEF Fits, FitsAt
<1>2. CalendarAt(y, m, day) => DateOK(y, m, day) /\ days = FirstDay(y) + Before(y, m, day)
  BY SMT DEF CalendarAt
<1> QED  BY Zenon, <1>1, <1>2, SecondsInDay DEF FileTime

\* ofc_time_local_time takes a time apart as the calendar does.
LEMMA CalendarLocalTime == CalendarInv => LocalTimeIsCalendar
<1>1. SUFFICES ASSUME CalendarInv, NEW s \in Seconds, Fits(s)
               PROVE  IsCalendar(ofc_time_local_time(UINT32(days, s)), s)
  BY Zenon DEF LocalTimeIsCalendar
<1>2. PICK y, m, day : CalendarAt(y, m, day)
  BY Zenon, <1>1 DEF CalendarInv
<1> DEFINE tm == ofc_time_local_time(UINT32(days, s))
<1>3. tm = Tm(y, m, day, Hour(s), Minute(s), Second(s))
  <2>1. FileTime(y, m, day, days, s)
    BY Zenon, <1>1, <1>2, CalendarFileTime
  <2> QED  BY Zenon, <2>1, LocalTimeValue
<1>4. /\ Hour(s) \in 0..23 /\ Minute(s) \in 0..59 /\ Second(s) \in 0..59
      /\ 3600 * Hour(s) + 60 * Minute(s) + Second(s) = s
  BY SMT, SecondsInDay, TimeOfDay
<1> HIDE DEF tm
<1>5. /\ tm.year = y /\ tm.mon = m /\ tm.mday = day
      /\ tm.hour = Hour(s) /\ tm.min = Minute(s) /\ tm.sec = Second(s)
  BY SMT, <1>3 DEF Tm
<1>6. [year |-> tm.year + 1900, mon |-> tm.mon + 1, day |-> tm.mday] = date
  BY SMT, <1>2, <1>5 DEF CalendarAt
<1>7. /\ tm.hour \in 0..23 /\ tm.min \in 0..59 /\ tm.sec \in 0..59
      /\ 3600 * tm.hour + 60 * tm.min + tm.sec = s
  BY SMT, <1>4, <1>5
<1>8. IsCalendar(tm, s)
  BY SMT, <1>6, <1>7 DEF IsCalendar
<1> QED  BY Zenon, <1>8 DEF tm

\* Every second of every day until 2106-02-07 06:28:15 is taken apart by
\* ofc_time_local_time into the date and the time of day of the calendar.
THEOREM LocalTimeCorrect == TimeSpec => []LocalTimeIsCalendar
  BY CalendarInit, CalendarNext, CalendarLocalTime, PTL DEF TimeSpec

-----------------------------------------------------------------------------
(***************************************************************************)
(* DOS dates.  From 1980 on the two words are sums without carry.          *)
(***************************************************************************)
DateWord(y, m, day) == (y - 80) * 512 + (m + 1) * 32 + day
TimeWord(s) == Hour(s) * 2048 + Minute(s) * 32 + Second(s) \div 2
Stamp(y, m, day, s) == <<DateWord(y, m, day), TimeWord(s)>>
DosFileTime(y, m, day, d, s) == FileTime(y, m, day, d, s) /\ y \in 80..207

LEMMA DosRange ==
    \A y, m, day, d, s : DosFileTime(y, m, day, d, s) =>
        /\ y \in 80..207 /\ y \in 70..207 /\ m \in 0..11 /\ day \in 1..31
        /\ SecondOfDay(s) /\ DateOK(y, m, day) /\ d = FirstDay(y) + Before(y, m, day)
<1>1. SUFFICES ASSUME NEW y, NEW m, NEW day, NEW d, NEW s, DosFileTime(y, m, day, d, s)
               PROVE  /\ y \in 80..207 /\ y \in 70..207 /\ m \in 0..11 /\ day \in 1..31
                      /\ SecondOfDay(s) /\ DateOK(y, m, day)
                      /\ d = FirstDay(y) + Before(y, m, day)
  OBVIOUS
<1>2. /\ DateOK(y, m, day) /\ d = FirstDay(y) + Before(y, m, day)
      /\ SecondOfDay(s) /\ y \in 80..207
  BY Zenon, <1>1 DEF DosFileTime, FileTime
<1>3. y \in 70..207 /\ m \in 0..11 /\ day \in 1..31
  BY Zenon, <1>2 DEF DateOK
<1> QED  BY Zenon, <1>2, <1>3

\* The words of a file time from 1980 on.
LEMMA DosDateValue ==
    \A y, m, day, d, s : DosFileTime(y, m, day, d, s) =>
        ofc_file_time_to_dos_date_time_impl(d, s) = Stamp(y, m, day, s)
<1>1. SUFFICES ASSUME NEW y, NEW m, NEW day, NEW d, NEW s, DosFileTime(y, m, day, d, s)
               PROVE  ofc_file_time_to_dos_date_time_impl(d, s) = Stamp(y, m, day, s)
  OBVIOUS
<1> DEFINE tm == ofc_time_local_time(UINT32(d, s))
<1>2. y \in 80..207 /\ m \in 0..11 /\ day \in 1..31
  BY SMT, <1>1, DosRange
<1>3. tm = Tm(y, m, day, Hour(s), Minute(s), Second(s))
  BY SMT, <1>1, LocalTimeValue DEF DosFileTime
<1>4. /\ tm.year = y /\ tm.mon = m /\ tm.mday = day
      /\ tm.hour = Hour(s) /\ tm.min = Minute(s) /\ tm.sec = Second(s)
  BY SMT, <1>3 DEF Tm
<1> HIDE DEF tm
<1>5. ofc_file_time_to_dos_date_time_impl(d, s)
          = ofc_time_elements_to_dos_date_time(m + 1, day, y + 1900, Hour(s), Minute(s), Second(s))
  BY SMT, <1>4 DEF ofc_file_time_to_dos_date_time_impl, tm
<1>6. ((y + 1900) - 1980) * 512 + (m + 1) * 32 + day = DateWord(y, m, day)
  BY SMT, <1>2 DEF DateWord
<1>7. DateWord(y, m, day) \in Nat /\ DateWord(y, m, day) < 65536
  BY SMT, <1>2 DEF DateWord
<1>8. DateWord(y, m, day) % 65536 = DateWord(y, m, day)
  BY SMT, <1>7
<1> QED  BY SMT, <1>5, <1>6, <1>8 DEF ofc_time_elements_to_dos_date_time, TimeWord, Stamp

\* Each field is found again in its word.
LEMMA TimeWordFields ==
    \A s : SecondOfDay(s) =>
        /\ TimeWord(s) \div 2048 = Hour(s)
        /\ (TimeWord(s) % 2048) \div 32 = Minute(s)
        /\ 2 * (TimeWord(s) % 32) = 2 * (Second(s) \div 2)
<1>0. SUFFICES ASSUME NEW s, SecondOfDay(s)
               PROVE  /\ TimeWord(s) \div 2048 = Hour(s)
                      /\ (TimeWord(s) % 2048) \div 32 = Minute(s)
                      /\ 2 * (TimeWord(s) % 32) = 2 * (Second(s) \div 2)
  OBVIOUS
<1> DEFINE h == Hour(s)
           mi == Minute(s)
           half == Second(s) \div 2
           w == TimeWord(s)
           low == mi * 32 + half
<1>1. h \in 0..23 /\ mi \in 0..59 /\ Second(s) \in 0..59
  BY SMT, <1>0, TimeOfDay
<1>2. half \in 0..29
  BY SMT, <1>1
<1>3. w = h * 2048 + mi * 32 + half
  BY DEF TimeWord
<1> HIDE DEF h, mi, half, w
<1>4. low \in 0..2047 /\ low \div 32 = mi
  BY SMT, <1>1, <1>2
<1>5. w = h * 2048 + low /\ w = (h * 64 + mi) * 32 + half /\ w \in Nat
  BY SMT, <1>1, <1>2, <1>3
<1> HIDE DEF low
<1>6. w \div 2048 = h /\ w % 2048 = low
  BY SMT, <1>1, <1>4, <1>5
<1>7. w % 32 = half
  BY SMT, <1>1, <1>2, <1>5
<1>8. w \div 2048 = h /\ (w % 2048) \div 32 = mi /\ 2 * (w % 32) = 2 * half
  BY SMT, <1>4, <1>5, <1>6, <1>7
<1> QED  BY SMT, <1>8 DEF h, mi, half, w

\* The even second at or below second s.
LEMMA EvenSecond ==
    \A s : SecondOfDay(s) =>
        2 * (Second(s) \div 2) + 60 * Minute(s) + 3600 * Hour(s) = s - (s % 2)
<1>0. SUFFICES ASSUME NEW s, SecondOfDay(s)
               PROVE  2 * (Second(s) \div 2) + 60 * Minute(s) + 3600 * Hour(s) = s - (s % 2)
  OBVIOUS
<1> DEFINE h == Hour(s)
           mi == Minute(s)
           se == Second(s)
           half == se \div 2
           bit == se % 2
<1>1. h \in 0..23 /\ mi \in 0..59 /\ se \in 0..59 /\ 3600 * h + 60 * mi + se = s
  BY SMT, <1>0, TimeOfDay
<1> HIDE DEF h, mi, se
<1>2. half \in 0..29 /\ bit \in 0..1
  BY SMT, <1>1
<1>3. se \div 2 = half /\ se % 2 = bit
  OBVIOUS
<1> HIDE DEF half, bit
<1>4. se = 2 * half + bit
  BY SMT, <1>1, <1>2, <1>3
<1>5. s = 2 * (1800 * h + 30 * mi + half) + bit /\ 1800 * h + 30 * mi + half \in Nat
  BY SMT, <1>1, <1>2, <1>4
<1>6. s % 2 = bit
  BY SMT, <1>2, <1>5
<1>7. 2 * half + 60 * mi + 3600 * h = s - (s % 2)
  BY SMT, <1>1, <1>2, <1>5, <1>6
<1> QED  BY SMT, <1>7 DEF h, mi, se, half

Elements(y, m, day, h, mi, se) ==
    [mon |-> m + 1, day |-> day, year |-> (y - 80) + 1980, hour |-> h, min |-> mi, sec |-> se]
InDay(h, mi, se) == se + 60 * mi + 3600 * h

\* The elements of the two words of a file time.
LEMMA DosElements ==
    \A y, m, day, d, s : DosFileTime(y, m, day, d, s) =>
        ofc_dos_date_time_to_elements(Stamp(y, m, day, s)) =
            Elements(y, m, day, Hour(s), Minute(s), 2 * (Second(s) \div 2))
<1>0. SUFFICES ASSUME NEW y, NEW m, NEW day, NEW d, NEW s, DosFileTime(y, m, day, d, s)
               PROVE  ofc_dos_date_time_to_elements(Stamp(y, m, day, s)) =
                          Elements(y, m, day, Hour(s), Minute(s), 2 * (Second(s) \div 2))
  OBVIOUS
<1>a. y \in 80..207 /\ m \in 0..11 /\ day \in 1..31 /\ SecondOfDay(s)
  BY SMT, <1>0, DosRange
<1> DEFINE fat == Stamp(y, m, day, s)
<1>1. /\ (DateWord(y, m, day) % 512) \div 32 = m + 1
      /\ DateWord(y, m, day) % 32 = day
      /\ DateWord(y, m, day) \div 512 = y - 80
  <2> DEFINE w == DateWord(y, m, day)
             low == (m + 1) * 32 + day
  <2>1. low \in 0..511 /\ low \div 32 = m + 1 /\ y - 80 \in Nat /\ w = (y - 80) * 512 + low
    BY SMT, <1>a DEF DateWord
  <2>2. w = ((y - 80) * 16 + (m + 1)) * 32 + day
    BY SMT, <1>a DEF DateWord
  <2> HIDE DEF w, low
  <2>3. w % 512 = low /\ w \div 512 = y - 80
    BY SMT, <1>a, <2>1
  <2>4. w % 32 = day
    BY SMT, <1>a, <2>2
  <2> QED  BY SMT, <2>1, <2>3, <2>4 DEF w
<1>2. /\ TimeWord(s) \div 2048 = Hour(s)
      /\ (TimeWord(s) % 2048) \div 32 = Minute(s)
      /\ 2 * (TimeWord(s) % 32) = 2 * (Second(s) \div 2)
  BY SMT, <1>a, TimeWordFields
<1>3. fat[1] = DateWord(y, m, day) /\ fat[2] = TimeWord(s)
  BY SMT DEF Stamp
<1> HIDE DEF fat
<1>4. /\ (fat[1] % 512) \div 32 = m + 1
      /\ fat[1] % 32 = day
      /\ fat[1] \div 512 + 1980 = (y - 80) + 1980
  BY SMT, <1>1, <1>3
<1>5. /\ fat[2] \div 2048 = Hour(s)
      /\ (fat[2] % 2048) \div 32 = Minute(s)
      /\ 2 * (fat[2] % 32) = 2 * (Second(s) \div 2)
  BY SMT, <1>2, <1>3
<1>6. ofc_dos_date_time_to_elements(fat) =
          Elements(y, m, day, Hour(s), Minute(s), 2 * (Second(s) \div 2))
  BY SMT, <1>4, <1>5 DEF ofc_dos_date_time_to_elements, Elements
<1> QED  BY SMT, <1>6 DEF fat

\* What ofc_time_make_time makes of a date after 1970.
LEMMA MakeTimeValue ==
    ASSUME NEW y \in 80..207, NEW m, NEW day, NEW h, NEW mi, NEW se, DateOK(y, m, day)
    PROVE  ofc_time_make_time(Tm(y, m, day, h, mi, se))
               = UINT32(FirstDay(y) + Before(y, m, day), InDay(h, mi, se))
<1> DEFINE tm == [year |-> y, mon |-> m, mday |-> day, hour |-> h, min |-> mi, sec |-> se]
<1>1. y \in 70..207 /\ y > 70
  BY SMT
<1>2. DaysOfYears[y] = FirstDay(y)
  BY SMT, <1>1, DaysOfYearsValue DEF FirstDay
<1>3. DayInYear(tm) = Before(y, m, day)
  BY SMT DEF Before, DayInYear
<1>4. Before(y, m, day) \in Nat
  BY Zenon, BeforeType
<1>5. FirstDay(y) \in Nat
  BY SMT, <1>1, NewYearType DEF FirstDay
<1>6. tm.year = y /\ tm.sec = se /\ tm.min = mi /\ tm.hour = h
  BY SMT
<1> HIDE DEF tm
<1>7. ofc_time_make_time(tm) = UINT32(DayInYear(tm) + FirstDay(y), InDay(h, mi, se))
  BY SMT, <1>1, <1>2, <1>6 DEF ofc_time_make_time, InDay
<1>8. DayInYear(tm) + FirstDay(y) = FirstDay(y) + Before(y, m, day)
  BY SMT, <1>3, <1>4, <1>5
<1>9. ofc_time_make_time(tm)
          = UINT32(FirstDay(y) + Before(y, m, day), InDay(h, mi, se))
  BY SMT, <1>7, <1>8
<1> QED  BY SMT, <1>9 DEF tm, Tm

\* The calendar's day and its second as a file time of a DOS date.
LEMMA CalendarDosTime ==
    ASSUME NEW y, NEW m, NEW day, NEW s \in Seconds
    PROVE  CalendarAt(y, m, day) /\ Fits(s) /\ DosYear => DosFileTime(y, m, day, days, s)
<1>1. SUFFICES ASSUME CalendarAt(y, m, day), Fits(s), DosYear
               PROVE  DosFileTime(y, m, day, days, s)
  BY Zenon
<1>2. DateOK(y, m, day)
  BY SMT, <1>1 DEF CalendarAt
<1>3. date.year = y + 1900
  BY SMT, <1>1 DEF CalendarAt
<1>4. y \in 80..207
  BY SMT, <1>1, <1>2, <1>3 DEF DosYear, DateOK
<1>5. FileTime(y, m, day, days, s)
  BY Zenon, <1>1, CalendarFileTime
<1> QED  BY Zenon, <1>4, <1>5 DEF DosFileTime

\* Converting to a DOS date and back loses nothing but an odd second.
LEMMA CalendarRoundTrip == CalendarInv => DosRoundTrip
<1>1. SUFFICES ASSUME CalendarInv, NEW s \in Seconds, DosYear, Fits(s)
               PROVE  ofc_dos_date_time_to_file_time_impl(
                          ofc_file_time_to_dos_date_time_impl(days, s))
                              = UINT32(days, s - (s % 2))
  BY Zenon DEF DosRoundTrip
<1>2. PICK y, m, day : CalendarAt(y, m, day)
  BY Zenon, <1>1 DEF CalendarInv
<1>3. DosFileTime(y, m, day, days, s)
  BY Zenon, <1>1, <1>2, CalendarDosTime
<1>4. /\ y \in 80..207 /\ m \in 0..11 /\ DateOK(y, m, day) /\ SecondOfDay(s)
      /\ days = FirstDay(y) + Before(y, m, day)
  BY SMT, <1>3, DosRange
<1> DEFINE fat == Stamp(y, m, day, s)
           se == 2 * (Second(s) \div 2)
<1>5. ofc_file_time_to_dos_date_time_impl(days, s) = fat
  BY Zenon, <1>3, DosDateValue
<1>6. ofc_dos_date_time_to_elements(fat) = Elements(y, m, day, Hour(s), Minute(s), se)
  BY Zenon, <1>3, DosElements
<1>7. InDay(Hour(s), Minute(s), se) = s - (s % 2)
  BY SMT, <1>4, EvenSecond DEF InDay
<1> HIDE DEF fat, se
<1>8. ofc_dos_date_time_to_file_time_impl(fat) =
          ofc_time_make_time(Tm(y, m, day, Hour(s), Minute(s), se))
  <2>1. ((y - 80) + 1980) - 1900 = y /\ (m + 1) - 1 = m
    BY SMT, <1>4
  <2> QED  BY SMT, <1>6, <2>1 DEF ofc_dos_date_time_to_file_time_impl, Elements, Tm
<1>9. ofc_time_make_time(Tm(y, m, day, Hour(s), Minute(s), se))
          = UINT32(FirstDay(y) + Before(y, m, day), InDay(Hour(s), Minute(s), se))
  <2>1. y \in 80..207 /\ DateOK(y, m, day)
    BY Zenon, <1>4
  <2> QED  BY SMT, <2>1, MakeTimeValue
<1>10. ofc_dos_date_time_to_file_time_impl(fat) = UINT32(days, s - (s % 2))
  BY SMT, <1>4, <1>7, <1>8, <1>9
<1> QED  BY SMT, <1>5, <1>10

\* A file time from 1980 on that is converted to a DOS date and back is the same
\* but for an odd second: ofc_time_make_time undoes ofc_time_local_time.
THEOREM DosRoundTripCorrect == TimeSpec => []DosRoundTrip
  BY CalendarInit, CalendarNext, CalendarRoundTrip, PTL DEF TimeSpec

-----------------------------------------------------------------------------
\* The date is the first of the two words of a stamp.
LEMMA StampDate ==
    \A y, m, day, d, s : DosFileTime(y, m, day, d, s) =>
        ofc_file_time_to_dos_date_time_impl(d, s)[1] = DateWord(y, m, day)
<1>1. SUFFICES ASSUME NEW y, NEW m, NEW day, NEW d, NEW s, DosFileTime(y, m, day, d, s)
               PROVE  ofc_file_time_to_dos_date_time_impl(d, s)[1] = DateWord(y, m, day)
  OBVIOUS
<1>2. ofc_file_time_to_dos_date_time_impl(d, s) = Stamp(y, m, day, s)
  BY Zenon, <1>1, DosDateValue
<1> QED  BY SMT, <1>2 DEF Stamp

\* The first second of the day that follows.
LEMMA NextDosTime ==
    ASSUME NEW y \in 80..207, NEW m, NEW day
    PROVE  CalendarAt(y, m, day)' /\ Fits(0)' => DosFileTime(y, m, day, days', 0)
<1>1. CalendarAt(y, m, day)' => DateOK(y, m, day) /\ days' = FirstDay(y) + Before(y, m, day)
  BY SMT DEF CalendarAt
<1>2. Fits(0)' => FitsAt(days', 0)
  BY SMT DEF Fits, FitsAt
<1>3. SecondOfDay(0)
  BY SMT DEF SecondOfDay
<1> QED  BY Zenon, <1>1, <1>2, <1>3 DEF DosFileTime, FileTime

\* A step of the calendar to the next day makes the stamp larger.
LEMMA StampGrows ==
    ASSUME CalendarInv, NextDay, NEW s \in Seconds, DosYear, Fits(s), Fits(0)'
    PROVE  DosLess(ofc_file_time_to_dos_date_time_impl(days, s),
                   ofc_file_time_to_dos_date_time_impl(days', 0))
<1>1. PICK y, m, day : CalendarAt(y, m, day)
  BY Zenon DEF CalendarInv
<1>2. DosFileTime(y, m, day, days, s)
  BY Zenon, <1>1, CalendarDosTime
<1>3. y \in 80..207 /\ m \in 0..11 /\ day \in 1..31
  BY SMT, <1>2, DosRange
<1> DEFINE a == ofc_file_time_to_dos_date_time_impl(days, s)
           b == ofc_file_time_to_dos_date_time_impl(days', 0)
<1>4. a[1] = DateWord(y, m, day)
  BY SMT, <1>2, StampDate
<1>5. \/ b[1] = DateWord(y, m, day + 1) \/ b[1] = DateWord(y, m + 1, 1)
      \/ b[1] = DateWord(y + 1, 0, 1)
  <2>1. Follows(y, m, day)'
    BY Zenon, <1>1, CalendarStep
  <2>2. CalendarAt(y + 1, 0, 1)' => y + 1 \in 80..207
    <3>1. CalendarAt(y + 1, 0, 1)' => y + 1 \in 70..207
      BY SMT DEF CalendarAt, DateOK
    <3> QED  BY SMT, <1>3, <3>1
  <2>3. \/ DosFileTime(y, m, day + 1, days', 0) \/ DosFileTime(y, m + 1, 1, days', 0)
        \/ DosFileTime(y + 1, 0, 1, days', 0)
    BY Zenon, <1>3, <2>1, <2>2, NextDosTime DEF Follows
  <2>4. DosFileTime(y, m, day + 1, days', 0) => b[1] = DateWord(y, m, day + 1)
    BY SMT, StampDate
  <2> DEFINE first == 1
  <2> HIDE DEF first
  <2>5. DosFileTime(y, m + 1, first, days', 0) => b[1] = DateWord(y, m + 1, first)
    BY SMT, StampDate
  <2>6. DosFileTime(y + 1, 0, first, days', 0) => b[1] = DateWord(y + 1, 0, first)
    BY SMT, StampDate
  <2> QED  BY Zenon, <2>3, <2>4, <2>5, <2>6 DEF first
<1> HIDE DEF a, b
<1>6. a[1] < b[1]
  <2>1. /\ DateWord(y, m, day) < DateWord(y, m, day + 1)
        /\ DateWord(y, m, day) < DateWord(y, m + 1, 1)
        /\ DateWord(y, m, day) < DateWord(y + 1, 0, 1)
    BY SMT, <1>3 DEF DateWord
  <2> QED  BY Zenon, <1>4, <1>5, <2>1
<1>7. DosLess(a, b)
  BY Zenon, <1>6 DEF DosLess
<1> QED  BY Zenon, <1>7 DEF a, b

\* The time word grows with the seconds of a day, two by two.
LEMMA TimeWordGrows ==
    ASSUME NEW s, NEW u, SecondOfDay(s), SecondOfDay(u), s \div 2 < u \div 2
    PROVE  TimeWord(s) < TimeWord(u)
<1>0. s \in Nat /\ u \in Nat /\ s < 86400 /\ u < 86400
  BY SMT DEF SecondOfDay
<1>1. /\ Hour(s) \in 0..23 /\ Minute(s) \in 0..59 /\ Second(s) \in 0..59
      /\ 3600 * Hour(s) + 60 * Minute(s) + Second(s) = s
  BY SMT, TimeOfDay
<1>2. /\ Hour(u) \in 0..23 /\ Minute(u) \in 0..59 /\ Second(u) \in 0..59
      /\ 3600 * Hour(u) + 60 * Minute(u) + Second(u) = u
  BY SMT, TimeOfDay
<1> DEFINE hs == Hour(s)  ms == Minute(s)  ss == Second(s)
           hu == Hour(u)  mu == Minute(u)  su == Second(u)
<1>3. TimeWord(s) = hs * 2048 + ms * 32 + ss \div 2 /\ TimeWord(u) = hu * 2048 + mu * 32 + su \div 2
  BY SMT DEF TimeWord
<1>4. /\ hs \in 0..23 /\ ms \in 0..59 /\ ss \in 0..59 /\ 3600 * hs + 60 * ms + ss = s
      /\ hu \in 0..23 /\ mu \in 0..59 /\ su \in 0..59 /\ 3600 * hu + 60 * mu + su = u
  BY SMT, <1>1, <1>2
<1> HIDE DEF hs, ms, ss, hu, mu, su
<1>5. s \div 2 = 1800 * hs + 30 * ms + ss \div 2 /\ u \div 2 = 1800 * hu + 30 * mu + su \div 2
  BY SMT, <1>0, <1>4
<1>6. ss \div 2 \in 0..29 /\ su \div 2 \in 0..29
  BY SMT, <1>4
<1>7. 1800 * hs + 30 * ms + ss \div 2 < 1800 * hu + 30 * mu + su \div 2
  BY SMT, <1>5
<1>8. hs * 2048 + ms * 32 + ss \div 2 < hu * 2048 + mu * 32 + su \div 2
  BY SMT, <1>4, <1>6, <1>7
<1> QED  BY SMT, <1>3, <1>8

\* The stamps of a day of the calendar are in the order of its seconds.
LEMMA CalendarOrdered == CalendarInv => OrderedInDay
<1>1. SUFFICES ASSUME CalendarInv, DosYear, NEW p \in Stamped, NEW q \in Stamped,
                      p[1] \div 2 < q[1] \div 2
               PROVE  DosLess(p[2], q[2])
  BY Zenon DEF OrderedInDay
<1>2. PICK y, m, day : CalendarAt(y, m, day)
  BY Zenon, <1>1 DEF CalendarInv
<1>3. PICK s \in Seconds : Fits(s) /\ p = <<s, ofc_file_time_to_dos_date_time_impl(days, s)>>
  BY Zenon, <1>1 DEF Stamped
<1>4. PICK u \in Seconds : Fits(u) /\ q = <<u, ofc_file_time_to_dos_date_time_impl(days, u)>>
  BY Zenon, <1>1 DEF Stamped
<1>5. DosFileTime(y, m, day, days, s) /\ DosFileTime(y, m, day, days, u)
  BY Zenon, <1>1, <1>2, <1>3, <1>4, CalendarDosTime
<1>6. /\ ofc_file_time_to_dos_date_time_impl(days, s) = Stamp(y, m, day, s)
      /\ ofc_file_time_to_dos_date_time_impl(days, u) = Stamp(y, m, day, u)
  BY Zenon, <1>5, DosDateValue
<1>7. p[1] = s /\ q[1] = u /\ p[2] = Stamp(y, m, day, s) /\ q[2] = Stamp(y, m, day, u)
  BY SMT, <1>3, <1>4, <1>6
<1>8. TimeWord(s) < TimeWord(u)
  BY Zenon, <1>1, <1>7, SecondsInDay, TimeWordGrows
<1>9. /\ p[2][1] = DateWord(y, m, day) /\ q[2][1] = DateWord(y, m, day)
      /\ p[2][2] = TimeWord(s) /\ q[2][2] = TimeWord(u)
  BY SMT, <1>7 DEF Stamp
<1> QED  BY Zenon, <1>8, <1>9 DEF DosLess

\* The DOS stamps are in the order of the file times, from 1980 on: within a day,
\* down to the even second, and from each second of a day to the first of the next,
\* at the end of a year as at the end of a month.
THEOREM DosOrderCorrect == TimeSpec => DosOrderKept
<1> DEFINE A == /\ OrderedInDay
                /\ \A s \in Seconds : DosYear /\ Fits(s) /\ Fits(0)' =>
                      DosLess(ofc_file_time_to_dos_date_time_impl(days, s),
                              ofc_file_time_to_dos_date_time_impl(days', 0))
<1>1. CalendarInv /\ [NextDay]_timeVars => [A]_timeVars
  <2>1. ASSUME CalendarInv, NextDay  PROVE  A
    <3>1. OrderedInDay
      BY Zenon, <2>1, CalendarOrdered
    <3>2. ASSUME NEW s \in Seconds, DosYear, Fits(s), Fits(0)'
          PROVE  DosLess(ofc_file_time_to_dos_date_time_impl(days, s),
                         ofc_file_time_to_dos_date_time_impl(days', 0))
      BY Zenon, <2>1, <3>2, StampGrows
    <3> QED  BY Zenon, <3>1, <3>2
  <2> HIDE DEF A
  <2> QED  BY Zenon, <2>1
<1>2. DosOrderKept <=> [][A]_timeVars
  BY DEF DosOrderKept
<1> HIDE DEF A
<1> QED  BY <1>1, <1>2, CalendarInit, CalendarNext, PTL DEF TimeSpec
=============================================================================
