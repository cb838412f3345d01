-------------------------------- MODULE Time --------------------------------
(***************************************************************************)
(* The conversions between file times and DOS dates of src/time_android.c, *)
(* against a calendar that is counted day by day.                          *)
(*                                                                         *)
(* A file time is given here by the whole seconds since 1970 that the      *)
(* library's conversions make of it: whole days and the seconds of a day.  *)
(* The code keeps them in an OFC_UINT32.  As 86400 is 675 * 128, such a    *)
(* word is a pair <<units, rest>> of 128-second units, of which there are  *)
(* 2^25, and the seconds that are left.                                    *)
(***************************************************************************)
EXTENDS Integers

CONSTANTS
    Years,      \* years of the calendar that are looked at
    Seconds     \* seconds of the day at which each of its days is looked at

ASSUME TimeAssumption ==
    /\ Years \subseteq 1970..2107       \* a DOS date ends in 2107
    /\ \A s \in Seconds : s \in Nat /\ s < 86400

VARIABLES
    date,       \* a date of the calendar
    days        \* the days from 1 January 1970 to this date

timeVars == <<date, days>>

-----------------------------------------------------------------------------
\* The calendar.
Leap(y) == (y % 4 = 0 /\ y % 100 # 0) \/ y % 400 = 0
MonthLength(y, m) == IF m = 2 THEN IF Leap(y) THEN 29 ELSE 28
                     ELSE IF m \in {4, 6, 9, 11} THEN 30 ELSE 31
LeapsBefore(y) == (y - 1) \div 4 - (y - 1) \div 100 + (y - 1) \div 400
NewYear(y) == 365 * (y - 1970) + LeapsBefore(y) - LeapsBefore(1970)

NextDay ==
    /\ \/ /\ date.day < MonthLength(date.year, date.mon)
          /\ date' = [date EXCEPT !.day = @ + 1]
       \/ /\ date.day = MonthLength(date.year, date.mon)
          /\ date.mon < 12
          /\ date' = [year |-> date.year, mon |-> date.mon + 1, day |-> 1]
       \/ /\ date.day = 31 /\ date.mon = 12
          /\ date.year + 1 \in Years
          /\ date' = [year |-> date.year + 1, mon |-> 1, day |-> 1]
    /\ days' = days + 1

TimeInit ==
    \E y \in Years :
        /\ date = [year |-> y, mon |-> 1, day |-> 1]
        /\ days = NewYear(y)

TimeSpec == TimeInit /\ [][NextDay]_timeVars

-----------------------------------------------------------------------------
(***************************************************************************)
(* The code.                                                               *)
(***************************************************************************)
UnitsPerDay == 675
UINT32(d, s) == <<(d * UnitsPerDay + s \div 128) % 33554432, s % 128>>

\* Mutant of ISLEAP: every fourth year.
ISLEAP4(y) == y % 4 = 0

\* Years are counted from 1900 and months from 0, as in struct tm.
ISLEAP(y) == y % 4 = 0 /\ (y % 100 # 0 \/ (y + 1900) % 400 = 0)
DAYS_IN_YEAR(y) == IF ISLEAP(y) THEN 366 ELSE 365
DAYS_BEFORE_MONTH == <<0, 31, 59, 90, 120, 151, 181, 212, 243, 273, 304, 334>>
DaysBefore(m) == DAYS_BEFORE_MONTH[m + 1]

\* The loop of ofc_time_make_time: the days of the years from 1970 to y.
DaysOfYears[y \in 70..207] == IF y = 70 THEN 0 ELSE DaysOfYears[y - 1] + DAYS_IN_YEAR(y - 1)

\* The days before a date in its year.  Its mutant adds the leap day too early.
DayInYearEarly(tm) ==
    (tm.mday - 1) + DaysBefore(tm.mon) + (IF tm.mon > 0 /\ ISLEAP(tm.year) THEN 1 ELSE 0)
DayInYear(tm) ==
    (tm.mday - 1) + DaysBefore(tm.mon) + (IF tm.mon > 1 /\ ISLEAP(tm.year) THEN 1 ELSE 0)

ofc_time_make_time(tm) ==
    LET inDay  == tm.sec + 60 * tm.min + 3600 * tm.hour
        before == IF tm.year > 70 THEN DaysOfYears[tm.year] ELSE 0
    IN  UINT32(DayInYear(tm) + before, inDay)

\* The loop of ofc_time_local_time takes the years from 1970 off the d days, while
\* a whole year is left: the year at which it stops, and the days that are left.
DaysTaken == [y \in 70..206 |-> DaysOfYears[y]]
YearOf(d) == CHOOSE y \in 70..206 : d - DaysTaken[y] \in 0..(DAYS_IN_YEAR(y) - 1)
YearAndDay(d) == <<YearOf(d), d - DaysTaken[YearOf(d)]>>

\* The month to which day d of a year without a leap day belongs.
MonthOf(d) == CHOOSE m \in 0..11 : DaysBefore(m) <= d /\ (m < 11 => d < DaysBefore(m + 1))

\* Mutant of MonthAndDay: 29 February is a day like any other.
MonthAndDayPlain(y, d) ==
    LET e == IF ISLEAP(y) /\ d > DaysBefore(2) THEN d - 1 ELSE d
    IN  <<MonthOf(e), e - DaysBefore(MonthOf(e)) + 1>>

\* The month and the day of the month, for day d of year y.
MonthAndDay(y, d) ==
    IF ISLEAP(y) /\ d = DaysBefore(2) THEN <<1, d - DaysBefore(1) + 1>>
    ELSE LET e == IF ISLEAP(y) /\ d > DaysBefore(2) THEN d - 1 ELSE d
         IN  <<MonthOf(e), e - DaysBefore(MonthOf(e)) + 1>>

ofc_time_local_time(word) ==
    LET inDay == (word[1] % UnitsPerDay) * 128 + word[2]
        yd    == YearAndDay(word[1] \div UnitsPerDay)
        md    == MonthAndDay(yd[1], yd[2])
    IN  [year |-> yd[1], mon |-> md[1], mday |-> md[2],
         hour |-> inDay \div 3600, min |-> (inDay % 3600) \div 60, sec |-> inDay % 60]

\* The library's packing of a date and a time in two 16-bit words.
ofc_time_elements_to_dos_date_time(mon, day, year, hour, min, sec) ==
    <<((year - 1980) * 512 + mon * 32 + day) % 65536, hour * 2048 + min * 32 + sec \div 2>>
ofc_dos_date_time_to_elements(fat) ==
    [mon |-> (fat[1] % 512) \div 32, day |-> fat[1] % 32, year |-> fat[1] \div 512 + 1980,
     hour |-> fat[2] \div 2048, min |-> (fat[2] % 2048) \div 32, sec |-> 2 * (fat[2] % 32)]

ofc_file_time_to_dos_date_time_impl(d, s) ==
    LET tm == ofc_time_local_time(UINT32(d, s))
    IN  ofc_time_elements_to_dos_date_time(tm.mon + 1, tm.mday, tm.year + 1900,
                                           tm.hour, tm.min, tm.sec)

ofc_dos_date_time_to_file_time_impl(fat) ==
    LET e == ofc_dos_date_time_to_elements(fat)
    IN  ofc_time_make_time([year |-> e.year - 1900, mon |-> e.mon - 1, mday |-> e.day,
                            hour |-> e.hour, min |-> e.min, sec |-> e.sec])

-----------------------------------------------------------------------------
\* Does second s of the date fit in the 32 bits of ofc_time_make_time?  The last
\* that does is 2106-02-07 06:28:15.
Fits(s) == days < 49710 \/ (days = 49710 /\ s <= 23295)

\* The years of a DOS date start at 1980.
DosYear == date.year >= 1980

\* Is tm second s of the calendar's date?
IsCalendar(tm, s) ==
    /\ [year |-> tm.year + 1900, mon |-> tm.mon + 1, day |-> tm.mday] = date
    /\ tm.hour \in 0..23 /\ tm.min \in 0..59 /\ tm.sec \in 0..59
    /\ 3600 * tm.hour + 60 * tm.min + tm.sec = s

\* ofc_time_local_time takes apart every second that fits in 32 bits as the
\* calendar does, in leap years and century years and at the ends of months.
LocalTimeIsCalendar ==
    \A s \in Seconds : Fits(s) => IsCalendar(ofc_time_local_time(UINT32(days, s)), s)

\* A file time that is converted to a DOS date and time and back is the same but
\* for an odd second, for all DOS dates that fit in 32 bits of seconds.
DosRoundTrip ==
    \A s \in Seconds : DosYear /\ Fits(s) =>
        ofc_dos_date_time_to_file_time_impl(ofc_file_time_to_dos_date_time_impl(days, s))
            = UINT32(days, s - (s % 2))

DosLess(a, b) == a[1] < b[1] \/ (a[1] = b[1] /\ a[2] < b[2])

\* The stamps of a day are in the order of its seconds, taken two by two.
Stamped == {<<s, ofc_file_time_to_dos_date_time_impl(days, s)>> : s \in {r \in Seconds : Fits(r)}}
OrderedInDay ==
    DosYear => \A p, q \in Stamped : p[1] \div 2 < q[1] \div 2 => DosLess(p[2], q[2])

\* DOS dates and times are ordered as the file times are, but for the odd second:
\* within each day, and from each second of a day to the first of the next day,
\* over the ends of months and years.
DosOrderKept ==
    [][/\ OrderedInDay
       /\ \A s \in Seconds : DosYear /\ Fits(s) /\ Fits(0)' =>
             DosLess(ofc_file_time_to_dos_date_time_impl(days, s),
                     ofc_file_time_to_dos_date_time_impl(days', 0))]_timeVars
=============================================================================
