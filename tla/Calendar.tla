------------------------------ MODULE Calendar ------------------------------
(***************************************************************************)
(* Dates as the program writes them, and what it does with their fields:   *)
(* validate_datetime_range and compare_dates of utils.c.  Beside them, the *)
(* time that mktime and localtime make of a date and back, which is what   *)
(* date_to_timestamp and get_current_datetime rely on.                     *)
(*                                                                         *)
(* EventDatabase has a date as the number of its minute.  That is enough   *)
(* if a date that is accepted is the date of exactly one minute, and dates *)
(* compare as their minutes do: MCLifecycle asks both of every instant it  *)
(* reaches, and CalendarProofs proves the second of all dates.             *)
(***************************************************************************)
EXTENDS Integers

CONSTANTS Days, Months, Years, Hours, Minutes   \* the values of the fields

ASSUME FieldsAssumption ==
    /\ Days \subseteq Nat /\ Months \subseteq Nat /\ Years \subseteq Nat
    /\ Hours \subseteq Nat /\ Minutes \subseteq Nat

\* What validate_datetime_format lets through: digits.
Written == [day : Days, month : Months, year : Years, hour : Hours, min : Minutes]

-----------------------------------------------------------------------------
(* utils.c *)

IsLeap(year) == (year % 4 = 0 /\ year % 100 # 0) \/ year % 400 = 0

\* Slip: any date up to the 30th of February.
DaysInMonth_noFebruary(month, year) == IF month \in {2, 4, 6, 9, 11} THEN 30 ELSE 31

DaysInMonth(month, year) ==
    CASE month = 2 -> IF IsLeap(year) THEN 29 ELSE 28
      [] month \in {4, 6, 9, 11} -> 30
      [] OTHER -> 31

ValidateDatetimeRange(d) ==
    /\ d.month \in 1..12
    /\ d.hour \in 0..23
    /\ d.min \in 0..59
    /\ d.day \in 1..DaysInMonth(d.month, d.year)

\* validate_datetime
Accepted == {d \in Written : ValidateDatetimeRange(d)}

\* Slip: the fields are compared in the order they are written in.
Earlier_asWritten(a, b) ==
    \/ a.day < b.day
    \/ a.day = b.day /\ \/ a.month < b.month
                        \/ a.month = b.month /\ \/ a.year < b.year
                                                \/ a.year = b.year /\ a.hour < b.hour

\* compare_dates(a, b) < 0.
Earlier(a, b) ==
    \/ a.year < b.year
    \/ /\ a.year = b.year
       /\ \/ a.month < b.month
          \/ /\ a.month = b.month
             /\ \/ a.day < b.day
                \/ /\ a.day = b.day
                   /\ \/ a.hour < b.hour
                      \/ a.hour = b.hour /\ a.min < b.min

-----------------------------------------------------------------------------
(* The C library *)

\* The days from 1 January 1970 to 1 January of a year.
YearStart(year) ==
    365 * (year - 1970) + ((year - 1969) \div 4) - ((year - 1901) \div 100) + ((year - 1601) \div 400)

\* The days from 1 January to the first of a month.
MonthStart(month, year) ==
    <<0, 31, 59, 90, 120, 151, 181, 212, 243, 273, 304, 334>>[month]
        + IF month > 2 THEN YearStart(year + 1) - YearStart(year) - 365 ELSE 0

\* date_to_timestamp, in minutes: mktime carries fields out of range over to the next.
MinuteOf(d) ==
    LET year == d.year + ((d.month - 1) \div 12)
        month == 1 + ((d.month - 1) % 12)
    IN  1440 * (YearStart(year) + MonthStart(month, year) + d.day - 1) + 60 * d.hour + d.min

\* localtime, as get_current_datetime writes it, from 1970 on.
DateOf(minute) ==
    LET days == minute \div 1440
        year == CHOOSE y \in (1970 + days \div 366)..(1970 + days \div 365) :
                    YearStart(y) <= days /\ days < YearStart(y + 1)
        month == CHOOSE m \in 1..12 :
                    /\ YearStart(year) + MonthStart(m, year) <= days
                    /\ m < 12 => days < YearStart(year) + MonthStart(m + 1, year)
    IN  [day |-> days - YearStart(year) - MonthStart(month, year) + 1,
         month |-> month, year |-> year,
         hour |-> (minute % 1440) \div 60, min |-> minute % 60]
=============================================================================
