--------------------------- MODULE CalendarProofs ---------------------------
(***************************************************************************)
(* That compare_dates orders the dates validate_datetime_range accepts as  *)
(* mktime does, for every date that can be written.  Both orders are       *)
(* lexicographic once a year is known to end before the next begins, and a *)
(* month before the next month of its year.  And that the date shown for a *)
(* minute is the date whose minute it is, which carries what the other     *)
(* modules prove of minutes over to the dates the program prints.          *)
(***************************************************************************)
EXTENDS MCLifecycle, ESServerProofs

\* The dates there are.
Dates ==
    {d \in [day : Nat, month : Nat, year : Nat, hour : Nat, min : Nat] : ValidateDatetimeRange(d)}

\* The days from 1 January 1970 to a date.
DayOf(d) == YearStart(d.year) + MonthStart(d.month, d.year) + d.day - 1

LEMMA YearLength ==
    ASSUME NEW y \in Nat
    PROVE  /\ YearStart(y) \in Int
           /\ YearStart(y + 1) - YearStart(y) = IF IsLeap(y) THEN 366 ELSE 365
BY SMTT(60) DEF YearStart, IsLeap

LEMMA YearsAdvance ==
    ASSUME NEW a \in Nat, NEW b \in Nat, a < b
    PROVE  YearStart(a + 1) <= YearStart(b)
BY SMTT(60) DEF YearStart

\* The first days of the months, in a leap year or not.
LEMMA MonthStartIs ==
    ASSUME NEW y \in Nat, NEW m \in 1..12
    PROVE  MonthStart(m, y) = <<0, 31, 59, 90, 120, 151, 181, 212, 243, 273, 304, 334>>[m]
                              + IF m > 2 /\ IsLeap(y) THEN 1 ELSE 0
<1> DEFINE base == <<0, 31, 59, 90, 120, 151, 181, 212, 243, 273, 304, 334>>[m]
<1>1. base \in Int
  BY SMT
<1>2. IF m > 2 THEN YearStart(y + 1) - YearStart(y) - 365 = (IF IsLeap(y) THEN 1 ELSE 0) ELSE TRUE
  BY YearLength
<1> HIDE DEF base
<1>3. MonthStart(m, y) = base + IF m > 2 THEN YearStart(y + 1) - YearStart(y) - 365 ELSE 0
  BY DEF MonthStart, base
<1>4. MonthStart(m, y) = base + IF m > 2 /\ IsLeap(y) THEN 1 ELSE 0
  BY <1>1, <1>2, <1>3
<1> QED
  BY <1>4 DEF base

LEMMA MonthsAdvance ==
    ASSUME NEW y \in Nat, NEW m \in 1..12, NEW n \in 1..12, m < n
    PROVE  /\ MonthStart(m, y) \in Int
           /\ MonthStart(n, y) \in Int
           /\ MonthStart(m, y) + DaysInMonth(m, y) <= MonthStart(n, y)
BY MonthStartIs, SMTT(60) DEF DaysInMonth

LEMMA MonthInYear ==
    ASSUME NEW y \in Nat, NEW m \in 1..12
    PROVE  /\ MonthStart(m, y) \in Nat
           /\ DaysInMonth(m, y) \in Nat
           /\ MonthStart(m, y) + DaysInMonth(m, y) <= YearStart(y + 1) - YearStart(y)
BY MonthStartIs, YearLength, SMTT(60) DEF DaysInMonth

LEMMA AcceptedAreDates == Accepted \subseteq Dates
<1> SUFFICES ASSUME NEW d \in Accepted
             PROVE  d \in Dates
  OBVIOUS
<1>1. d \in [day : Days, month : Months, year : Years, hour : Hours, min : Minutes]
      /\ ValidateDatetimeRange(d)
  BY DEF Accepted, Written
<1> QED
  BY <1>1, FieldsAssumption DEF Dates

LEMMA DateFields ==
    ASSUME NEW d \in Dates
    PROVE  /\ d.year \in Nat
           /\ d.month \in 1..12
           /\ d.day \in Nat /\ 1 <= d.day /\ d.day <= DaysInMonth(d.month, d.year)
           /\ d.hour \in 0..23
           /\ d.min \in 0..59
<1>1. d \in [day : Nat, month : Nat, year : Nat, hour : Nat, min : Nat] /\ ValidateDatetimeRange(d)
  BY DEF Dates
<1>2. d.day \in Nat /\ d.month \in Nat /\ d.year \in Nat
  BY <1>1
<1>3. d.month \in 1..12 /\ d.hour \in 0..23 /\ d.min \in 0..59
      /\ d.day \in 1..DaysInMonth(d.month, d.year)
  BY <1>1 DEF ValidateDatetimeRange
<1>4. DaysInMonth(d.month, d.year) \in Nat
  BY DEF DaysInMonth
<1> QED
  BY <1>2, <1>3, <1>4

LEMMA MinuteOfDate ==
    ASSUME NEW d \in Dates
    PROVE  /\ DayOf(d) \in Int
           /\ MinuteOf(d) \in Int
           /\ MinuteOf(d) = 1440 * DayOf(d) + 60 * d.hour + d.min
<1>1. (d.month - 1) \div 12 = 0 /\ 1 + ((d.month - 1) % 12) = d.month
  BY DateFields
<1>2. d.year + 0 = d.year
  BY DateFields
<1>3. MinuteOf(d) = 1440 * (YearStart(d.year) + MonthStart(d.month, d.year) + d.day - 1)
                    + 60 * d.hour + d.min
  BY <1>1, <1>2 DEF MinuteOf
<1>4. YearStart(d.year) \in Int /\ MonthStart(d.month, d.year) \in Nat
  <2>1. d.year \in Nat /\ d.month \in 1..12
    BY DateFields
  <2>2. YearStart(d.year) \in Int
    BY <2>1, YearLength
  <2>3. MonthStart(d.month, d.year) \in Nat
    BY <2>1, MonthInYear
  <2> QED
    BY <2>2, <2>3
<1>5. DayOf(d) \in Int
  BY <1>4, DateFields DEF DayOf
<1>6. MinuteOf(d) = 1440 * DayOf(d) + 60 * d.hour + d.min
  BY <1>3 DEF DayOf
<1>7. d.hour \in Int /\ d.min \in Int
  BY DateFields
<1>8. 1440 * DayOf(d) + 60 * d.hour + d.min \in Int
  BY <1>5, <1>7
<1> QED
  BY <1>5, <1>6, <1>8

\* The order of compare_dates without the time of day.
EarlierDay(a, b) ==
    \/ a.year < b.year
    \/ a.year = b.year /\ a.month < b.month
    \/ a.year = b.year /\ a.month = b.month /\ a.day < b.day

LEMMA DaysAdvance ==
    ASSUME NEW a \in Dates, NEW b \in Dates, EarlierDay(a, b)
    PROVE  DayOf(a) < DayOf(b)
<1>1. /\ a.year \in Nat /\ a.month \in 1..12
      /\ a.day \in Nat /\ 1 <= a.day /\ a.day <= DaysInMonth(a.month, a.year)
  BY DateFields
<1>2. /\ b.year \in Nat /\ b.month \in 1..12
      /\ b.day \in Nat /\ 1 <= b.day
  BY DateFields
<1>3. /\ MonthStart(a.month, a.year) \in Nat
      /\ DaysInMonth(a.month, a.year) \in Nat
      /\ MonthStart(a.month, a.year) + DaysInMonth(a.month, a.year)
             <= YearStart(a.year + 1) - YearStart(a.year)
      /\ MonthStart(b.month, b.year) \in Nat
  BY <1>1, <1>2, MonthInYear
<1>4. YearStart(a.year) \in Int /\ YearStart(b.year) \in Int /\ YearStart(a.year + 1) \in Int
  BY <1>1, <1>2, YearLength
<1>5. CASE a.year < b.year
  <2>1. YearStart(a.year + 1) <= YearStart(b.year)
    BY <1>1, <1>2, <1>5, YearsAdvance
  <2> QED
    BY <1>1, <1>2, <1>3, <1>4, <2>1 DEF DayOf
<1>6. CASE a.year = b.year /\ a.month < b.month
  <2>1. MonthStart(a.month, a.year) + DaysInMonth(a.month, a.year) <= MonthStart(b.month, a.year)
    BY <1>1, <1>2, <1>6, MonthsAdvance
  <2> QED
    BY <1>1, <1>2, <1>3, <1>4, <1>6, <2>1 DEF DayOf
<1>7. CASE a.year = b.year /\ a.month = b.month /\ a.day < b.day
  BY <1>1, <1>2, <1>3, <1>4, <1>7 DEF DayOf
<1> QED
  BY <1>5, <1>6, <1>7 DEF EarlierDay

LEMMA EarlierIsEarlierMinute ==
    ASSUME NEW a \in Dates, NEW b \in Dates, Earlier(a, b)
    PROVE  MinuteOf(a) < MinuteOf(b)
<1>1. /\ DayOf(a) \in Int
      /\ DayOf(b) \in Int
      /\ MinuteOf(a) = 1440 * DayOf(a) + 60 * a.hour + a.min
      /\ MinuteOf(b) = 1440 * DayOf(b) + 60 * b.hour + b.min
  BY MinuteOfDate
<1>2. /\ a.hour \in 0..23 /\ a.min \in 0..59
      /\ b.hour \in 0..23 /\ b.min \in 0..59
  BY DateFields
<1>3. \/ DayOf(a) < DayOf(b)
      \/ DayOf(a) = DayOf(b) /\ a.hour < b.hour
      \/ DayOf(a) = DayOf(b) /\ a.hour = b.hour /\ a.min < b.min
  <2>1. CASE EarlierDay(a, b)
    BY <2>1, DaysAdvance
  <2>2. CASE ~EarlierDay(a, b)
    <3>1. /\ a.year = b.year /\ a.month = b.month /\ a.day = b.day
          /\ \/ a.hour < b.hour
             \/ a.hour = b.hour /\ a.min < b.min
      BY <2>2 DEF Earlier, EarlierDay
    <3> QED
      BY <3>1 DEF DayOf
  <2> QED
    BY <2>1, <2>2
<1> DEFINE D == DayOf(a)   h == a.hour   m == a.min
           E == DayOf(b)   i == b.hour   n == b.min
<1>4. /\ D \in Int /\ h \in 0..23 /\ m \in 0..59
      /\ E \in Int /\ i \in 0..23 /\ n \in 0..59
      /\ D < E \/ (D = E /\ h < i) \/ (D = E /\ h = i /\ m < n)
  BY <1>1, <1>2, <1>3
<1>5. MinuteOf(a) = 1440 * D + 60 * h + m /\ MinuteOf(b) = 1440 * E + 60 * i + n
  BY <1>1
<1> HIDE DEF D, h, m, E, i, n
<1>6. 1440 * D + 60 * h + m < 1440 * E + 60 * i + n
  <2>1. h <= 23 /\ m <= 59 /\ 0 <= i /\ 0 <= n
    BY <1>4
  <2>2. 0 <= h /\ 0 <= m
    BY <1>4
  <2>3. /\ D \in Int /\ h \in Int /\ m \in Int
        /\ E \in Int /\ i \in Int /\ n \in Int
    BY <1>4
  <2>4. CASE D < E
    BY <2>1, <2>2, <2>3, <2>4
  <2>5. CASE D = E /\ h < i
    BY <2>1, <2>3, <2>5
  <2>6. CASE D = E /\ h = i /\ m < n
    BY <2>3, <2>6
  <2> QED
    BY <1>4, <2>4, <2>5, <2>6
<1> QED
  BY <1>5, <1>6

LEMMA DatesOrderMinutes ==
    ASSUME NEW a \in Dates, NEW b \in Dates
    PROVE  /\ Earlier(a, b) <=> MinuteOf(a) < MinuteOf(b)
           /\ MinuteOf(a) = MinuteOf(b) => a = b
<1>1. Earlier(a, b) => MinuteOf(a) < MinuteOf(b)
  BY EarlierIsEarlierMinute
<1>2. Earlier(b, a) => MinuteOf(b) < MinuteOf(a)
  BY EarlierIsEarlierMinute
<1>3. MinuteOf(a) \in Int /\ MinuteOf(b) \in Int
  BY MinuteOfDate
<1>4. CASE ~Earlier(a, b) /\ ~Earlier(b, a)
  <2>1. a.year = b.year /\ a.month = b.month /\ a.day = b.day /\ a.hour = b.hour /\ a.min = b.min
    BY <1>4, DateFields DEF Earlier
  <2>2. a = b
    BY <2>1 DEF Dates
  <2> QED
    BY <1>3, <1>4, <2>2
<1> QED
  BY <1>1, <1>2, <1>3, <1>4

\* compare_dates and mktime order accepted dates alike: is_date_before_now and the
\* comparison of two timestamps never disagree over which date comes first.
THEOREM FieldsOrderMinutes ==
    \A a, b \in Accepted : Earlier(a, b) <=> MinuteOf(a) < MinuteOf(b)
BY AcceptedAreDates, DatesOrderMinutes

-----------------------------------------------------------------------------
(* The clock *)

\* The year of a day is found near the quotient by the mean length of a year.
LEMMA YearOfDay ==
    ASSUME NEW days \in Nat
    PROVE  \E y \in (1970 + (days \div 366))..(1970 + (days \div 365)) :
              YearStart(y) <= days /\ days < YearStart(y + 1)
<1> DEFINE g == 1970 + ((400 * days) \div 146097)
<1>1. g \in Nat /\ g >= 1970
  BY SMT
<1>2. YearStart(g - 1) <= days /\ days < YearStart(g + 2)
  BY SMTT(60) DEF YearStart
<1> HIDE DEF g
<1>3. PICK y \in {g - 1, g, g + 1} : YearStart(y) <= days /\ days < YearStart(y + 1)
  <2>1. /\ YearStart(g - 1) \in Int /\ YearStart(g) \in Int
        /\ YearStart(g + 1) \in Int /\ YearStart(g + 2) \in Int
    BY <1>1 DEF YearStart
  <2>2. g - 1 + 1 = g /\ g + 1 + 1 = g + 2
    BY <1>1
  <2>3. CASE days < YearStart(g)
    BY <1>2, <2>1, <2>2, <2>3
  <2>4. CASE YearStart(g) <= days /\ days < YearStart(g + 1)
    BY <2>4
  <2>5. CASE YearStart(g + 1) <= days
    BY <1>2, <2>1, <2>2, <2>5
  <2> QED
    BY <2>1, <2>3, <2>4, <2>5
<1>4. y \in Nat /\ y >= 1969
  BY <1>1
<1>5. y >= 1970
  BY <1>3, <1>4, SMTT(60) DEF YearStart
<1>6. 365 * (y - 1970) <= days /\ days < 366 * (y - 1969)
  BY <1>3, <1>5, <1>4, SMTT(60) DEF YearStart
<1>7. y \in (1970 + (days \div 366))..(1970 + (days \div 365))
  BY <1>4, <1>6, SMTT(60)
<1> QED
  BY <1>3, <1>7

LEMMA MonthOfDay ==
    ASSUME NEW y \in Nat, NEW r \in Nat, r < YearStart(y + 1) - YearStart(y)
    PROVE  /\ \E m \in 1..12 : /\ MonthStart(m, y) <= r
                               /\ m < 12 => r < MonthStart(m + 1, y)
           /\ \A m \in 1..12 : /\ MonthStart(m, y) <= r
                               /\ m < 12 => r < MonthStart(m + 1, y)
                 => r < MonthStart(m, y) + DaysInMonth(m, y)
<1>1. /\ MonthStart(1, y) = 0
      /\ \A m \in 1..12 : MonthStart(m, y) \in Nat /\ DaysInMonth(m, y) \in Nat
  BY MonthStartIs, MonthInYear
<1>2. \A m \in 1..11 : MonthStart(m + 1, y) = MonthStart(m, y) + DaysInMonth(m, y)
  BY MonthStartIs, SMTT(60) DEF DaysInMonth
<1>3. MonthStart(12, y) + DaysInMonth(12, y) = YearStart(y + 1) - YearStart(y)
  BY MonthStartIs, YearLength, SMTT(60) DEF DaysInMonth
<1>4. \E m \in 1..12 : /\ MonthStart(m, y) <= r
                       /\ m < 12 => r < MonthStart(m + 1, y)
  BY <1>1, SMTT(60)
<1> QED
  BY <1>1, <1>2, <1>3, <1>4

\* localtime gives a date that there is, and mktime takes it back to its minute.
LEMMA DateOfMinute ==
    ASSUME NEW minute \in Nat
    PROVE  DateOf(minute) \in Dates /\ MinuteOf(DateOf(minute)) = minute
<1> DEFINE days == minute \div 1440
           year == CHOOSE y \in (1970 + (days \div 366))..(1970 + (days \div 365)) :
                       YearStart(y) <= days /\ days < YearStart(y + 1)
           r == days - YearStart(year)
           month == CHOOSE m \in 1..12 :
                        /\ YearStart(year) + MonthStart(m, year) <= days
                        /\ m < 12 => days < YearStart(year) + MonthStart(m + 1, year)
           h == (minute % 1440) \div 60
           min == minute % 60
           d == [day |-> days - YearStart(year) - MonthStart(month, year) + 1,
                 month |-> month, year |-> year, hour |-> h, min |-> min]
<1>1. DateOf(minute) = d
  BY DEF DateOf
<1>2. days \in Nat /\ h \in 0..23 /\ min \in 0..59 /\ minute = 1440 * days + 60 * h + min
  BY SMTT(60)
<1> HIDE DEF days, h, min
<1>3. /\ year \in (1970 + (days \div 366))..(1970 + (days \div 365))
      /\ YearStart(year) <= days /\ days < YearStart(year + 1)
  <2>1. \E y \in (1970 + (days \div 366))..(1970 + (days \div 365)) :
           YearStart(y) <= days /\ days < YearStart(y + 1)
    BY <1>2, YearOfDay
  <2> QED
    BY <2>1
<1> HIDE DEF year
<1>4. year \in Nat
  BY <1>2, <1>3
<1>5. /\ YearStart(year) \in Int /\ YearStart(year + 1) \in Int
      /\ r \in Nat /\ r < YearStart(year + 1) - YearStart(year)
  BY <1>2, <1>3, <1>4, YearLength
<1>6. \A m \in 1..12 : MonthStart(m, year) \in Int /\ DaysInMonth(m, year) \in Nat
  <2> SUFFICES ASSUME NEW m \in 1..12
               PROVE  MonthStart(m, year) \in Int /\ DaysInMonth(m, year) \in Nat
    OBVIOUS
  <2>1. MonthStart(m, year) \in Nat
    BY <1>4, MonthInYear
  <2>2. DaysInMonth(m, year) \in Nat
    BY <1>4, MonthInYear
  <2> QED
    BY <2>1, <2>2
<1>7. \A m \in 1..12 :
         (/\ YearStart(year) + MonthStart(m, year) <= days
          /\ m < 12 => days < YearStart(year) + MonthStart(m + 1, year))
         <=> (MonthStart(m, year) <= r /\ (m < 12 => r < MonthStart(m + 1, year)))
  <2> SUFFICES ASSUME NEW m \in 1..12
               PROVE  (/\ YearStart(year) + MonthStart(m, year) <= days
                       /\ m < 12 => days < YearStart(year) + MonthStart(m + 1, year))
                      <=> (MonthStart(m, year) <= r /\ (m < 12 => r < MonthStart(m + 1, year)))
    OBVIOUS
  <2>1. MonthStart(m, year) \in Int /\ (m < 12 => MonthStart(m + 1, year) \in Int)
    BY <1>6
  <2> QED
    BY <1>2, <1>5, <2>1
<1>8. /\ month \in 1..12
      /\ YearStart(year) + MonthStart(month, year) <= days
      /\ month < 12 => days < YearStart(year) + MonthStart(month + 1, year)
  <2>1. \E m \in 1..12 : /\ YearStart(year) + MonthStart(m, year) <= days
                         /\ m < 12 => days < YearStart(year) + MonthStart(m + 1, year)
    BY <1>4, <1>5, <1>7, MonthOfDay
  <2> QED
    BY <2>1
<1> HIDE DEF month
<1>9. MonthStart(month, year) <= r /\ r < MonthStart(month, year) + DaysInMonth(month, year)
  BY <1>4, <1>5, <1>7, <1>8, MonthOfDay
<1> HIDE DEF r
<1>10. d \in Dates
  <2>1. MonthStart(month, year) \in Int /\ DaysInMonth(month, year) \in Nat
    BY <1>6, <1>8
  <2>2. d.day = r - MonthStart(month, year) + 1
    BY <1>2, <1>5, <2>1 DEF r
  <2>3. d.day \in Nat /\ 1 <= d.day /\ d.day <= DaysInMonth(month, year)
    BY <1>5, <1>9, <2>1, <2>2
  <2>4. d \in [day : Nat, month : Nat, year : Nat, hour : Nat, min : Nat]
    BY <1>2, <1>4, <1>8, <2>3
  <2>5. ValidateDatetimeRange(d)
    BY <1>2, <1>8, <2>1, <2>3 DEF ValidateDatetimeRange
  <2> QED
    BY <2>4, <2>5 DEF Dates
<1>11. DayOf(d) = days
  BY <1>2, <1>4, <1>5, <1>6, <1>8 DEF DayOf
<1>12. MinuteOf(d) = minute
  <2>1. MinuteOf(d) = 1440 * DayOf(d) + 60 * d.hour + d.min
    BY <1>10, MinuteOfDate
  <2> QED
    BY <1>2, <1>11, <2>1
<1> QED
  BY <1>1, <1>10, <1>12

LEMMA TodayIsDate ==
    ASSUME TypeOK
    PROVE  Today \in Dates /\ MinuteOf(Today) = now \div 60
<1>1. now \in Nat
  BY ClockAssumption DEF TypeOK, EventsTypeOK
<1>2. now \div 60 \in Nat
  BY <1>1
<1> QED
  BY <1>2, DateOfMinute DEF Today

\* Whatever the time and whatever date CRE accepts, is_date_before_now says by the
\* fields what counting minutes says.
THEOREM FieldsTellThePastAlways == Spec => []FieldsTellThePast
<1>1. TypeOK => FieldsTellThePast
  <2> SUFFICES ASSUME TypeOK, NEW d \in Accepted
               PROVE  Earlier(d, Today) <=> IsDateBeforeNow(MinuteOf(d))
    BY DEF FieldsTellThePast
  <2> QED
    BY TodayIsDate, AcceptedAreDates, DatesOrderMinutes DEF IsDateBeforeNow
<1> QED
  BY <1>1, TypeSafe, PTL

\* Every date that CRE accepts is the date the clock shows in exactly one minute.
THEOREM AcceptedDatesComeAlways == Spec => []AcceptedDatesCome
<1>1. TypeOK => AcceptedDatesCome
  <2> SUFFICES ASSUME TypeOK
               PROVE  /\ ValidateDatetimeRange(Today)
                      /\ \A d \in Accepted : d = Today <=> MinuteOf(d) = now \div 60
    BY DEF AcceptedDatesCome
  <2>1. ValidateDatetimeRange(Today)
    BY TodayIsDate DEF Dates
  <2>2. ASSUME NEW d \in Accepted
        PROVE  d = Today <=> MinuteOf(d) = now \div 60
    BY TodayIsDate, AcceptedAreDates, DatesOrderMinutes
  <2> QED
    BY <2>1, <2>2
<1> QED
  BY <1>1, TypeSafe, PTL
=============================================================================
