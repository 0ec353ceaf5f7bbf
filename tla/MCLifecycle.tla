---------------------------- MODULE MCLifecycle ----------------------------
(* The lifecycle of events, as in MCServer, at the turn of a February with   *)
(* the dates of Calendar: the one has a date as the number of a minute, the  *)
(* other says that it is one.                                                *)
EXTENDS MCServer, Calendar

\* What get_current_datetime writes.
Today == DateOf(now \div 60)

\* is_date_before_now compares the fields of a date with those of the clock: of every
\* date that CRE accepts it says, at any time, what counting minutes says.
FieldsTellThePast ==
    LET today == Today
    IN  \A d \in Accepted : Earlier(d, today) <=> IsDateBeforeNow(MinuteOf(d))

\* A date that CRE accepts is shown as it was given: when its minute comes the clock
\* shows that date and no other.  mktime takes 30 February for a day of March, so if
\* validate_datetime_range let it through, START would name a date that never comes.
AcceptedDatesCome ==
    LET today == Today
    IN  /\ ValidateDatetimeRange(today)
        /\ \A d \in Accepted : d = today <=> MinuteOf(d) = now \div 60
=============================================================================
