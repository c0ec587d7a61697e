------------------------------ MODULE Calendar ------------------------------
(***************************************************************************)
(* Days and dates.  The Worker converts between them in three places: the  *)
(* archive keys of events.rs, the metric windows and buckets of            *)
(* admin_resources/analytics_api.rs and the provider timestamps of         *)
(* webhook.rs, each with arithmetic of its own.  A walk through the days   *)
(* of the Gregorian calendar, kept by its rule, is the reference.          *)
(***************************************************************************)
EXTENDS Integers, Sequences

CONSTANT YWalk     \* the stretches walked: [day, date, weekday, length]

VARIABLES today, date, weekday, daysLeft

calendarVars == <<today, date, weekday, daysLeft>>

Quot(a, b) == a \div b                      \* div_euclid, and / where a >= 0

-----------------------------------------------------------------------------
(* events.rs *)

YearOfEra(doe) == Quot(doe - Quot(doe, 1460) + Quot(doe, 36524) - Quot(doe, 146096), 365)

DayOfYear(doe, yoe) == doe - (365 * yoe + Quot(yoe, 4) - Quot(yoe, 100))

Unshift(year, doy) ==
  LET mp == Quot(5 * doy + 2, 153)
      month == IF mp < 10 THEN mp + 3 ELSE mp - 9
  IN [y |-> IF month <= 2 THEN year + 1 ELSE year, m |-> month,
      d |-> doy - Quot(153 * mp + 2, 5) + 1]

NoDate == [y |-> 0, m |-> 0, d |-> 0]

(* civil_from_days: none outside the years 1970 to 9999 *)
ArchiveCivil(days) ==
  LET n == days + 719468
      era == IF n >= 0 THEN Quot(n, 146097) ELSE -Quot(146096 - n, 146097)
      yoe == YearOfEra(n - era * 146097)
      found == Unshift(yoe + era * 400, DayOfYear(n - era * 146097, yoe))
  IN IF found.y \in 1970..9999 THEN found ELSE NoDate

-----------------------------------------------------------------------------
(* analytics_api.rs *)

CivilFromDays(days) ==
  LET n == days + 719468
      era == Quot(n, 146097)
      yoe == YearOfEra(n - era * 146097)
  IN Unshift(yoe + era * 400, DayOfYear(n - era * 146097, yoe))

DaysFromCivil(y, m, d) ==
  LET year == IF m <= 2 THEN y - 1 ELSE y
      era == Quot(year, 400)
      yoe == year - era * 400
      doy == Quot(153 * ((m + 9) % 12) + 2, 5) + d - 1
  IN era * 146097 + yoe * 365 + Quot(yoe, 4) - Quot(yoe, 100) + doy - 719468

DaysInMonth(y, m) ==
  CASE m \in {1, 3, 5, 7, 8, 10, 12} -> 31 [] m \in {4, 6, 9, 11} -> 30
    [] OTHER -> IF y % 4 = 0 /\ (y % 100 # 0 \/ y % 400 = 0) THEN 29 ELSE 28

NoDay == -1
(* parse_date on the numbers of YYYY-MM-DD *)
ParseDate(y, m, d) ==
  IF y \in 1970..2100 /\ m \in 1..12 /\ d \in 1..DaysInMonth(y, m)
  THEN DaysFromCivil(y, m, d) ELSE NoDay

BucketStart(days, granularity) ==
  CASE granularity = "day" -> days
    [] granularity = "week" -> days - ((days + 3) % 7)
    [] granularity = "month" -> DaysFromCivil(CivilFromDays(days).y, CivilFromDays(days).m, 1)

-----------------------------------------------------------------------------
(* webhook.rs *)

IsLeapYear(y) == y % 4 = 0 /\ (y % 100 # 0 \/ y % 400 = 0)
HookDaysInMonth(y, m) ==
  IF m = 2 THEN IF IsLeapYear(y) THEN 29 ELSE 28 ELSE IF m \in {4, 6, 9, 11} THEN 30 ELSE 31

HookDays(y, m, d) ==
  LET year == y - (IF m <= 2 THEN 1 ELSE 0)
      era == IF year >= 0 THEN Quot(year, 400) ELSE -Quot(399 - year, 400)
      yoe == year - era * 400
      doy == Quot(153 * (m + (IF m > 2 THEN -3 ELSE 9)) + 2, 5) + d - 1
  IN era * 146097 + yoe * 365 + Quot(yoe, 4) - Quot(yoe, 100) + doy - 719468

NoTime == <<NoDay, 0>>
ParseInstantAnyDay(y, m, d, hour, minute, second) ==
  IF m \in 1..12 /\ d \in 1..31 /\ hour <= 23 /\ minute <= 59 /\ second <= 59
  THEN <<HookDays(y, m, d), hour * 3600 + minute * 60 + second>> ELSE NoTime
(* parse_rfc3339 on the numbers of its fields.  The answer, one number of  *)
(* seconds in the code, is kept as days and the rest, within TLC's range.  *)
ParseInstant(y, m, d, hour, minute, second) ==
  IF /\ m \in 1..12 /\ d # 0 /\ d <= HookDaysInMonth(y, m)
     /\ hour <= 23 /\ minute <= 59 /\ second <= 59
  THEN <<HookDays(y, m, d), hour * 3600 + minute * 60 + second>> ELSE NoTime

-----------------------------------------------------------------------------
(* The calendar *)

MonthLength(y, m) ==
  LET plain == <<31, 28, 31, 30, 31, 30, 31, 31, 30, 31, 30, 31>>
      leap == IF y % 100 = 0 THEN y % 400 = 0 ELSE y % 4 = 0
  IN IF m = 2 /\ leap THEN 29 ELSE plain[m]

Tomorrow(at) ==
  IF at.d < MonthLength(at.y, at.m) THEN [at EXCEPT !.d = @ + 1]
  ELSE IF at.m < 12 THEN [y |-> at.y, m |-> at.m + 1, d |-> 1]
  ELSE [y |-> at.y + 1, m |-> 1, d |-> 1]

CalendarInit ==
  \E w \in YWalk : /\ today = w.day /\ date = w.date /\ weekday = w.weekday
                   /\ daysLeft = w.length

(* weekday counts from Monday as 1 *)
CalendarNext ==
  /\ daysLeft > 0
  /\ today' = today + 1
  /\ date' = Tomorrow(date)
  /\ weekday' = (weekday % 7) + 1
  /\ daysLeft' = daysLeft - 1

-----------------------------------------------------------------------------
(* Properties *)

(* The day of an archive key is the calendar's date, up to the last day of *)
(* 9999 and none after it (events.rs), and analytics writes the same one.  *)
ArchiveDayIsDate ==
  /\ ArchiveCivil(today) = IF date.y <= 9999 THEN date ELSE NoDate
  /\ CivilFromDays(today) = date

(* parse_date accepts the dates of the calendar from 1970 to 2100 and no   *)
(* other, and returns the day they name: no day of a metric window is lost *)
(* or shifted at a month's end, a leap day or the year 2100.               *)
DatesParse ==
  /\ ParseDate(date.y, date.m, date.d) = IF date.y <= 2100 THEN today ELSE NoDay
  /\ \A d \in {0, 1} \cup 28..32 : ParseDate(date.y, date.m, d) # NoDay
       <=> d \in 1..MonthLength(date.y, date.m) /\ date.y <= 2100

(* A provider's timestamp is accepted exactly when it names an instant of  *)
(* the calendar, and counts its days as the calendar does (parse_rfc3339). *)
InstantsParse ==
  /\ ParseInstant(date.y, date.m, date.d, 23, 59, 59) = <<today, 86399>>
  /\ \A d \in {0, 1} \cup 28..32 : ParseInstant(date.y, date.m, d, 0, 0, 0) # NoTime
       <=> d \in 1..MonthLength(date.y, date.m)
  /\ \A t \in {<<24, 0, 0>>, <<0, 60, 0>>, <<0, 0, 60>>} :
       ParseInstant(date.y, date.m, date.d, t[1], t[2], t[3]) = NoTime

(* Buckets of a week begin on Monday, of a month on its first, so that a   *)
(* metric's buckets neither overlap nor leave a day out (bucket_start).    *)
BucketsAreIntervals ==
  /\ BucketStart(today, "week") = today - (weekday - 1)
  /\ BucketStart(today, "month") = today - (date.d - 1)
  /\ \A g \in {"day", "week", "month"} : BucketStart(BucketStart(today, g), g) = BucketStart(today, g)

(* The three conversions of dates agree with the Gregorian calendar, in    *)
(* both directions, and a bucket of a query is an interval of days         *)
(* (events.rs, analytics_api.rs).                                          *)
DatesExact == ArchiveDayIsDate /\ DatesParse /\ InstantsParse /\ BucketsAreIntervals
=============================================================================
