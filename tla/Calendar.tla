------------------------------ MODULE Calendar -------------------------------
(***************************************************************************)
(* ascdate: from seconds since 1970 to a date, with the day of the week    *)
(* and daylight saving time.  Each value is a function of the earlier ones *)
(* as in the code, whose loops are searches here: the year is the one      *)
(* whose seconds the time falls into, and the month likewise.              *)
(***************************************************************************)
EXTENDS Integers, FiniteSets

CONSTANTS
    SECPERDY,       \* seconds in a day
    SECPERHR,       \* seconds in an hour
    SECPERMN,       \* seconds in a minute
    Times,          \* times that ascdate is called with
    Modes           \* values of Date.dt_daylight: "on", "off" or "auto"

ASSUME CalendarAssumption ==
    /\ {SECPERMN, SECPERHR} \subseteq Nat \ {0} /\ SECPERDY = 24 * SECPERHR
    /\ Times \subseteq Nat /\ Modes \subseteq {"on", "off", "auto"}
    /\ \A t \in Times : t \div SECPERDY < 130 * 365 + 32     \* before 2100

VARIABLES
    time,           \* the argument
    mode,           \* Date.dt_daylight
    text            \* what the string says, empty before the call

dateVars == <<time, mode, text>>

(* isleap, a macro outside src/, right for 1970-2099 *)
IsLeap(year) == year % 4 = 0

Years == 1970..2099
Length(year) == IF IsLeap(year) THEN 366 ELSE 365

(* Date.dt_msize, for months 0 to 11 *)
MonthSize == [m \in 0..11 |-> CASE m = 1 -> 28 [] m \in {3, 5, 8, 10} -> 30 [] OTHER -> 31]

(* How long a month is for the loop over the months. *)
DaysIn(year, m) == IF m = 1 /\ IsLeap(year) THEN MonthSize[m] + 1 ELSE MonthSize[m]

(* Days before a year, and before a month in its year. *)
DaysBefore[year \in Years \cup {2100}] ==
    IF year = 1970 THEN 0 ELSE DaysBefore[year - 1] + Length(year - 1)

MonthStart(year) ==
    LET start[m \in 0..12] == IF m = 0 THEN 0 ELSE start[m - 1] + DaysIn(year, m - 1)
    IN  start

YearOf(now) ==
    CHOOSE year \in Years : DaysBefore[year] <= now \div SECPERDY
                            /\ now \div SECPERDY < DaysBefore[year + 1]

MonthOf(year, days) ==
    CHOOSE m \in 0..11 : MonthStart(year)[m] <= days /\ days < MonthStart(year)[m + 1]

(* "Number of leap years prior to current year" *)
LeapYears(year) == (year - 1969) \div 4

(* Day of the week for January 1, and so many days later: 0 is a Sunday. *)
Weekday(year, days) == (4 + (year - 1970) + LeapYears(year) + days) % 7

-----------------------------------------------------------------------------
(* Day of the week for March 1 and November 1. *)
Mar1(year) == (Weekday(year, 0) + MonthSize[0] + MonthSize[1] + (IF IsLeap(year) THEN 1 ELSE 0)) % 7
Nov1(year) == (Weekday(year, 0) + MonthStart(year)[10]) % 7

(* A wrong rule: March 1 is taken for a day of the first week, be it a Sunday. *)
SecondSundayMissed(year) == 15 - Mar1(year)

(* The second Sunday in March, the first in November. *)
Marss(year) == IF Mar1(year) = 0 THEN 8 ELSE 15 - Mar1(year)
Novfs(year) == IF Nov1(year) = 0 THEN 1 ELSE 8 - Nov1(year)

(* "Should we adjust for DST?" *)
Dst(daylight, year, month, day, hour) ==
    \/ daylight = "on"
    \/ /\ daylight = "auto"
       /\ \/ month \in 3..9
          \/ month = 2 /\ (day > Marss(year) \/ (day = Marss(year) /\ hour >= 2))
          \/ month = 10 /\ ~(day > Novfs(year) \/ (day = Novfs(year) /\ hour >= 1))

(* A wrong move: an hour ahead, of the same day. *)
MoveAheadSameDay(d) == [d EXCEPT !.hour = (@ + 1) % 24]

(* "Move ahead one hour", to the next day and the next month if need be. *)
MoveAhead(d) ==
    IF d.hour < 23 THEN [d EXCEPT !.hour = @ + 1]
    ELSE IF d.day < MonthSize[d.month] THEN [d EXCEPT !.hour = 0, !.day = @ + 1]
    ELSE [d EXCEPT !.hour = 0, !.day = 1, !.month = @ + 1]

(* The date and time of day, and whether it is to be moved ahead *)
StandardDate(now, daylight) ==
    LET year  == YearOf(now)
        days  == now \div SECPERDY - DaysBefore[year]
        month == MonthOf(year, days)
        day   == days - MonthStart(year)[month] + 1
        rest  == now % SECPERDY
        hour  == rest \div SECPERHR
    IN  [year |-> year, month |-> month, day |-> day, hour |-> hour,
         minute |-> (rest % SECPERHR) \div SECPERMN, second |-> (rest % SECPERHR) % SECPERMN,
         weekday |-> Weekday(year, days), dst |-> Dst(daylight, year, month, day, hour)]

(* A wrong ascdate: moves ahead in winter, too. *)
AscDateAhead(now, daylight) == MoveAhead(StandardDate(now, daylight))

(* ascdate *)
AscDate(now, daylight) ==
    LET d == StandardDate(now, daylight) IN IF d.dst THEN MoveAhead(d) ELSE d

NoText == [dst |-> FALSE]

DateInit == time = 0 /\ mode = "off" /\ text = NoText
DateNext ==
    /\ text = NoText
    /\ time' \in Times /\ mode' \in Modes /\ text' = AscDate(time', mode')

DateSpec == DateInit /\ [][DateNext]_dateVars

-----------------------------------------------------------------------------
(* The Gregorian calendar by its own rule, and from the other side: the days
   from January 1, 1970, a Thursday, to a date with months from 1 to 12. *)
Leap(y) == y % 4 = 0 /\ (y % 100 # 0 \/ y % 400 = 0)
MonthLength(y, m) ==
    CASE m = 2 -> IF Leap(y) THEN 29 ELSE 28 [] m \in {4, 6, 9, 11} -> 30 [] OTHER -> 31
LeapDays(y) == y \div 4 - y \div 100 + y \div 400

(* The year is taken to begin in March, so that its leap day is its last. *)
DayNumber(y, m, d) ==
    LET year  == IF m > 2 THEN y ELSE y - 1
        month == (m + 9) % 12
    IN  365 * (year - 1970) + LeapDays(year) - LeapDays(1969)
            + (153 * month + 2) \div 5 + 58 + d
DayOfWeek(y, m, d) == (4 + DayNumber(y, m, d)) % 7

(* A text that names a day that there is, its seconds since 1970, and whether
   a text says that it is t. *)
Exists(d) == d.month \in 0..11 /\ d.day \in 1..MonthLength(d.year, d.month + 1) /\ d.hour \in 0..23
SecondsOf(d) ==
    DayNumber(d.year, d.month + 1, d.day) * SECPERDY
        + d.hour * SECPERHR + d.minute * SECPERMN + d.second
Says(t) == Exists(text) /\ SecondsOf(text) = t
WeekdayOf(t) == (4 + t \div SECPERDY) % 7

(* ascdate gives every second of every year, leap years included, its date,
   its time and its day of the week, when daylight saving is off. *)
StandardTimeRight ==
    text # NoText /\ ~text.dst => Says(time) /\ text.weekday = WeekdayOf(time)

(* Where the hour that is added leads into the next day, and into a day that
   ascdate does not reckon with: "DST does not occur during the year boundary". *)
LastHour == time % SECPERDY >= SECPERDY - SECPERHR
IntoUnforeseen ==
    LastHour /\ \E y \in Years \cup {2100} :
        (time + SECPERHR) \div SECPERDY
            \in {DayNumber(y, 1, 1)} \cup (IF Leap(y) THEN {DayNumber(y, 2, 29)} ELSE {})

(* With daylight saving, ascdate gives the date and the time an hour ahead, save
   of January 1 and February 29, which only "on" can lead into, and its day of the
   week, save in the first hour of a day. *)
DaylightTimeRight ==
    text # NoText /\ text.dst =>
        /\ mode = "auto" \/ ~IntoUnforeseen => Says(time + SECPERHR)
        /\ ~LastHour => text.weekday = WeekdayOf(time + SECPERHR)

(* "DST is on between 2:00 AM the second Sunday of March and 2:00 AM the first
   sunday in November": the latter is 1:00 AM before the hour is added. *)
FirstSunday(y, m) == 1 + ((7 - DayOfWeek(y, m, 1)) % 7)
DaylightPeriod ==
    text # NoText /\ mode = "auto" =>
        (text.dst <=>
            /\ time >= DayNumber(text.year, 3, 7 + FirstSunday(text.year, 3)) * SECPERDY + 2 * SECPERHR
            /\ time < DayNumber(text.year, 11, FirstSunday(text.year, 11)) * SECPERDY + SECPERHR)
=============================================================================
