--------------------------- MODULE MarketSession ---------------------------
(***************************************************************************)
(* When the regular session is open (execution/market_session.py): the     *)
(* civil calendar, daylight saving, the holidays and early closes by rule, *)
(* and the verdict on an instant.                                          *)
(*                                                                         *)
(* A day is the number of days since 1 January 2000, a Saturday; an        *)
(* instant is a number of half hours of UTC since its midnight.  Every     *)
(* boundary of the code falls on a half hour, so a half hour has one       *)
(* verdict.                                                                *)
(***************************************************************************)
EXTENDS Integers, FiniteSets

PINNED_SESSION_YEARS == 2026..2028

Years == 2024..2030        \* the years the models reach

HalfHours == 48            \* of a day
EST == -10
EDT == -8
REGULAR_OPEN == 19
REGULAR_CLOSE == 32
EARLY_CLOSE == 26

SessionStatuses ==
  {"open", "before_open", "after_close", "weekend", "holiday", "unsupported_calendar"}

(***************************************************************************)
(* The civil calendar (datetime.date).                                     *)
(***************************************************************************)
IsLeap(y) == y % 4 = 0 /\ (y % 100 # 0 \/ y % 400 = 0)

MonthLength(y, m) ==
  CASE m = 2 -> IF IsLeap(y) THEN 29 ELSE 28
    [] m \in {4, 6, 9, 11} -> 30
    [] OTHER -> 31

\* _days_before_year, counted from that of 2000.
NewYear ==
  [y \in Years |-> LET p == y - 1
                  IN 365 * (y - 2000) + p \div 4 - p \div 100 + p \div 400 - 484]

\* _DAYS_BEFORE_MONTH.
DaysBeforeMonth == <<0, 31, 59, 90, 120, 151, 181, 212, 243, 273, 304, 334>>

Date(y, m, d) == NewYear[y] + DaysBeforeMonth[m] + (IF m > 2 /\ IsLeap(y) THEN 1 ELSE 0) + d - 1

YearOf(day) == CHOOSE y \in Years : NewYear[y] <= day /\ day < NewYear[y] + 365 + (IF IsLeap(y) THEN 1 ELSE 0)

Weekday(day) == (day + 5) % 7      \* Monday is 0

(***************************************************************************)
(* Recurring dates.                                                        *)
(***************************************************************************)
NthWeekday(y, m, weekday, n) ==
  LET first == Date(y, m, 1)
  IN first + ((weekday - Weekday(first)) % 7) + 7 * (n - 1)

LastWeekday(y, m, weekday) ==
  LET last == Date(y, m, MonthLength(y, m))
  IN last - ((Weekday(last) - weekday) % 7)

Easter(y) ==
  LET a == y % 19
      b == y \div 100
      c == y % 100
      d == b \div 4
      e == b % 4
      f == (b + 8) \div 25
      g == (b - f + 1) \div 3
      h == (19 * a + b - d - g + 15) % 30
      i == c \div 4
      k == c % 4
      lu == (32 + 2 * e + 2 * i - h - k) % 7
      m == (a + 11 * h + 22 * lu) \div 451
      n == h + lu - 7 * m + 114
  IN Date(y, n \div 31, (n % 31) + 1)

Observed(day) ==
  CASE Weekday(day) = 5 -> day - 1
    [] Weekday(day) = 6 -> day + 1
    [] OTHER -> day

Thanksgiving(y) == NthWeekday(y, 11, 3, 4)

\* market_holidays; a New Year's Day on a Saturday is not observed.
HolidaysOf(y) ==
  LET newYear == Date(y, 1, 1)
  IN (IF Weekday(newYear) = 5 THEN {} ELSE {Observed(newYear)})
       \cup {NthWeekday(y, 1, 0, 3), NthWeekday(y, 2, 0, 3), Easter(y) - 2, LastWeekday(y, 5, 0),
             Observed(Date(y, 6, 19)), Observed(Date(y, 7, 4)), NthWeekday(y, 9, 0, 1),
             Thanksgiving(y), Observed(Date(y, 12, 25))}

MarketHolidays == [y \in Years |-> HolidaysOf(y)]

\* early_closes.
EarlyCloses ==
  [y \in Years |->
     {d \in {Thanksgiving(y) + 1, Date(y, 12, 24), Date(y, 7, 3)} :
        Weekday(d) < 5 /\ d \notin MarketHolidays[y]}]

IsTradingDay(day) == Weekday(day) < 5 /\ day \notin MarketHolidays[YearOf(day)]

\* session_close, of a trading day.
SessionClose(day) == IF day \in EarlyCloses[YearOf(day)] THEN EARLY_CLOSE ELSE REGULAR_CLOSE

(***************************************************************************)
(* Instants.                                                               *)
(***************************************************************************)
UtcDate(instant) == instant \div HalfHours

\* _dst_bounds, as instants: two o'clock standard and two o'clock daylight
\* time.
DstStart == [y \in Years |-> HalfHours * NthWeekday(y, 3, 6, 2) + 4 - EST]
DstEnd == [y \in Years |-> HalfHours * NthWeekday(y, 11, 6, 1) + 4 - EDT]

\* to_eastern: the wall clock, as half hours since the same midnight.
ToEastern(instant) ==
  LET y == YearOf(UtcDate(instant))
  IN instant + (IF DstStart[y] <= instant /\ instant < DstEnd[y] THEN EDT ELSE EST)

MarketDate(instant) == ToEastern(instant) \div HalfHours

\* Mutant: no session closes early.
SessionStatus_FullDays(instant) ==
  LET day == MarketDate(instant)
      time == ToEastern(instant) % HalfHours
  IN CASE YearOf(day) \notin PINNED_SESSION_YEARS -> "unsupported_calendar"
       [] Weekday(day) >= 5 -> "weekend"
       [] day \in MarketHolidays[YearOf(day)] -> "holiday"
       [] time < REGULAR_OPEN -> "before_open"
       [] time >= REGULAR_CLOSE -> "after_close"
       [] OTHER -> "open"

SessionStatus(instant) ==
  LET day == MarketDate(instant)
      time == ToEastern(instant) % HalfHours
  IN CASE YearOf(day) \notin PINNED_SESSION_YEARS -> "unsupported_calendar"
       [] Weekday(day) >= 5 -> "weekend"
       [] day \in MarketHolidays[YearOf(day)] -> "holiday"
       [] time < REGULAR_OPEN -> "before_open"
       [] time >= SessionClose(day) -> "after_close"
       [] OTHER -> "open"
=============================================================================
