------------------------------ MODULE Calendar ------------------------------
(***************************************************************************)
(* Market hours (packages/core/src/market-hours.ts): the ten full-day      *)
(* closures of the US exchanges and the regular session, as the code       *)
(* computes them, checked day by day against the rules they stand for.     *)
(*                                                                         *)
(* A date is <<year, month, day>>, which the code writes as a key; minutes *)
(* count from midnight in New York, whose clock the host's time-zone       *)
(* database gives (newYorkParts).                                          *)
(***************************************************************************)
EXTENDS Integers, Sequences

CONSTANTS
  FirstDay,       \* the day the walk starts, a record like today
  LastYear,       \* bound: the year the walk ends
  SessionMinutes  \* times of day looked at

VARIABLE today    \* wall-clock date in New York: year, month, day, weekday

\* Date.UTC takes a year below 100 for one of the twentieth century.
Years == {y \in Nat : y >= 100}

-----------------------------------------------------------------------------
(* The proleptic Gregorian calendar of Date.UTC and getUTCDay. *)

IsLeap(y) == y % 4 = 0 /\ (y % 100 # 0 \/ y % 400 = 0)

DaysInMonth(y, m) ==
  CASE m = 2 -> IF IsLeap(y) THEN 29 ELSE 28
    [] m \in {4, 6, 9, 11} -> 30
    [] OTHER -> 31

\* Sunday is 0: the days since a Sunday, from the day of the year.
GetUTCDay(y, m, d) ==
  LET before == <<0, 31, 59, 90, 120, 151, 181, 212, 243, 273, 304, 334>>[m]
      leap   == IF m > 2 /\ IsLeap(y) THEN 1 ELSE 0
      p      == y - 1
  IN (p + p \div 4 - p \div 100 + p \div 400 + before + leap + d) % 7

IsDate(t) ==
  /\ t \in [year : Years, month : 1 .. 12, day : 1 .. 31, weekday : 0 .. 6]
  /\ t.day <= DaysInMonth(t.year, t.month)
  /\ t.weekday = GetUTCDay(t.year, t.month, t.day)

ASSUME CalendarAssumption == IsDate(FirstDay) /\ SessionMinutes \subseteq Nat

-----------------------------------------------------------------------------
(* The closures of one year. *)

\* Mutant of NthWeekdayOfMonth: the month is taken to start a day later.
NthWeekdayLate(year, month, weekday, n) ==
  1 + ((weekday - GetUTCDay(year, month, 2) + 7) % 7) + (n - 1) * 7

NthWeekdayOfMonth(year, month, weekday, n) ==
  1 + ((weekday - GetUTCDay(year, month, 1) + 7) % 7) + (n - 1) * 7

LastWeekdayOfMonth(year, month, weekday) ==
  LET days == DaysInMonth(year, month)
  IN days - ((GetUTCDay(year, month, days) - weekday + 7) % 7)

\* The anonymous Gregorian computus: <<month, day>>.
EasterSunday(year) ==
  LET a == year % 19
      b == year \div 100
      c == year % 100
      g == (b - (b + 8) \div 25 + 1) \div 3
      h == (19 * a + b - b \div 4 - g + 15) % 30
      l == (32 + 2 * (b % 4) + 2 * (c \div 4) - h - (c % 4)) % 7
      n == h + l - 7 * ((a + 11 * h + 22 * l) \div 451) + 114
  IN <<n \div 31, (n % 31) + 1>>

\* A holiday on a Saturday is kept on the Friday, on a Sunday on the Monday.
\* The result may be day 0, which is the key of no date.
ObservedDay(year, month, day) ==
  CASE GetUTCDay(year, month, day) = 6 -> day - 1
    [] GetUTCDay(year, month, day) = 0 -> day + 1
    [] OTHER -> day

\* Two days before Easter, in March when Easter is one of the first of April.
GoodFriday(year) ==
  LET e == EasterSunday(year)
  IN IF e[2] > 2 THEN <<year, e[1], e[2] - 2>> ELSE <<year, 3, 29 + e[2]>>

NyseClosedDates(year) ==
  {<<year, 1, ObservedDay(year, 1, 1)>>,            \* New Year's Day
   <<year, 1, NthWeekdayOfMonth(year, 1, 1, 3)>>,   \* Martin Luther King
   <<year, 2, NthWeekdayOfMonth(year, 2, 1, 3)>>,   \* Washington
   GoodFriday(year),
   <<year, 5, LastWeekdayOfMonth(year, 5, 1)>>,     \* Memorial Day
   <<year, 6, ObservedDay(year, 6, 19)>>,           \* Juneteenth
   <<year, 7, ObservedDay(year, 7, 4)>>,            \* Independence Day
   <<year, 9, NthWeekdayOfMonth(year, 9, 1, 1)>>,   \* Labor Day
   <<year, 11, NthWeekdayOfMonth(year, 11, 4, 4)>>, \* Thanksgiving
   <<year, 12, ObservedDay(year, 12, 25)>>}         \* Christmas
    \cup (IF GetUTCDay(year + 1, 1, 1) = 6 THEN {<<year, 12, 31>>} ELSE {})

IsUsRegularSessionOpen(t, minutes) ==
  /\ t.weekday \notin {0, 6}
  /\ <<t.year, t.month, t.day>> \notin NyseClosedDates(t.year)
  /\ 9 * 60 + 30 <= minutes /\ minutes < 16 * 60

\* Only stocks and funds listed on a US venue get a verdict.
UnderlyingMarketState(assetType, usVenue, t, minutes) ==
  IF assetType \in {"stock", "etf"} /\ usVenue
  THEN IF IsUsRegularSessionOpen(t, minutes) THEN "open" ELSE "closed"
  ELSE "unknown"

-----------------------------------------------------------------------------
Tomorrow(t) ==
  LET wd == (t.weekday + 1) % 7 IN
  CASE t.day < DaysInMonth(t.year, t.month) -> [t EXCEPT !.day = @ + 1, !.weekday = wd]
    [] t.month < 12 /\ t.day = DaysInMonth(t.year, t.month) ->
         [t EXCEPT !.day = 1, !.month = @ + 1, !.weekday = wd]
    [] OTHER -> [year |-> t.year + 1, month |-> 1, day |-> 1, weekday |-> wd]

DayPasses == Tomorrow(today).year <= LastYear /\ today' = Tomorrow(today)

Walk == today = FirstDay /\ [][DayPasses]_today

-----------------------------------------------------------------------------
(* The rules the closures stand for, without the arithmetic of the code:   *)
(* a holiday is recognised on the day, by its weekday and its neighbours.  *)

FixedHolidays == {<<1, 1>>, <<6, 19>>, <<7, 4>>, <<12, 25>>}

Nominal(t) == <<t.month, t.day>> \in FixedHolidays

\* The day before t, as far as it matters: t is a Monday after a holiday.
MondayAfter(t) ==
  /\ t.weekday = 1
  /\ \E h \in FixedHolidays : h[1] = t.month /\ h[2] + 1 = t.day

FridayBefore(t) == t.weekday = 5 /\ Nominal(Tomorrow(t))

\* The n-th of a weekday falls on one of seven days of the month.
WeekdayHoliday(t) ==
  \/ t.weekday = 1 /\ t.month \in {1, 2} /\ t.day \in 15 .. 21
  \/ t.weekday = 1 /\ t.month = 5 /\ t.day \in 25 .. 31
  \/ t.weekday = 1 /\ t.month = 9 /\ t.day \in 1 .. 7
  \/ t.weekday = 4 /\ t.month = 11 /\ t.day \in 22 .. 28

\* The day in March (above 31: in April) of the full moon Easter follows.
PaschalMoon(year) ==
  LET golden  == (year % 19) + 1
      century == year \div 100 + 1
      solar   == (3 * century) \div 4 - 12
      lunar   == (8 * century + 5) \div 25 - 5
      raw     == (11 * golden + 20 + lunar - solar) % 30
      epact   == IF raw = 24 \/ (raw = 25 /\ golden > 11) THEN raw + 1 ELSE raw
  IN IF 44 - epact < 21 THEN 74 - epact ELSE 44 - epact

\* Good Friday: two days later it is the first Sunday after that moon.
EasterFriday(t) ==
  LET dayOfMarch == IF t.month = 3 THEN t.day ELSE 31 + t.day
  IN /\ t.weekday = 5 /\ t.month \in {3, 4}
     /\ dayOfMarch + 2 - PaschalMoon(t.year) \in 1 .. 7

TradingDay(t) ==
  /\ t.weekday \in 1 .. 5
  /\ ~(Nominal(t) \/ MondayAfter(t) \/ FridayBefore(t)
         \/ WeekdayHoliday(t) \/ EasterFriday(t))

\* On every day of the walk the session is open exactly in the regular hours
\* of a day that the rules make a trading day: no closure is lost or falls on
\* another day when a holiday meets a weekend, a month or a year.
SessionFollowsRules ==
  \A minutes \in SessionMinutes :
    UnderlyingMarketState("etf", TRUE, today, minutes) = "open"
      <=> TradingDay(today) /\ minutes \in 570 .. 959
=============================================================================
