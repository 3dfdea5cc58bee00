------------------------------ MODULE Calendar ------------------------------
(***************************************************************************)
(* Dates of the proleptic Gregorian calendar, as the engines of the        *)
(* guards, of consumption information and of depreciation use them: a day  *)
(* that the target month does not have is its last day.                    *)
(***************************************************************************)
EXTENDS Integers, FiniteSetsExt

Date(y, m, d) == [y |-> y, m |-> m, d |-> d]

LeapYear(y) == y % 4 = 0 /\ (y % 100 # 0 \/ y % 400 = 0)

LastDay(y, m) ==
    CASE m = 2 -> IF LeapYear(y) THEN 29 ELSE 28
      [] m \in {4, 6, 9, 11} -> 30
      [] OTHER -> 31

\* The days there are.
Days == {x \in [y : Nat \ {0}, m : 1 .. 12, d : 1 .. 31] : x.d <= LastDay(x.y, x.m)}

AddMonths(x, n) ==
    LET i == 12 * x.y + x.m - 1 + n
        y == i \div 12
        m == (i % 12) + 1
    IN  Date(y, m, Min({x.d, LastDay(y, m)}))

MonthEnd(x) == Date(x.y, x.m, LastDay(x.y, x.m))

MonthStart(x) == Date(x.y, x.m, 1)

\* The days of a year before one of its months.
DaysBefore(y, m) ==
    <<0, 31, 59, 90, 120, 151, 181, 212, 243, 273, 304, 334>>[m]
        + (IF m > 2 /\ LeapYear(y) THEN 1 ELSE 0)

\* date.toordinal(): day 1 is 1 January of the year 1.
Ordinal(x) ==
    365 * (x.y - 1) + (x.y - 1) \div 4 - (x.y - 1) \div 100 + (x.y - 1) \div 400
        + DaysBefore(x.y, x.m) + x.d

\* A day some days later, at most a year.
Plus(x, n) ==
    CHOOSE y \in [y : {x.y, x.y + 1}, m : 1 .. 12, d : 1 .. 31] :
        y.d <= LastDay(y.y, y.m) /\ Ordinal(y) = Ordinal(x) + n

\* The order of dates.
Before(a, b) == a.y < b.y \/ (a.y = b.y /\ (a.m < b.m \/ (a.m = b.m /\ a.d < b.d)))

NotBefore(a, b) == ~Before(a, b)

\* The whole months between two dates.
ElapsedMonths(start, end) ==
    12 * (end.y - start.y) + end.m - start.m - (IF end.d < start.d THEN 1 ELSE 0)
=============================================================================
