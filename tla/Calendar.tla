------------------------------- MODULE Calendar -------------------------------
(***************************************************************************)
(* Days of the calendar, <<year, month, day>> (datetime.date, external).   *)
(***************************************************************************)
EXTENDS Integers

Leap(y) == y % 4 = 0 /\ (y % 100 # 0 \/ y % 400 = 0)

DaysIn(y, m) ==
  IF m = 2 THEN IF Leap(y) THEN 29 ELSE 28
  ELSE IF m \in {4, 6, 9, 11} THEN 30 ELSE 31

\* The day before the first of a month.
DayBefore(y, m) ==
  IF m = 1 THEN <<y - 1, 12, 31>> ELSE <<y, m - 1, DaysIn(y, m - 1)>>

RealDay(y, m, d) ==
  0 < y /\ y <= 9999 /\ 0 < m /\ m <= 12 /\ 0 < d /\ d <= DaysIn(y, m)
=============================================================================
