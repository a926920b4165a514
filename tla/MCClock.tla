------------------------------ MODULE MCClock ------------------------------
(***************************************************************************)
(* Instances of Clock.                                                     *)
(***************************************************************************)
EXTENDS Clock

At(y, mo, d, h, mi, s) ==
  [year |-> y, month |-> mo, day |-> d, hour |-> h, minute |-> mi, second |-> s]
TimeOfDay(h, mi, s) == [hour |-> h, minute |-> mi, second |-> s]

\* Just before the carries that matter: a minute, an hour, the hour at which
\* four hours back is yesterday, midnight, a leap day, the end of a year.  The
\* year is not checked: set date 12/31/-5 stores 251.
EdgeClocks == {At(25, 10, 9, 13, 59, 58), At(24, 3, 1, 3, 59, 59),
               At(25, 12, 31, 23, 59, 59), At(0, 1, 1, 2, 30, 59)}
EdgeSettings == {At(24, 2, 29, 9, 59, 59), At(251, 12, 31, 23, 59, 58)}
EdgeAlarms == {TimeOfDay(10, 0, 0), TimeOfDay(9, 59, 30), TimeOfDay(19, 59, 59)}

\* The first two days and the last one of every month of a leap cycle, at the
\* hours around the change of the day.
MonthEnds == {v \in [year : 1..4, month : 1..12, day : 1..31,
                     hour : {0, 3, 4, 23}, minute : {59}, second : {0}] :
                v["day"] \in {1, 2, DaysIn(v["month"], v["year"])}}

\* The clock ticks from the edges, and stands still at the ends of months.
AllStarts == [clock : EdgeClocks, ticks : {0}]
             \cup [clock : MonthEnds, ticks : {MaxTicks}]
EdgeStarts == [clock : EdgeClocks, ticks : {0}]

Nothing == {}
=============================================================================
