------------------------------- MODULE Clock -------------------------------
(***************************************************************************)
(* The real-time clock and the programs that read and set it: user/clock.c *)
(* and the time check of an alarm in user/alarm.c.                         *)
(*                                                                         *)
(* The clock is a device that ticks by itself; the programs reach its      *)
(* registers one at a time.  They do not watch the clock's update flag,    *)
(* and masking interrupts (set_time, set_date) does not stop the clock, so *)
(* a tick may fall between any two accesses.  Programs give the processor  *)
(* away between tasks only, so that no two tasks overlap.                  *)
(***************************************************************************)
EXTENDS Integers, Sequences

CONSTANTS Binary,       \* bit 2 of status register B: no BCD
          Starts,       \* what the clock may show at the start, with how many
                        \* of MaxTicks are used up then
          Settings,     \* the values a user may set
          AlarmTimes,   \* the times a user may set an alarm to
          MaxTicks      \* bound on the ticks of the clock

Reg == {"second", "minute", "hour", "day", "month", "year"}
Byte == 0..255
\* Seeded fault: the hour is read first.
TimeRegsHourFirst == <<"hour", "minute", "second">>
\* The order of get_time and set_time, of get_date and set_date.
TimeRegs == <<"second", "minute", "hour">>
DateRegs == <<"day", "month", "year">>

Value == [Reg -> Byte]

\* What the device can show, and what clock set can store.  A year of two
\* characters may have a sign: -9 to 99, in a byte.
Instant == [second : 0..59, minute : 0..59, hour : 0..23,
            day : 1..31, month : 1..12, year : 0..99]
Setting == [second : 0..59, minute : 0..59, hour : 0..23,
            day : 1..31, month : 1..12, year : 0..99 \cup 247..255]

ASSUME ClockAssumption ==
  /\ Binary \in BOOLEAN /\ MaxTicks \in Nat
  /\ Starts \subseteq [clock : Instant, ticks : 0..MaxTicks]
  /\ Settings \subseteq Setting
  /\ AlarmTimes \subseteq [second : 0..59, minute : 0..59, hour : 0..23]

VARIABLES rtc,     \* the registers, as the device holds them
          val,     \* the program's rtc_time_t and rtc_date_t
          task,    \* what the program on the processor does with the clock
          todo,    \* the registers it has yet to access, in order
          alarm,   \* the time of the alarm
          rung,    \* whether the alarm has displayed its message
          began,   \* the clock when the task started
          shown,   \* what the clock has shown since then
          ticks    \* how often the clock has ticked

vars == <<rtc, val, task, todo, alarm, rung, began, shown, ticks>>

----------------------------------------------------------------------------
(***************************************************************************)
(* bcd_to_bin and bin_to_bcd, on bytes.                                    *)
(***************************************************************************)
bcd_to_bin(v) == ((v \div 16) * 10 + (v % 16)) % 256

\* Seeded fault: the tens are not shifted.
BcdUnshifted(v) == ((v \div 10) * 10 + (v % 10)) % 256
bin_to_bcd(v) == ((v \div 10) * 16 + (v % 10)) % 256

FromRegister(v) == IF Binary THEN v ELSE bcd_to_bin(v)
ToRegister(v) == IF Binary THEN v ELSE bin_to_bcd(v)

\* What the registers stand for.
Shows(r) == [x \in Reg |-> FromRegister(r[x])]

----------------------------------------------------------------------------
(***************************************************************************)
(* The device: the calendar of the years 2000 to 2099.                     *)
(***************************************************************************)
Leap(y) == y % 4 = 0
DaysIn(m, y) == IF m = 2 THEN IF Leap(y) THEN 29 ELSE 28
                ELSE IF m \in {4, 6, 9, 11} THEN 30 ELSE 31

NextDay(v) ==
  IF v["day"] < DaysIn(v["month"], v["year"])
  THEN [v EXCEPT !["day"] = @ + 1]
  ELSE IF v["month"] < 12
       THEN [v EXCEPT !["day"] = 1, !["month"] = @ + 1]
       ELSE [v EXCEPT !["day"] = 1, !["month"] = 1, !["year"] = (@ + 1) % 100]

NextSecond(v) ==
  IF v["second"] < 59 THEN [v EXCEPT !["second"] = @ + 1]
  ELSE IF v["minute"] < 59
       THEN [v EXCEPT !["second"] = 0, !["minute"] = @ + 1]
       ELSE IF v["hour"] < 23
            THEN [v EXCEPT !["second"] = 0, !["minute"] = 0, !["hour"] = @ + 1]
            ELSE NextDay([v EXCEPT !["second"] = 0, !["minute"] = 0,
                                   !["hour"] = 0])

Tick ==
  /\ ticks < MaxTicks
  /\ rtc' = LET v == NextSecond(Shows(rtc)) IN [x \in Reg |-> ToRegister(v[x])]
  /\ shown' = shown \cup {Shows(rtc')}
  /\ ticks' = ticks + 1
  /\ UNCHANGED <<val, task, todo, alarm, rung, began>>

----------------------------------------------------------------------------
(***************************************************************************)
(* One register read (get_time, get_date) or written (set_time, set_date). *)
(***************************************************************************)
Reading == {"zone read", "show", "show date", "alarm"}
Writing == {"zone write", "set"}

ReadRegister ==
  /\ task \in Reading /\ todo # <<>>
  /\ val' = [val EXCEPT ![Head(todo)] = FromRegister(rtc[Head(todo)])]
  /\ todo' = Tail(todo)
  /\ UNCHANGED <<rtc, task, alarm, rung, began, shown, ticks>>

WriteRegister ==
  /\ task \in Writing /\ todo # <<>>
  /\ rtc' = [rtc EXCEPT ![Head(todo)] = ToRegister(val[Head(todo)])]
  /\ todo' = Tail(todo)
  /\ UNCHANGED <<val, task, alarm, rung, began, shown, ticks>>

\* A task starts: it will access those registers.
Start(name, registers) ==
  /\ task' = name
  /\ todo' = registers
  /\ began' = Shows(rtc)
  /\ shown' = {Shows(rtc)}

\* It is over; the program yields or goes back to the prompt.
Finish == task' = "none" /\ todo' = <<>> /\ UNCHANGED <<began, shown>>

----------------------------------------------------------------------------
(***************************************************************************)
(* tz_correction: four hours back.  The fields are bytes.                  *)
(***************************************************************************)
\* Seeded faults: the length of the month that ends is taken; the year is
\* decremented as a signed number.
LastOfEndedMonth(v, month, year) == DaysIn(v["month"], v["year"])
YearBeforeSigned(y) == y - 1

LastOfMonth(v, month, year) == DaysIn(month, year)
YearBefore(y) == (y + 255) % 256

DayBefore(v) ==
  IF v["day"] > 1 THEN [v EXCEPT !["day"] = @ - 1]
  ELSE LET month == IF v["month"] > 1 THEN v["month"] - 1 ELSE 12
           year  == IF v["month"] > 1 THEN v["year"] ELSE YearBefore(v["year"])
       IN  [v EXCEPT !["month"] = month, !["year"] = year,
                     !["day"] = LastOfMonth(v, month, year)]

FourHoursBack(v) ==
  IF v["hour"] >= 4 THEN [v EXCEPT !["hour"] = @ - 4]
  ELSE DayBefore([v EXCEPT !["hour"] = @ + 20])

ZoneRead == task = "boot" /\ Start("zone read", TimeRegs \o DateRegs)
            /\ UNCHANGED <<rtc, val, alarm, rung, ticks>>

ZoneWrite ==
  /\ task = "zone read" /\ todo = <<>>
  /\ val' = FourHoursBack(val)
  /\ task' = "zone write" /\ todo' = TimeRegs \o DateRegs
  /\ UNCHANGED <<rtc, alarm, rung, began, shown, ticks>>

ZoneDone == task = "zone write" /\ todo = <<>> /\ Finish
            /\ UNCHANGED <<rtc, val, alarm, rung, ticks>>

----------------------------------------------------------------------------
(***************************************************************************)
(* The commands.  clock shows the time, the date or both, set changes one  *)
(* of them; what they print is val.                                        *)
(***************************************************************************)
ShowClock ==
  /\ task = "none"
  /\ \/ Start("show", TimeRegs)
     \/ Start("show", TimeRegs \o DateRegs)
     \/ Start("show date", DateRegs)
  /\ UNCHANGED <<rtc, val, alarm, rung, ticks>>

SetClock(v) ==
  /\ task = "none"
  /\ \E registers \in {TimeRegs, DateRegs} : Start("set", registers)
  /\ val' = v
  /\ UNCHANGED <<rtc, alarm, rung, ticks>>

CommandDone == task \in {"show", "show date", "set"} /\ todo = <<>> /\ Finish
               /\ UNCHANGED <<rtc, val, alarm, rung, ticks>>

NoAlarm == [second |-> 0, minute |-> 0, hour |-> 24]

SetAlarm(a) ==
  /\ task = "none" /\ alarm = NoAlarm
  /\ alarm' = a
  /\ UNCHANGED <<rtc, val, task, todo, rung, began, shown, ticks>>

(***************************************************************************)
(* An alarm, each time it has the processor: read the time, and ring when  *)
(* it is not before its own; otherwise yield.                              *)
(***************************************************************************)
\* Seeded fault: the minutes are compared whatever the hours are.
DueByField(v, a) ==
  /\ v["hour"] >= a["hour"]
  /\ v["minute"] >= a["minute"]
  /\ v["second"] >= a["second"]

Due(v, a) ==
  \/ v["hour"] > a["hour"]
  \/ v["hour"] = a["hour"] /\ v["minute"] > a["minute"]
  \/ /\ v["hour"] = a["hour"] /\ v["minute"] = a["minute"]
     /\ v["second"] >= a["second"]

AlarmLook == /\ task = "none" /\ alarm # NoAlarm /\ ~rung
             /\ Start("alarm", TimeRegs)
             /\ UNCHANGED <<rtc, val, alarm, rung, ticks>>

AlarmDone == /\ task = "alarm" /\ todo = <<>>
             /\ rung' = Due(val, alarm)
             /\ Finish
             /\ UNCHANGED <<rtc, val, alarm, ticks>>

Init ==
  /\ \E s \in Starts : /\ rtc = [x \in Reg |-> ToRegister(s.clock[x])]
                       /\ val = s.clock /\ began = s.clock /\ shown = {s.clock}
                       /\ ticks = s.ticks
  /\ task = "boot" /\ todo = <<>>
  /\ alarm = NoAlarm /\ rung = FALSE

User == \/ ShowClock
        \/ \E v \in Settings : SetClock(v)
        \/ \E a \in AlarmTimes : SetAlarm(a)

Next == \/ Tick \/ ReadRegister \/ WriteRegister
        \/ ZoneRead \/ ZoneWrite \/ ZoneDone
        \/ User \/ CommandDone \/ AlarmLook \/ AlarmDone

Spec == Init /\ [][Next]_vars

----------------------------------------------------------------------------
\* The types; the fields of the two structs are bytes.
Tasks == {"boot", "none", "zone read", "zone write", "show", "show date",
          "set", "alarm"}

(***************************************************************************)
(* The registers always hold a time and a date the device understands:     *)
(* digits in the coding it is set to, every field in its range; the        *)
(* programs convert on the way in and on the way out.                      *)
(***************************************************************************)
RegistersValid ==
  /\ \A x \in Reg : ToRegister(FromRegister(rtc[x])) = rtc[x]
  /\ LET v == Shows(rtc)
     IN  /\ v["second"] < 60 /\ v["minute"] < 60 /\ v["hour"] < 24
         /\ v["day"] \in 1..31 /\ v["month"] \in 1..12 /\ v["year"] < 100

TypeOK ==
  /\ rtc \in Value /\ val \in Value /\ task \in Tasks /\ todo \in Seq(Reg)
  /\ rung \in BOOLEAN /\ ticks \in 0..MaxTicks
  /\ began \in Value /\ shown \subseteq Value

SecondOfDay(v) == v["second"] + 60 * (v["minute"] + 60 * v["hour"])
SameDay(v, w) == \A x \in {"day", "month", "year"} : v[x] = w[x]

\* The date has changed since the task started.
MidnightFell == \E v \in shown : ~SameDay(began, v)

\* get_time has read its three registers.
TimeRead == task \in {"zone read", "show", "alarm"} /\ todo \in {<<>>, DateRegs}

(***************************************************************************)
(* A time that was read with ticks in between may be wrong, but it is      *)
(* never behind the clock when get_time was called: the registers are read *)
(* from the one that changes most often to the one that changes least      *)
(* (unless midnight falls in between).                                     *)
(***************************************************************************)
NeverBehind ==
  TimeRead /\ ~MidnightFell => SecondOfDay(val) >= SecondOfDay(began)

(***************************************************************************)
(* An alarm that goes back to sleep was not due when it looked at the      *)
(* clock, whatever ticks fell into its reading.                            *)
(***************************************************************************)
AlarmSleepsOnlyBeforeItsTime ==
  [][task = "alarm" /\ task' = "none" /\ ~rung' =>
       SecondOfDay(began) < SecondOfDay(alarm) \/ MidnightFell]_vars

\* Hours since the beginning of 2000, counted through the calendar.
DaysBeforeYear(y) == 365 * y + (y + 3) \div 4
DaysBeforeMonth(m, y) ==
  <<0, 31, 59, 90, 120, 151, 181, 212, 243, 273, 304, 334>>[m]
    + IF m > 2 /\ Leap(y) THEN 1 ELSE 0
HourNumber(v) ==
  24 * (DaysBeforeYear(v["year"]) + DaysBeforeMonth(v["month"], v["year"])
          + v["day"] - 1) + v["hour"]

(***************************************************************************)
(* tz_correction moves the clock back by four hours, through the ends of   *)
(* days, months, leap years and years.  (Of a clock that does not tick     *)
(* meanwhile, in a year after 2000.)                                       *)
(***************************************************************************)
ZoneIsFourHoursBack ==
  task = "zone write" /\ todo = <<>> /\ shown = {began} /\ began["year"] > 0 =>
    /\ HourNumber(Shows(rtc)) = HourNumber(began) - 4
    /\ \A x \in {"minute", "second"} : Shows(rtc)[x] = began[x]

----------------------------------------------------------------------------
(***************************************************************************)
(* What the comment on get_time in include/clock.h says:                   *)
(* "Accesses the RTC and stores the current time into specified struct".   *)
(* The time that was read is one the clock has shown since the call.       *)
(***************************************************************************)
ReadsTheCurrentTime ==
  TimeRead => \E v \in shown :
                \A x \in {"second", "minute", "hour"} : val[x] = v[x]

=============================================================================
