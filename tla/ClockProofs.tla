----------------------------- MODULE ClockProofs -----------------------------
(***************************************************************************)
(* Theorems about the clock, for every number of ticks and wherever they   *)
(* fall: what the registers and the variables hold, and that a time that   *)
(* is read is not behind the clock.                                        *)
(***************************************************************************)
EXTENDS Clock, SequenceTheorems, TLAPS

----------------------------------------------------------------------------
(***************************************************************************)
(* The registers a task has yet to access.                                 *)
(***************************************************************************)
AllRegs == <<"second", "minute", "hour", "day", "month", "year">>

BeforeSecond == {TimeRegs, AllRegs}
BeforeMinute == {<<"minute", "hour">>, <<"minute", "hour", "day", "month", "year">>}
BeforeHour == {<<"hour">>, <<"hour", "day", "month", "year">>}
Behind == {DateRegs, <<"month", "year">>, <<"year">>, <<>>}
Todos == BeforeSecond \cup BeforeMinute \cup BeforeHour \cup Behind

\* The time and then the date.
LEMMA AllRegsInOrder == TimeRegs \o DateRegs = AllRegs
<1>1. TimeRegs \in Seq(Reg) /\ DateRegs \in Seq(Reg) /\ AllRegs \in Seq(Reg)
  <2>1. TimeRegs \in Seq(Reg)
    BY DEF TimeRegs, Reg
  <2>2. DateRegs \in Seq(Reg)
    BY DEF DateRegs, Reg
  <2>3. AllRegs \in Seq(Reg)
    BY DEF AllRegs, Reg
  <2> QED BY <2>1, <2>2, <2>3
<1>2. Len(TimeRegs) = 3 /\ Len(DateRegs) = 3
  BY DEF TimeRegs, DateRegs
<1>3. Len(AllRegs) = 6
  BY DEF AllRegs
<1> DEFINE c == TimeRegs \o DateRegs
<1>4. c \in Seq(Reg) /\ Len(c) = 6
  <2>1. c \in Seq(Reg) /\ Len(c) = Len(TimeRegs) + Len(DateRegs)
    BY <1>1, ConcatProperties
  <2> QED BY <1>2, <2>1
<1>5. /\ c[1] = TimeRegs[1] /\ c[2] = TimeRegs[2] /\ c[3] = TimeRegs[3]
      /\ c[4] = DateRegs[1] /\ c[5] = DateRegs[2] /\ c[6] = DateRegs[3]
  <2>1. \A k \in 1..(Len(TimeRegs) + Len(DateRegs)) :
          c[k] = IF k <= Len(TimeRegs) THEN TimeRegs[k] ELSE DateRegs[k - Len(TimeRegs)]
    BY <1>1, ConcatProperties
  <2> HIDE DEF c
  <2> QED BY <1>2, <2>1
<1> HIDE DEF c
<1>6. /\ c[1] = AllRegs[1] /\ c[2] = AllRegs[2] /\ c[3] = AllRegs[3]
      /\ c[4] = AllRegs[4] /\ c[5] = AllRegs[5] /\ c[6] = AllRegs[6]
  BY <1>5 DEF TimeRegs, DateRegs, AllRegs
<1>7. \A k \in 1..6 : c[k] = AllRegs[k]
  <2>1. \A k \in 1..6 : k = 1 \/ k = 2 \/ k = 3 \/ k = 4 \/ k = 5 \/ k = 6
    OBVIOUS
  <2> QED BY <1>6, <2>1
<1>8. c = AllRegs
  BY <1>1, <1>3, <1>4, <1>7, SeqEqual
<1> QED BY <1>8 DEF c

\* What follows the first register of each list.
LEMMA TailsOfTodos ==
  /\ Head(AllRegs) = "second" /\ Tail(AllRegs) = <<"minute", "hour", "day", "month", "year">>
  /\ Head(TimeRegs) = "second" /\ Tail(TimeRegs) = <<"minute", "hour">>
  /\ Head(<<"minute", "hour", "day", "month", "year">>) = "minute"
  /\ Tail(<<"minute", "hour", "day", "month", "year">>) = <<"hour", "day", "month", "year">>
  /\ Head(<<"minute", "hour">>) = "minute" /\ Tail(<<"minute", "hour">>) = <<"hour">>
  /\ Head(<<"hour", "day", "month", "year">>) = "hour"
  /\ Tail(<<"hour", "day", "month", "year">>) = DateRegs
  /\ Head(<<"hour">>) = "hour" /\ Tail(<<"hour">>) = <<>>
  /\ Head(DateRegs) = "day" /\ Tail(DateRegs) = <<"month", "year">>
  /\ Head(<<"month", "year">>) = "month" /\ Tail(<<"month", "year">>) = <<"year">>
  /\ Head(<<"year">>) = "year" /\ Tail(<<"year">>) = <<>>
<1>1. Head(AllRegs) = "second" /\ Tail(AllRegs) = <<"minute", "hour", "day", "month", "year">>
  BY DEF AllRegs
<1>2. Head(TimeRegs) = "second" /\ Tail(TimeRegs) = <<"minute", "hour">>
  BY DEF TimeRegs
<1>3. /\ Head(<<"minute", "hour", "day", "month", "year">>) = "minute"
      /\ Tail(<<"minute", "hour", "day", "month", "year">>) = <<"hour", "day", "month", "year">>
  OBVIOUS
<1>4. Head(<<"minute", "hour">>) = "minute" /\ Tail(<<"minute", "hour">>) = <<"hour">>
  OBVIOUS
<1>5. /\ Head(<<"hour", "day", "month", "year">>) = "hour"
      /\ Tail(<<"hour", "day", "month", "year">>) = DateRegs
  BY DEF DateRegs
<1>6. Head(<<"hour">>) = "hour" /\ Tail(<<"hour">>) = <<>>
  OBVIOUS
<1>7. Head(DateRegs) = "day" /\ Tail(DateRegs) = <<"month", "year">>
  BY DEF DateRegs
<1>8. Head(<<"month", "year">>) = "month" /\ Tail(<<"month", "year">>) = <<"year">>
  OBVIOUS
<1>9. Head(<<"year">>) = "year" /\ Tail(<<"year">>) = <<>>
  OBVIOUS
<1> QED BY <1>1, <1>2, <1>3, <1>4, <1>5, <1>6, <1>7, <1>8, <1>9

\* The time is read from the seconds up, and before the date.
LEMMA TodoStep ==
  ASSUME NEW t \in Todos, t # <<>>
  PROVE  \/ t \in BeforeSecond /\ Head(t) = "second" /\ Tail(t) \in BeforeMinute
         \/ t \in BeforeMinute /\ Head(t) = "minute" /\ Tail(t) \in BeforeHour
         \/ t \in BeforeHour /\ Head(t) = "hour" /\ Tail(t) \in Behind
         \/ t \in Behind /\ Head(t) \in {"day", "month", "year"} /\ Tail(t) \in Behind
<1>1. CASE t \in BeforeSecond
  BY <1>1, TailsOfTodos, Zenon DEF BeforeSecond, BeforeMinute
<1>2. CASE t \in BeforeMinute
  BY <1>2, TailsOfTodos, Zenon DEF BeforeMinute, BeforeHour
<1>3. CASE t \in BeforeHour
  BY <1>3, TailsOfTodos, Zenon DEF BeforeHour, Behind
<1>4. CASE t \in Behind
  BY <1>4, TailsOfTodos, Zenon DEF Behind
<1> QED BY <1>1, <1>2, <1>3, <1>4 DEF Todos

\* A task is at one of the four.
LEMMA TodosApart ==
  /\ BeforeSecond \cap BeforeMinute = {} /\ BeforeSecond \cap BeforeHour = {}
  /\ BeforeSecond \cap Behind = {} /\ BeforeMinute \cap BeforeHour = {}
  /\ BeforeMinute \cap Behind = {} /\ BeforeHour \cap Behind = {}
<1>1. BeforeSecond \cap BeforeMinute = {} /\ BeforeSecond \cap BeforeHour = {}
  BY DEF BeforeSecond, BeforeMinute, BeforeHour, TimeRegs, AllRegs
<1>2. BeforeSecond \cap Behind = {}
  BY DEF BeforeSecond, Behind, TimeRegs, AllRegs, DateRegs
<1>3. BeforeMinute \cap BeforeHour = {} /\ BeforeMinute \cap Behind = {}
  BY DEF BeforeMinute, BeforeHour, Behind, DateRegs
<1>4. BeforeHour \cap Behind = {}
  BY DEF BeforeHour, Behind, DateRegs
<1> QED BY <1>1, <1>2, <1>3, <1>4

\* They are sequences of registers.
LEMMA TodosType == Todos \subseteq Seq(Reg)
  BY DEF Todos, BeforeSecond, BeforeMinute, BeforeHour, Behind, TimeRegs, DateRegs, AllRegs, Reg

----------------------------------------------------------------------------
(***************************************************************************)
(* The coding.                                                             *)
(***************************************************************************)
\* The years the registers can show, and those a program can hold.
Years == IF Binary THEN Byte ELSE 0..99
AnyYears == IF Binary THEN Byte ELSE 0..99 \cup 247..255

\* bcd_to_bin takes back what bin_to_bcd does, on two digits; a year that is
\* not one is stored as two digits all the same.
LEMMA Coding ==
  /\ \A v \in Years : ToRegister(v) \in Byte /\ FromRegister(ToRegister(v)) = v
  /\ \A v \in AnyYears : /\ ToRegister(v) \in Byte /\ FromRegister(ToRegister(v)) \in Years
                         /\ ToRegister(FromRegister(ToRegister(v))) = ToRegister(v)
<1>1. \A v \in 0..99 : bcd_to_bin(bin_to_bcd(v)) = v /\ bin_to_bcd(v) \in Byte
  BY DEF bcd_to_bin, bin_to_bcd, Byte
<1>2. \A v \in 247..255 : bcd_to_bin(bin_to_bcd(v)) \in 0..99 /\ bin_to_bcd(v) \in Byte
  BY DEF bcd_to_bin, bin_to_bcd, Byte
<1>3. \A v \in 247..255 : bin_to_bcd(bcd_to_bin(bin_to_bcd(v))) = bin_to_bcd(v)
  BY DEF bcd_to_bin, bin_to_bcd
<1>4. Binary \in BOOLEAN
  BY ClockAssumption
<1>5. CASE Binary
  BY <1>5 DEF Years, AnyYears, ToRegister, FromRegister
<1>6. CASE ~Binary
  BY <1>1, <1>2, <1>3, <1>6 DEF Years, AnyYears, ToRegister, FromRegister
<1> QED BY <1>5, <1>6

InDay(v) == v["second"] \in 0..59 /\ v["minute"] \in 0..59 /\ v["hour"] \in 0..23

\* What the clock can show, and what a program can store in it.
ClockValue(v) == /\ v \in Value /\ InDay(v)
                 /\ v["day"] \in 1..31 /\ v["month"] \in 1..12 /\ v["year"] \in Years
ProgramValue(v) == /\ v \in Value /\ InDay(v)
                   /\ v["day"] \in 1..31 /\ v["month"] \in 1..12 /\ v["year"] \in AnyYears

\* The clock stays in its ranges, and within a day it counts the seconds.
LEMMA NextSecondStep ==
  ASSUME NEW v, ClockValue(v)
  PROVE  /\ ClockValue(NextSecond(v))
         /\ SameDay(v, NextSecond(v)) =>
              /\ SecondOfDay(NextSecond(v)) = SecondOfDay(v) + 1
              /\ NextSecond(v)["minute"] + 60 * NextSecond(v)["hour"] >=
                   v["minute"] + 60 * v["hour"]
              /\ NextSecond(v)["hour"] >= v["hour"]
<1>1. /\ v \in [Reg -> Byte] /\ InDay(v) /\ v["day"] \in 1..31
      /\ v["month"] \in 1..12 /\ v["year"] \in Years
  BY DEF ClockValue, Value
<1>2. /\ Years \subseteq Nat /\ \A y \in Years : (y + 1) % 100 \in Years
      /\ Years \subseteq Byte
  BY ClockAssumption DEF Years, Byte
<1>3. DaysIn(v["month"], v["year"]) \in 28..31
  BY DEF DaysIn
<1>4. ASSUME NEW w \in [Reg -> Byte], w["day"] = v["day"], w["month"] = v["month"],
             w["year"] = v["year"], InDay(w)
      PROVE  ClockValue(NextDay(w)) /\ ~SameDay(v, NextDay(w))
  <2>1. CASE w["day"] < DaysIn(w["month"], w["year"])
    <3>1. NextDay(w) = [w EXCEPT !["day"] = @ + 1]
      BY <2>1 DEF NextDay
    <3>2. w["day"] + 1 \in 1..31 /\ w["day"] + 1 \in Byte /\ w["day"] + 1 # v["day"]
      BY <1>1, <1>3, <1>4, <2>1 DEF Byte
    <3> HIDE DEF NextDay
    <3>3. /\ NextDay(w) \in [Reg -> Byte] /\ NextDay(w)["day"] = w["day"] + 1
          /\ \A x \in Reg : x # "day" => NextDay(w)[x] = w[x]
      BY <1>4, <3>1, <3>2 DEF Reg
    <3> QED BY <1>1, <1>4, <3>2, <3>3 DEF ClockValue, Value, InDay, SameDay, Reg
  <2>2. CASE ~(w["day"] < DaysIn(w["month"], w["year"])) /\ w["month"] < 12
    <3>1. NextDay(w) = [w EXCEPT !["day"] = 1, !["month"] = @ + 1]
      BY <2>2 DEF NextDay
    <3>2. w["month"] + 1 \in 1..12 /\ w["month"] + 1 \in Byte /\ w["month"] + 1 # v["month"]
          /\ 1 \in Byte /\ 1 \in 1..31
      BY <1>1, <1>4, <2>2 DEF Byte
    <3> HIDE DEF NextDay
    <3>3. /\ NextDay(w) \in [Reg -> Byte] /\ NextDay(w)["month"] = w["month"] + 1
          /\ NextDay(w)["day"] = 1
          /\ \A x \in Reg : x # "day" /\ x # "month" => NextDay(w)[x] = w[x]
      BY <1>4, <3>1, <3>2 DEF Reg
    <3> QED BY <1>1, <1>4, <3>2, <3>3 DEF ClockValue, Value, InDay, SameDay, Reg
  <2>3. CASE ~(w["day"] < DaysIn(w["month"], w["year"])) /\ ~(w["month"] < 12)
    <3>1. NextDay(w) = [w EXCEPT !["day"] = 1, !["month"] = 1, !["year"] = (@ + 1) % 100]
      BY <2>3 DEF NextDay
    <3>2. /\ (w["year"] + 1) % 100 \in Years /\ (w["year"] + 1) % 100 \in Byte
          /\ 1 \in Byte /\ 1 \in 1..31 /\ 1 \in 1..12 /\ v["month"] # 1
      <4>1. w["year"] \in Years /\ (w["year"] + 1) % 100 \in Years
        BY <1>1, <1>2, <1>4
      <4>2. v["month"] # 1
        BY <1>1, <1>4, <2>3
      <4>3. (w["year"] + 1) % 100 \in Byte
        BY <1>2, <4>1, Zenon
      <4>4. 1 \in Byte /\ 1 \in 1..31 /\ 1 \in 1..12
        BY DEF Byte
      <4> QED BY <4>1, <4>2, <4>3, <4>4, Zenon
    <3> HIDE DEF NextDay
    <3>3. /\ NextDay(w) \in [Reg -> Byte] /\ NextDay(w)["month"] = 1
          /\ NextDay(w)["day"] = 1 /\ NextDay(w)["year"] = (w["year"] + 1) % 100
          /\ \A x \in Reg : x # "day" /\ x # "month" /\ x # "year" => NextDay(w)[x] = w[x]
      BY <1>4, <3>1, <3>2 DEF Reg
    <3> QED BY <1>1, <1>4, <3>2, <3>3 DEF ClockValue, Value, InDay, SameDay, Reg
  <2> QED BY <2>1, <2>2, <2>3
<1>5. CASE v["second"] < 59
  <2>1. NextSecond(v) = [v EXCEPT !["second"] = @ + 1]
    BY <1>5 DEF NextSecond
  <2>2. v["second"] + 1 \in 0..59 /\ v["second"] + 1 \in Byte
    BY <1>1, <1>5 DEF InDay, Byte
  <2> HIDE DEF NextSecond
  <2>3. /\ NextSecond(v) \in [Reg -> Byte] /\ NextSecond(v)["second"] = v["second"] + 1
        /\ \A x \in Reg : x # "second" => NextSecond(v)[x] = v[x]
    BY <1>1, <2>1, <2>2 DEF Reg
  <2>4. ClockValue(NextSecond(v))
    BY <1>1, <2>2, <2>3 DEF ClockValue, Value, InDay, Reg
  <2>5. /\ NextSecond(v)["minute"] = v["minute"] /\ NextSecond(v)["hour"] = v["hour"]
        /\ v["second"] \in Nat /\ v["minute"] \in Nat /\ v["hour"] \in Nat
    BY <1>1, <2>3 DEF InDay, Reg
  <2> QED BY <2>3, <2>4, <2>5 DEF SecondOfDay
<1>6. CASE ~(v["second"] < 59) /\ v["minute"] < 59
  <2>1. NextSecond(v) = [v EXCEPT !["second"] = 0, !["minute"] = @ + 1]
    BY <1>6 DEF NextSecond
  <2>2. v["minute"] + 1 \in 0..59 /\ v["minute"] + 1 \in Byte /\ 0 \in 0..59 /\ 0 \in Byte
        /\ v["second"] = 59
    BY <1>1, <1>6 DEF InDay, Byte
  <2> HIDE DEF NextSecond
  <2>3. /\ NextSecond(v) \in [Reg -> Byte] /\ NextSecond(v)["second"] = 0
        /\ NextSecond(v)["minute"] = v["minute"] + 1
        /\ \A x \in Reg : x # "second" /\ x # "minute" => NextSecond(v)[x] = v[x]
    BY <1>1, <2>1, <2>2 DEF Reg
  <2>4. ClockValue(NextSecond(v))
    BY <1>1, <2>2, <2>3 DEF ClockValue, Value, InDay, Reg
  <2>5. /\ NextSecond(v)["hour"] = v["hour"]
        /\ v["minute"] \in Nat /\ v["hour"] \in Nat
    BY <1>1, <2>3 DEF InDay, Reg
  <2> QED BY <2>2, <2>3, <2>4, <2>5 DEF SecondOfDay
<1>7. CASE ~(v["second"] < 59) /\ ~(v["minute"] < 59) /\ v["hour"] < 23
  <2>1. NextSecond(v) = [v EXCEPT !["second"] = 0, !["minute"] = 0, !["hour"] = @ + 1]
    BY <1>7 DEF NextSecond
  <2>2. v["hour"] + 1 \in 0..23 /\ v["hour"] + 1 \in Byte /\ 0 \in 0..59 /\ 0 \in Byte
        /\ v["second"] = 59 /\ v["minute"] = 59
    BY <1>1, <1>7 DEF InDay, Byte
  <2> HIDE DEF NextSecond
  <2>3. /\ NextSecond(v) \in [Reg -> Byte] /\ NextSecond(v)["second"] = 0
        /\ NextSecond(v)["minute"] = 0 /\ NextSecond(v)["hour"] = v["hour"] + 1
        /\ \A x \in Reg : x \notin {"second", "minute", "hour"} => NextSecond(v)[x] = v[x]
    BY <1>1, <2>1, <2>2 DEF Reg
  <2>4. ClockValue(NextSecond(v))
    BY <1>1, <2>2, <2>3 DEF ClockValue, Value, InDay, Reg
  <2>5. v["hour"] \in Nat
    BY <1>1 DEF InDay
  <2> QED BY <2>2, <2>3, <2>4, <2>5 DEF SecondOfDay
<1>8. CASE ~(v["second"] < 59) /\ ~(v["minute"] < 59) /\ ~(v["hour"] < 23)
  <2> DEFINE w == [v EXCEPT !["second"] = 0, !["minute"] = 0, !["hour"] = 0]
  <2>1. NextSecond(v) = NextDay(w)
    BY <1>8 DEF NextSecond
  <2>2. w \in [Reg -> Byte] /\ InDay(w) /\ w["day"] = v["day"] /\ w["month"] = v["month"]
        /\ w["year"] = v["year"]
    BY <1>1 DEF Reg, Byte, InDay
  <2> HIDE DEF w, NextSecond
  <2> QED BY <1>4, <2>1, <2>2
<1> QED BY <1>5, <1>6, <1>7, <1>8

\* tz_correction leaves a value that can be stored.
LEMMA ZoneValue ==
  ASSUME NEW v, ProgramValue(v), v["year"] \in Years
  PROVE  ProgramValue(FourHoursBack(v))
<1>1. /\ v \in [Reg -> Byte] /\ InDay(v) /\ v["day"] \in 1..31
      /\ v["month"] \in 1..12 /\ v["year"] \in Years
  BY DEF ProgramValue, Value
<1>2. /\ Years \subseteq AnyYears /\ AnyYears \subseteq Byte
      /\ \A y \in Years : YearBefore(y) \in AnyYears
  BY ClockAssumption DEF AnyYears, Years, Byte, YearBefore
<1>3. \A m, y : LastOfMonth(v, m, y) \in 28..31
  BY DEF LastOfMonth, DaysIn
<1>4. ASSUME NEW h \in 0..23, NEW d \in 1..31, NEW m \in 1..12, NEW y \in AnyYears,
             NEW w \in [Reg -> Byte],
             w["hour"] = h, w["day"] = d, w["month"] = m, w["year"] = y,
             w["second"] = v["second"], w["minute"] = v["minute"]
      PROVE  ProgramValue(w)
  BY <1>1, <1>4 DEF ProgramValue, Value, InDay
<1>5. CASE v["hour"] >= 4
  <2> DEFINE w == [v EXCEPT !["hour"] = @ - 4]
  <2>1. v["hour"] - 4 \in 0..23 /\ v["hour"] - 4 \in Byte
    BY <1>1, <1>5 DEF InDay, Byte
  <2>2. /\ w \in [Reg -> Byte] /\ w["hour"] = v["hour"] - 4
        /\ w["day"] = v["day"] /\ w["month"] = v["month"] /\ w["year"] = v["year"]
        /\ w["second"] = v["second"] /\ w["minute"] = v["minute"]
    BY <1>1, <2>1 DEF Reg
  <2>3. FourHoursBack(v) = w
    BY <1>5 DEF FourHoursBack
  <2> HIDE DEF w
  <2> QED BY <1>1, <1>2, <1>4, <2>1, <2>2, <2>3
<1>6. CASE ~(v["hour"] >= 4)
  <2> DEFINE u == [v EXCEPT !["hour"] = @ + 20]
  <2>1. v["hour"] + 20 \in 0..23 /\ v["hour"] + 20 \in Byte
    BY <1>1, <1>6 DEF InDay, Byte
  <2>2. /\ u \in [Reg -> Byte] /\ u["hour"] = v["hour"] + 20
        /\ u["day"] = v["day"] /\ u["month"] = v["month"] /\ u["year"] = v["year"]
        /\ u["second"] = v["second"] /\ u["minute"] = v["minute"]
    BY <1>1, <2>1 DEF Reg
  <2>3. FourHoursBack(v) = DayBefore(u)
    BY <1>6 DEF FourHoursBack
  <2> HIDE DEF u
  <2>4. CASE u["day"] > 1
    <3> DEFINE w == [u EXCEPT !["day"] = @ - 1]
    <3>1. u["day"] - 1 \in 1..31 /\ u["day"] - 1 \in Byte
      BY <1>1, <2>2, <2>4 DEF Byte
    <3>2. /\ w \in [Reg -> Byte] /\ w["day"] = u["day"] - 1 /\ w["hour"] = u["hour"]
          /\ w["month"] = u["month"] /\ w["year"] = u["year"]
          /\ w["second"] = u["second"] /\ w["minute"] = u["minute"]
      BY <2>2, <3>1 DEF Reg
    <3>3. FourHoursBack(v) = w
      BY <2>3, <2>4 DEF DayBefore
    <3> HIDE DEF w
    <3> QED BY <1>1, <1>2, <1>4, <2>1, <2>2, <3>1, <3>2, <3>3
  <2>5. CASE ~(u["day"] > 1)
    <3> DEFINE month == IF u["month"] > 1 THEN u["month"] - 1 ELSE 12
               year  == IF u["month"] > 1 THEN u["year"] ELSE YearBefore(u["year"])
               w == [u EXCEPT !["month"] = month, !["year"] = year,
                              !["day"] = LastOfMonth(u, month, year)]
    <3>1. month \in 1..12 /\ month \in Byte
      BY <1>1, <2>2 DEF Byte
    <3>2. year \in AnyYears /\ year \in Byte
      BY <1>1, <1>2, <2>2
    <3>3. LastOfMonth(u, month, year) \in 1..31 /\ LastOfMonth(u, month, year) \in Byte
      BY DEF LastOfMonth, DaysIn, Byte
    <3>4. FourHoursBack(v) = w
      BY <2>3, <2>5 DEF DayBefore
    <3> HIDE DEF month, year
    <3>5. /\ w \in [Reg -> Byte] /\ w["day"] = LastOfMonth(u, month, year)
          /\ w["hour"] = u["hour"] /\ w["month"] = month /\ w["year"] = year
          /\ w["second"] = u["second"] /\ w["minute"] = u["minute"]
      BY <2>2, <3>1, <3>2, <3>3 DEF Reg
    <3> HIDE DEF w
    <3> QED BY <1>4, <2>1, <2>2, <3>1, <3>2, <3>3, <3>4, <3>5
  <2> QED BY <2>4, <2>5
<1> QED BY <1>5, <1>6

----------------------------------------------------------------------------
(***************************************************************************)
(* What a task has read so far, put together with what it would still read *)
(* now, is not behind the clock when it started.                           *)
(***************************************************************************)
Reads == {"zone read", "show", "alarm"}

Low(v) == v["second"]
High(v) == v["minute"] + 60 * v["hour"]

NotBehind(now) ==
  /\ todo \in BeforeSecond => Low(now) + 60 * High(now) >= SecondOfDay(began)
  /\ todo \in BeforeMinute => Low(val) + 60 * High(now) >= SecondOfDay(began)
  /\ todo \in BeforeHour =>
       Low(val) + 60 * (val["minute"] + 60 * now["hour"]) >= SecondOfDay(began)
  /\ todo \in Behind => Low(val) + 60 * High(val) >= SecondOfDay(began)

RoundTrip(r) == \A x \in Reg : ToRegister(FromRegister(r[x])) = r[x]

ClockInv ==
  /\ rtc \in Value /\ ClockValue(Shows(rtc)) /\ RoundTrip(rtc)
  /\ ProgramValue(val)
  /\ task \in {"boot", "zone read"} => val["year"] \in Years
  /\ task \in Tasks /\ todo \in Todos
  /\ alarm \in AlarmTimes \cup {NoAlarm} /\ (task = "alarm" => alarm \in AlarmTimes)
  /\ rung \in BOOLEAN /\ ticks \in 0..MaxTicks
  /\ ClockValue(began) /\ \A v \in shown : ClockValue(v)
  /\ task \in Reading => Shows(rtc) \in shown
  /\ task \in Reads /\ ~MidnightFell => NotBehind(Shows(rtc))

\* SecondOfDay, in the two parts.
LEMMA Parts == \A v : SecondOfDay(v) = Low(v) + 60 * High(v)
  BY DEF SecondOfDay, Low, High

\* What can be shown can be stored, and its parts are numbers.
LEMMA ValueParts ==
  ASSUME NEW v, ClockValue(v) \/ ProgramValue(v)
  PROVE  /\ v \in Value /\ Low(v) \in Nat /\ High(v) \in Nat /\ SecondOfDay(v) \in Nat
         /\ v["second"] \in Nat /\ v["minute"] \in Nat /\ v["hour"] \in Nat
<1>1. v \in Value /\ InDay(v)
  BY DEF ClockValue, ProgramValue
<1>2. v["second"] \in Nat /\ v["minute"] \in Nat /\ v["hour"] \in Nat
  BY <1>1 DEF InDay
<1>3. Low(v) \in Nat /\ High(v) \in Nat /\ SecondOfDay(v) \in Nat
  BY <1>2 DEF Low, High, SecondOfDay
<1> QED BY <1>1, <1>2, <1>3

\* A register holds what its value is coded as.
LEMMA Coded ==
  ASSUME NEW v, ClockValue(v)
  PROVE  LET r == [x \in Reg |-> ToRegister(v[x])]
         IN  r \in Value /\ Shows(r) = v /\ RoundTrip(r)
<1> DEFINE r == [x \in Reg |-> ToRegister(v[x])]
<1>1. \A x \in Reg : v[x] \in Years
  <2>1. 0..99 \subseteq Years
    BY ClockAssumption DEF Years, Byte
  <2>2. /\ v["second"] \in 0..99 /\ v["minute"] \in 0..99 /\ v["hour"] \in 0..99
        /\ v["day"] \in 0..99 /\ v["month"] \in 0..99 /\ v["year"] \in Years
    BY DEF ClockValue, InDay
  <2> QED BY <2>1, <2>2 DEF Reg
<1>2. \A x \in Reg : ToRegister(v[x]) \in Byte /\ FromRegister(ToRegister(v[x])) = v[x]
  BY <1>1, Coding
<1>3. r \in Value
  BY <1>2 DEF Value
<1>4. \A x \in Reg : r[x] = ToRegister(v[x])
  OBVIOUS
<1> HIDE DEF r
<1>5. Shows(r) = v
  <2>1. v \in [Reg -> Byte]
    BY DEF ClockValue, Value
  <2>2. \A x \in Reg : FromRegister(r[x]) = v[x]
    BY <1>2, <1>4
  <2> QED BY <2>1, <2>2 DEF Shows
<1>6. RoundTrip(r)
  BY <1>2, <1>4 DEF RoundTrip
<1> QED BY <1>3, <1>5, <1>6 DEF r

\* The beginning.
LEMMA ClockStarts == Init => ClockInv
<1> SUFFICES ASSUME Init PROVE ClockInv
  OBVIOUS
<1>1. PICK s \in Starts : /\ rtc = [x \in Reg |-> ToRegister(s.clock[x])]
                         /\ val = s.clock /\ began = s.clock /\ shown = {s.clock}
                         /\ ticks = s.ticks
  BY DEF Init
<1>2. s.clock \in Instant /\ s.ticks \in 0..MaxTicks
  BY <1>1, ClockAssumption
<1> DEFINE v == s.clock
<1>3. ClockValue(v) /\ ProgramValue(v) /\ v["year"] \in Years
  <2>1. v \in Value
    BY <1>2 DEF Instant, Value, Reg, Byte
  <2>2. v["year"] \in 0..99 /\ InDay(v) /\ v["day"] \in 1..31 /\ v["month"] \in 1..12
    BY <1>2 DEF Instant, InDay
  <2>3. 0..99 \subseteq Years /\ 0..99 \subseteq AnyYears
    BY ClockAssumption DEF Years, AnyYears, Byte
  <2> HIDE DEF v
  <2> QED BY <2>1, <2>2, <2>3 DEF ClockValue, ProgramValue
<1> HIDE DEF v
<1>4. rtc \in Value /\ Shows(rtc) = v /\ RoundTrip(rtc)
  BY <1>1, <1>3, Coded DEF v
<1>5. /\ val = v /\ began = v /\ shown = {v} /\ ticks \in 0..MaxTicks
  BY <1>1, <1>2 DEF v
<1>6. /\ task = "boot" /\ todo = <<>> /\ alarm = NoAlarm /\ rung = FALSE
  BY DEF Init
<1>7. todo \in Todos
  BY <1>6 DEF Todos, Behind
<1>8. task \notin Reading /\ task \notin Reads /\ task # "alarm" /\ task \in Tasks
  BY <1>6 DEF Reading, Reads, Tasks
<1> QED BY <1>3, <1>4, <1>5, <1>6, <1>7, <1>8 DEF ClockInv

\* A tick: the clock moves on by a second, or midnight falls.
LEMMA TickKeeps == ClockInv /\ Tick => ClockInv'
<1> SUFFICES ASSUME ClockInv, Tick PROVE ClockInv'
  OBVIOUS
<1> DEFINE now == Shows(rtc)
           next == NextSecond(now)
<1>1. ClockValue(now) /\ ClockValue(next)
  BY NextSecondStep DEF ClockInv
<1>2. rtc' = [x \in Reg |-> ToRegister(next[x])]
  BY DEF Tick
<1> HIDE DEF next
<1>3. rtc' \in Value /\ Shows(rtc') = next /\ RoundTrip(rtc')
  BY <1>1, <1>2, Coded
<1>4. /\ shown' = shown \cup {next} /\ ticks' = ticks + 1 /\ ticks < MaxTicks
      /\ UNCHANGED <<val, task, todo, alarm, rung, began>>
  BY <1>3 DEF Tick
<1>5. ticks' \in 0..MaxTicks
  <2>1. ticks \in 0..MaxTicks /\ MaxTicks \in Nat
    BY ClockAssumption DEF ClockInv
  <2> QED BY <1>4, <2>1
<1>6. ASSUME task \in Reads, ~MidnightFell'
      PROVE  NotBehind(now) /\ SameDay(now, next)
  <2>1. task \in Reading /\ now \in shown
    BY <1>6 DEF ClockInv, Reads, Reading
  <2>2. SameDay(began, now) /\ SameDay(began, next) /\ ~MidnightFell
    BY <1>4, <1>6, <2>1 DEF MidnightFell
  <2> QED BY <1>6, <2>2 DEF ClockInv, SameDay
<1>7. ASSUME task \in Reads, ~MidnightFell'
      PROVE  NotBehind(next)
  <2>1. /\ SecondOfDay(next) = SecondOfDay(now) + 1
        /\ High(next) >= High(now) /\ next["hour"] >= now["hour"]
    BY <1>1, <1>6, <1>7, NextSecondStep DEF next, High
  <2>2. /\ Low(now) \in Nat /\ High(now) \in Nat /\ now["hour"] \in Nat
        /\ Low(next) \in Nat /\ High(next) \in Nat /\ next["hour"] \in Nat
        /\ Low(val) \in Nat /\ val["minute"] \in Nat /\ SecondOfDay(began) \in Nat
    BY <1>1, ValueParts DEF ClockInv
  <2>3. Low(next) + 60 * High(next) = Low(now) + 60 * High(now) + 1
    BY <2>1, Parts
  <2> HIDE DEF now
  <2>4. NotBehind(now)
    BY <1>6, <1>7
  <2>5. todo \in BeforeSecond => Low(next) + 60 * High(next) >= SecondOfDay(began)
    BY <2>2, <2>3, <2>4 DEF NotBehind
  <2>6. todo \in BeforeMinute => Low(val) + 60 * High(next) >= SecondOfDay(began)
    BY <2>1, <2>2, <2>4 DEF NotBehind
  <2>7. todo \in BeforeHour =>
          Low(val) + 60 * (val["minute"] + 60 * next["hour"]) >= SecondOfDay(began)
    BY <2>1, <2>2, <2>4 DEF NotBehind
  <2> QED BY <2>4, <2>5, <2>6, <2>7 DEF NotBehind
<1>8. task' \in Reads /\ ~MidnightFell' => NotBehind(Shows(rtc))'
  BY <1>3, <1>4, <1>7 DEF NotBehind
<1>9. \A v \in shown' : ClockValue(v)
  BY <1>1, <1>4 DEF ClockInv
<1> QED BY <1>1, <1>3, <1>4, <1>5, <1>8, <1>9 DEF ClockInv

\* A register is read: what was the clock's part of the bound is now the
\* program's.
LEMMA ReadKeeps == ClockInv /\ ReadRegister => ClockInv'
<1> SUFFICES ASSUME ClockInv, ReadRegister PROVE ClockInv'
  OBVIOUS
<1> DEFINE now == Shows(rtc)
           x == Head(todo)
<1>1. ClockValue(now) /\ ProgramValue(val) /\ todo \in Todos /\ todo # <<>>
  BY DEF ClockInv, ReadRegister
<1>2. x \in Reg /\ todo' = Tail(todo) /\ todo' \in Todos
  BY <1>1, TodoStep DEF ReadRegister, Todos, Reg
<1>3. val' = [val EXCEPT ![x] = now[x]]
  BY <1>2 DEF ReadRegister, Shows
<1> HIDE DEF x, now
<1>4. /\ val' \in Value /\ val'[x] = now[x]
      /\ \A y \in Reg : y # x => val'[y] = val[y]
  BY <1>1, <1>2, <1>3 DEF ClockValue, ProgramValue, Value
<1>5. Years \subseteq AnyYears
  BY ClockAssumption DEF Years, AnyYears
<1>6. /\ val'["second"] \in {val["second"], now["second"]}
      /\ val'["minute"] \in {val["minute"], now["minute"]}
      /\ val'["hour"] \in {val["hour"], now["hour"]}
      /\ val'["day"] \in {val["day"], now["day"]}
      /\ val'["month"] \in {val["month"], now["month"]}
      /\ val'["year"] \in {val["year"], now["year"]}
  BY <1>4 DEF Reg
<1>7. ProgramValue(val')
  <2>1. InDay(val')
    BY <1>1, <1>6 DEF ProgramValue, ClockValue, InDay
  <2>2. val'["day"] \in 1..31 /\ val'["month"] \in 1..12 /\ val'["year"] \in AnyYears
    BY <1>1, <1>5, <1>6 DEF ProgramValue, ClockValue
  <2> QED BY <1>4, <2>1, <2>2 DEF ProgramValue
<1>8. task' = task /\ (task \in {"boot", "zone read"} => val'["year"] \in Years)
  BY <1>1, <1>6 DEF ClockInv, ClockValue, ReadRegister
<1>9. UNCHANGED <<rtc, task, alarm, rung, began, shown, ticks>> /\ MidnightFell' = MidnightFell
  BY DEF ReadRegister, MidnightFell
<1>10. ASSUME NotBehind(now) PROVE NotBehind(now)'
  <2>1. now' = now /\ began' = began
    BY <1>9 DEF now
  <2>2. /\ Low(now) = now["second"] /\ High(now) = now["minute"] + 60 * now["hour"]
        /\ Low(val') = val'["second"] /\ High(val') = val'["minute"] + 60 * val'["hour"]
        /\ Low(val) = val["second"]
    BY DEF Low, High
  <2>3. CASE todo \in BeforeSecond /\ x = "second" /\ Tail(todo) \in BeforeMinute
    <3>1. val'["second"] = now["second"]
      BY <1>4, <2>3
    <3>2. Low(val') + 60 * High(now) >= SecondOfDay(began)
      BY <1>10, <2>2, <2>3, <3>1 DEF NotBehind
    <3> QED BY <1>2, <2>1, <2>3, <3>2, TodosApart DEF NotBehind
  <2>4. CASE todo \in BeforeMinute /\ x = "minute" /\ Tail(todo) \in BeforeHour
    <3>1. val'["minute"] = now["minute"] /\ val'["second"] = val["second"]
      BY <1>4, <2>4 DEF Reg
    <3>2. Low(val') + 60 * (val'["minute"] + 60 * now["hour"]) >= SecondOfDay(began)
      BY <1>10, <2>2, <2>4, <3>1 DEF NotBehind
    <3> QED BY <1>2, <2>1, <2>4, <3>2, TodosApart DEF NotBehind
  <2>5. CASE todo \in BeforeHour /\ x = "hour" /\ Tail(todo) \in Behind
    <3>1. /\ val'["hour"] = now["hour"] /\ val'["second"] = val["second"]
          /\ val'["minute"] = val["minute"]
      BY <1>4, <2>5 DEF Reg
    <3>2. Low(val') + 60 * High(val') >= SecondOfDay(began)
      BY <1>10, <2>2, <2>5, <3>1 DEF NotBehind
    <3> QED BY <1>2, <2>1, <2>5, <3>2, TodosApart DEF NotBehind
  <2>6. CASE todo \in Behind /\ x \in {"day", "month", "year"} /\ Tail(todo) \in Behind
    <3>1. /\ val'["hour"] = val["hour"] /\ val'["second"] = val["second"]
          /\ val'["minute"] = val["minute"]
      BY <1>4, <2>6 DEF Reg
    <3>2. Low(val') + 60 * High(val') >= SecondOfDay(began)
      BY <1>10, <2>2, <2>6, <3>1 DEF NotBehind, High
    <3> QED BY <1>2, <2>1, <2>6, <3>2, TodosApart DEF NotBehind
  <2> QED BY <1>1, <2>3, <2>4, <2>5, <2>6, TodoStep DEF x
<1> QED BY <1>2, <1>7, <1>8, <1>9, <1>10 DEF ClockInv, now

\* A register is written.
LEMMA WriteKeeps == ClockInv /\ WriteRegister => ClockInv'
<1> SUFFICES ASSUME ClockInv, WriteRegister PROVE ClockInv'
  OBVIOUS
<1> DEFINE now == Shows(rtc)
           x == Head(todo)
<1>1. ClockValue(now) /\ ProgramValue(val) /\ todo \in Todos /\ todo # <<>>
      /\ rtc \in Value /\ RoundTrip(rtc)
  BY DEF ClockInv, WriteRegister
<1>2. x \in Reg /\ todo' = Tail(todo) /\ todo' \in Todos
  BY <1>1, TodoStep DEF WriteRegister, Todos, Reg
<1>3. rtc' = [rtc EXCEPT ![x] = ToRegister(val[x])]
  BY DEF WriteRegister
<1> HIDE DEF x
<1>4. /\ 0..99 \subseteq Years /\ Years \subseteq Byte
      /\ 0..99 \subseteq AnyYears
  BY ClockAssumption DEF Years, AnyYears, Byte
<1>5. \A y \in Reg : val[y] \in AnyYears /\ (y # "year" => val[y] \in Years)
  <2>1. /\ val["second"] \in 0..99 /\ val["minute"] \in 0..99 /\ val["hour"] \in 0..99
        /\ val["day"] \in 0..99 /\ val["month"] \in 0..99 /\ val["year"] \in AnyYears
    BY <1>1 DEF ProgramValue, InDay
  <2> QED BY <1>4, <2>1 DEF Reg
<1> DEFINE r == ToRegister(val[x])
<1>6. /\ r \in Byte /\ FromRegister(r) \in Years /\ ToRegister(FromRegister(r)) = r
      /\ x # "year" => FromRegister(r) = val[x]
  BY <1>2, <1>5, Coding
<1> HIDE DEF r
<1>7. /\ rtc' \in Value /\ rtc'[x] = r
      /\ \A y \in Reg : y # x => rtc'[y] = rtc[y]
  BY <1>1, <1>2, <1>3, <1>6 DEF Value, r
<1>8. RoundTrip(rtc')
  BY <1>1, <1>6, <1>7 DEF RoundTrip
<1> DEFINE after == Shows(rtc')
<1>9. /\ after \in [Reg -> Byte] /\ after[x] = FromRegister(r)
      /\ \A y \in Reg : y # x => after[y] = now[y]
  <2>1. \A y \in Reg : after[y] = FromRegister(rtc'[y]) /\ now[y] = FromRegister(rtc[y])
    BY DEF Shows
  <2>2. /\ after[x] = FromRegister(r)
        /\ \A y \in Reg : y # x => after[y] = now[y]
    BY <1>2, <1>7, <2>1
  <2>3. DOMAIN after = Reg /\ after = [y \in Reg |-> after[y]]
    BY DEF Shows
  <2>4. \A y \in Reg : after[y] \in Byte
    <3>1. now \in [Reg -> Byte]
      BY <1>1 DEF ClockValue, Value
    <3> HIDE DEF after, now
    <3> QED BY <1>4, <1>6, <2>2, <3>1
  <2> HIDE DEF after
  <2> QED BY <2>2, <2>3, <2>4
<1>10. UNCHANGED <<val, task, alarm, rung, began, shown, ticks>> /\ task \in Writing
  BY DEF WriteRegister
<1> HIDE DEF after, now
<1>11. /\ after["second"] \in {val["second"], now["second"]}
       /\ after["minute"] \in {val["minute"], now["minute"]}
       /\ after["hour"] \in {val["hour"], now["hour"]}
       /\ after["day"] \in {val["day"], now["day"]}
       /\ after["month"] \in {val["month"], now["month"]}
       /\ after["year"] \in {FromRegister(r), now["year"]}
  BY <1>6, <1>9 DEF Reg
<1>12. ClockValue(after)
  <2>1. InDay(after)
    BY <1>1, <1>11 DEF ProgramValue, ClockValue, InDay
  <2>2. after["day"] \in 1..31 /\ after["month"] \in 1..12 /\ after["year"] \in Years
    BY <1>1, <1>6, <1>11 DEF ProgramValue, ClockValue
  <2> QED BY <1>9, <2>1, <2>2 DEF ClockValue, Value
<1>13. task \notin Reading /\ task \notin Reads
  BY <1>10 DEF Writing, Reading, Reads
<1> QED BY <1>2, <1>7, <1>8, <1>10, <1>12, <1>13 DEF ClockInv, after

\* What is read without a tick is the clock's time.
LEMMA ReadNow ==
  ASSUME NEW v, ClockValue(v)
  PROVE  Low(v) + 60 * High(v) >= SecondOfDay(v)
<1>1. SecondOfDay(v) = Low(v) + 60 * High(v) /\ SecondOfDay(v) \in Nat
  BY Parts, ValueParts
<1> QED BY <1>1

\* A task that reads starts: what it would read now is the clock.
LEMMA StartKeeps ==
  ASSUME ClockInv, NEW name \in Tasks, NEW registers \in Todos, Start(name, registers),
         ProgramValue(val'), name \notin {"boot", "zone read"} \/ val'["year"] \in Years,
         UNCHANGED <<rtc, alarm, rung, ticks>>,
         name = "alarm" => alarm \in AlarmTimes,
         name \in Reads => registers \in BeforeSecond
  PROVE  ClockInv'
<1> DEFINE now == Shows(rtc)
<1>1. /\ task' = name /\ todo' = registers /\ began' = now /\ shown' = {now}
      /\ now' = now /\ ClockValue(now)
  BY DEF Start, ClockInv
<1>2. ASSUME name \in Reads PROVE NotBehind(now)'
  <2>1. Low(now) + 60 * High(now) >= SecondOfDay(now)
    BY <1>1, ReadNow
  <2> HIDE DEF now
  <2> QED BY <1>1, <1>2, <2>1, TodosApart DEF NotBehind
<1> HIDE DEF now
<1>3. now' \in shown' /\ (\A v \in shown' : ClockValue(v)) /\ ClockValue(began')
  BY <1>1
<1> QED BY <1>1, <1>2, <1>3 DEF ClockInv, now

\* A task ends.
LEMMA FinishKeeps ==
  ASSUME ClockInv, Finish, rung' \in BOOLEAN, UNCHANGED <<rtc, val, alarm, ticks>>
  PROVE  ClockInv'
<1>1. /\ task' = "none" /\ todo' = <<>> /\ UNCHANGED <<began, shown>>
  BY DEF Finish
<1>2. /\ task' \in Tasks /\ task' \notin Reading /\ task' \notin Reads
      /\ task' \notin {"boot", "zone read"} /\ task' # "alarm"
  BY <1>1 DEF Tasks, Reading, Reads
<1>3. todo' \in Todos
  BY <1>1 DEF Todos, Behind
<1> QED BY <1>1, <1>2, <1>3 DEF ClockInv

\* The lists of registers that a task starts with.
LEMMA Lists ==
  /\ TimeRegs \in BeforeSecond /\ TimeRegs \o DateRegs \in BeforeSecond
  /\ TimeRegs \in Todos /\ TimeRegs \o DateRegs \in Todos /\ DateRegs \in Todos
  BY AllRegsInOrder DEF BeforeSecond, Behind, Todos

\* The boot's correction of the time zone.
LEMMA ZoneKeeps == ClockInv /\ (ZoneRead \/ ZoneWrite \/ ZoneDone) => ClockInv'
<1> SUFFICES ASSUME ClockInv, ZoneRead \/ ZoneWrite \/ ZoneDone PROVE ClockInv'
  OBVIOUS
<1>1. CASE ZoneRead
  <2>1. /\ task = "boot" /\ Start("zone read", TimeRegs \o DateRegs)
        /\ UNCHANGED <<rtc, val, alarm, rung, ticks>>
    BY <1>1 DEF ZoneRead
  <2>2. ProgramValue(val') /\ val'["year"] \in Years
    BY <2>1 DEF ClockInv
  <2>3. "zone read" \in Tasks
    BY DEF Tasks
  <2> QED BY <2>1, <2>2, <2>3, Lists, StartKeeps
<1>2. CASE ZoneWrite
  <2>1. /\ task = "zone read" /\ val' = FourHoursBack(val)
        /\ task' = "zone write" /\ todo' = TimeRegs \o DateRegs
        /\ UNCHANGED <<rtc, alarm, rung, began, shown, ticks>>
    BY <1>2 DEF ZoneWrite
  <2>2. ProgramValue(val')
    BY <2>1, ZoneValue DEF ClockInv
  <2>3. /\ task' \in Tasks /\ task' \notin Reading /\ task' \notin Reads
        /\ task' \notin {"boot", "zone read"} /\ task' # "alarm"
    BY <2>1 DEF Tasks, Reading, Reads
  <2> QED BY <2>1, <2>2, <2>3, Lists DEF ClockInv
<1>3. CASE ZoneDone
  BY <1>3, FinishKeeps DEF ZoneDone, ClockInv
<1> QED BY <1>1, <1>2, <1>3

\* The commands and the alarm.
LEMMA TasksKeep ==
  ClockInv /\ (User \/ CommandDone \/ AlarmLook \/ AlarmDone) => ClockInv'
<1> SUFFICES ASSUME ClockInv, User \/ CommandDone \/ AlarmLook \/ AlarmDone PROVE ClockInv'
  OBVIOUS
<1>1. CASE ShowClock
  <2>1. UNCHANGED <<rtc, val, alarm, rung, ticks>> /\ ProgramValue(val')
    BY <1>1 DEF ShowClock, ClockInv
  <2>2. /\ {"show", "show date"} \subseteq Tasks /\ "show date" \notin Reads
    BY DEF Tasks, Reads
  <2>3. CASE \E registers \in {TimeRegs, TimeRegs \o DateRegs} : Start("show", registers)
    BY <2>1, <2>2, <2>3, Lists, StartKeeps
  <2>4. CASE Start("show date", DateRegs)
    BY <2>1, <2>2, <2>4, Lists, StartKeeps
  <2> QED BY <1>1, <2>3, <2>4 DEF ShowClock
<1>2. ASSUME NEW v \in Settings, SetClock(v) PROVE ClockInv'
  <2>1. val' = v /\ UNCHANGED <<rtc, alarm, rung, ticks>>
    BY <1>2 DEF SetClock
  <2>2. ProgramValue(v)
    <3>1. v \in Setting
      BY ClockAssumption
    <3>2. v \in Value
      BY <3>1 DEF Setting, Value, Reg, Byte
    <3>3. /\ v["year"] \in 0..99 \cup 247..255 /\ InDay(v)
          /\ v["day"] \in 1..31 /\ v["month"] \in 1..12
      BY <3>1 DEF Setting, InDay
    <3>4. 0..99 \cup 247..255 \subseteq AnyYears
      BY ClockAssumption DEF AnyYears, Byte
    <3> QED BY <3>2, <3>3, <3>4 DEF ProgramValue
  <2>3. "set" \in Tasks /\ "set" \notin Reads
    BY DEF Tasks, Reads
  <2>4. \E registers \in {TimeRegs, DateRegs} : Start("set", registers)
    BY <1>2 DEF SetClock
  <2> QED BY <2>1, <2>2, <2>3, <2>4, Lists, StartKeeps
<1>3. ASSUME NEW a \in AlarmTimes, SetAlarm(a) PROVE ClockInv'
  <2>1. /\ task = "none" /\ alarm' = a
        /\ UNCHANGED <<rtc, val, task, todo, rung, began, shown, ticks>>
    BY <1>3 DEF SetAlarm
  <2>2. task \notin Reads /\ task \notin Reading
    BY <2>1 DEF Reads, Reading
  <2> QED BY <2>1, <2>2 DEF ClockInv
<1>4. CASE CommandDone
  BY <1>4, FinishKeeps DEF CommandDone, ClockInv
<1>5. CASE AlarmLook
  <2>1. /\ alarm \in AlarmTimes /\ Start("alarm", TimeRegs)
        /\ UNCHANGED <<rtc, val, alarm, rung, ticks>> /\ ProgramValue(val')
    BY <1>5 DEF AlarmLook, ClockInv
  <2>2. "alarm" \in Tasks
    BY DEF Tasks
  <2> QED BY <2>1, <2>2, Lists, StartKeeps
<1>6. CASE AlarmDone
  BY <1>6, FinishKeeps DEF AlarmDone, Due
<1> QED BY <1>1, <1>2, <1>3, <1>4, <1>5, <1>6 DEF User

\* The invariant of the clock holds, wherever the ticks fall.
THEOREM ClockInvariance == Spec => []ClockInv
<1>1. ClockInv /\ [Next]_vars => ClockInv'
  <2>1. ClockInv /\ UNCHANGED vars => ClockInv'
    <3> SUFFICES ASSUME ClockInv, UNCHANGED vars PROVE ClockInv'
      OBVIOUS
    <3>1. UNCHANGED <<rtc, val, task, todo, alarm, rung, began, shown, ticks>>
      BY DEF vars
    <3>2. MidnightFell' <=> MidnightFell
      BY <3>1 DEF MidnightFell
    <3>3. NotBehind(Shows(rtc))' <=> NotBehind(Shows(rtc))
      BY <3>1 DEF NotBehind
    <3> QED BY <3>1, <3>2, <3>3 DEF ClockInv
  <2>2. ClockInv /\ Next => ClockInv'
    <3> SUFFICES ASSUME ClockInv, Next PROVE ClockInv'
      OBVIOUS
    <3> QED BY TickKeeps, ReadKeeps, WriteKeeps, ZoneKeeps, TasksKeep DEF Next
  <2> QED BY <2>1, <2>2
<1> QED BY <1>1, ClockStarts, PTL DEF Spec

----------------------------------------------------------------------------
\* The variables keep their types; the fields stay bytes through every
\* conversion and correction.
THEOREM TypeCorrectness == Spec => []TypeOK
<1>1. ClockInv => TypeOK
  BY TodosType DEF ClockInv, TypeOK, ClockValue, ProgramValue
<1> QED BY <1>1, ClockInvariance, PTL

(***************************************************************************)
(* The registers always hold a valid time and date in their coding, when   *)
(* it is BCD (set_time, set_date, tz_correction).  In binary a year that   *)
(* is set below 0 is stored as it is, and is none.                         *)
(***************************************************************************)
THEOREM RegistersStayValid ==
  ASSUME ~Binary
  PROVE  Spec => []RegistersValid
<1>1. ClockInv => RegistersValid
  <2> SUFFICES ASSUME ClockInv PROVE RegistersValid
    OBVIOUS
  <2> DEFINE v == Shows(rtc)
  <2>1. ClockValue(v) /\ RoundTrip(rtc)
    BY DEF ClockInv
  <2> HIDE DEF v
  <2>2. /\ v["second"] < 60 /\ v["minute"] < 60 /\ v["hour"] < 24
        /\ v["day"] \in 1..31 /\ v["month"] \in 1..12 /\ v["year"] < 100
    BY <2>1 DEF ClockValue, InDay, Years
  <2> QED BY <2>1, <2>2 DEF RegistersValid, RoundTrip, v
<1> QED BY <1>1, ClockInvariance, PTL

(***************************************************************************)
(* What get_time has put together is not behind the clock when it was      *)
(* called, however many ticks fell between its reads.                      *)
(***************************************************************************)
THEOREM ReadsNeverBehind == Spec => []NeverBehind
<1>1. ClockInv => NeverBehind
  <2> SUFFICES ASSUME ClockInv, TimeRead, ~MidnightFell
               PROVE  SecondOfDay(val) >= SecondOfDay(began)
    BY DEF NeverBehind
  <2>1. todo \in Behind /\ task \in Reads
    BY DEF TimeRead, Behind, Reads
  <2>2. Low(val) + 60 * High(val) >= SecondOfDay(began)
    BY <2>1 DEF ClockInv, NotBehind
  <2> QED BY <2>2, Parts
<1> QED BY <1>1, ClockInvariance, PTL

\* A time that is not due is before the alarm's.
LEMMA NotDueIsBefore ==
  ASSUME NEW v, ProgramValue(v), NEW a \in AlarmTimes, ~Due(v, a)
  PROVE  SecondOfDay(v) < SecondOfDay(a)
<1>1. /\ v["second"] \in 0..59 /\ v["minute"] \in 0..59 /\ v["hour"] \in 0..23
  BY DEF ProgramValue, InDay
<1>2. a \in [second : 0..59, minute : 0..59, hour : 0..23]
  BY ClockAssumption
<1>3. /\ a["second"] \in 0..59 /\ a["minute"] \in 0..59 /\ a["hour"] \in 0..23
  BY <1>2
<1>4. /\ ~(v["hour"] > a["hour"])
      /\ ~(v["hour"] = a["hour"] /\ v["minute"] > a["minute"])
      /\ ~(v["hour"] = a["hour"] /\ v["minute"] = a["minute"] /\ v["second"] >= a["second"])
  BY DEF Due
<1> DEFINE s == v["second"]
           m == v["minute"]
           h == v["hour"]
           s1 == a["second"]
           m1 == a["minute"]
           h1 == a["hour"]
<1>5. SecondOfDay(v) = s + 60 * (m + 60 * h) /\ SecondOfDay(a) = s1 + 60 * (m1 + 60 * h1)
  BY DEF SecondOfDay
<1>6. /\ s \in 0..59 /\ m \in 0..59 /\ h \in 0..23
      /\ s1 \in 0..59 /\ m1 \in 0..59 /\ h1 \in 0..23
      /\ ~(h > h1) /\ ~(h = h1 /\ m > m1) /\ ~(h = h1 /\ m = m1 /\ s >= s1)
  BY <1>1, <1>3, <1>4
<1> HIDE DEF s, m, h, s1, m1, h1
<1>7. s + 60 * (m + 60 * h) < s1 + 60 * (m1 + 60 * h1)
  BY <1>6
<1> QED BY <1>5, <1>7

(***************************************************************************)
(* An alarm that goes back to sleep was not due when it began to read the  *)
(* clock (or midnight fell meanwhile).                                     *)
(***************************************************************************)
THEOREM AlarmSleepsInTime == Spec => AlarmSleepsOnlyBeforeItsTime
<1>1. ClockInv /\ [Next]_vars =>
        [task = "alarm" /\ task' = "none" /\ ~rung' =>
           SecondOfDay(began) < SecondOfDay(alarm) \/ MidnightFell]_vars
  <2> SUFFICES ASSUME ClockInv, Next, task = "alarm", task' = "none", ~rung', ~MidnightFell
               PROVE  SecondOfDay(began) < SecondOfDay(alarm)
    OBVIOUS
  <2>1. AlarmDone
    BY DEF Next, Tick, ReadRegister, WriteRegister, ZoneRead, ZoneWrite, ZoneDone, Start,
           User, ShowClock, SetClock, SetAlarm, CommandDone, AlarmLook
  <2>2. todo = <<>> /\ rung' = Due(val, alarm)
    BY <2>1 DEF AlarmDone
  <2>3. SecondOfDay(val) < SecondOfDay(alarm)
    BY <2>2, NotDueIsBefore DEF ClockInv
  <2>4. todo \in Behind /\ task \in Reads
    BY <2>2 DEF Behind, Reads
  <2>5. Low(val) + 60 * High(val) >= SecondOfDay(began)
    BY <2>4 DEF ClockInv, NotBehind
  <2>6. SecondOfDay(val) \in Nat /\ SecondOfDay(began) \in Nat
    BY ValueParts DEF ClockInv
  <2>7. SecondOfDay(val) >= SecondOfDay(began)
    BY <2>5, Parts
  <2>8. SecondOfDay(alarm) \in Int
    <3>1. alarm \in [second : 0..59, minute : 0..59, hour : 0..23]
      BY ClockAssumption DEF ClockInv
    <3>2. alarm["second"] \in Nat /\ alarm["minute"] \in Nat /\ alarm["hour"] \in Nat
      BY <3>1
    <3> QED BY <3>2 DEF SecondOfDay
  <2> QED BY <2>3, <2>6, <2>7, <2>8
<1> QED BY <1>1, ClockInvariance, PTL DEF Spec, AlarmSleepsOnlyBeforeItsTime

----------------------------------------------------------------------------
(***************************************************************************)
(* The correction of the time zone.                                        *)
(***************************************************************************)
\* The months follow each other without a gap.
LEMMA MonthsFollow ==
  ASSUME NEW m \in 2..12, NEW y \in Nat
  PROVE  DaysBeforeMonth(m, y) = DaysBeforeMonth(m - 1, y) + DaysIn(m - 1, y)
<1>1. m = 2 \/ m = 3 \/ m = 4 \/ m = 5 \/ m = 6 \/ m = 7 \/ m = 8 \/ m = 9
      \/ m = 10 \/ m = 11 \/ m = 12
  OBVIOUS
<1>2. CASE m = 2 \/ m = 3 \/ m = 4
  BY <1>2 DEF DaysBeforeMonth, DaysIn
<1>3. CASE m = 5 \/ m = 6 \/ m = 7 \/ m = 8
  BY <1>3 DEF DaysBeforeMonth, DaysIn
<1>4. CASE m = 9 \/ m = 10 \/ m = 11 \/ m = 12
  BY <1>4 DEF DaysBeforeMonth, DaysIn
<1> QED BY <1>1, <1>2, <1>3, <1>4

\* And so do the years, the leap years among them.
LEMMA YearsFollow ==
  ASSUME NEW y \in Nat, y > 0
  PROVE  /\ DaysBeforeYear(y) =
              DaysBeforeYear(y - 1) + DaysBeforeMonth(12, y - 1) + DaysIn(12, y - 1)
         /\ DaysBeforeMonth(1, y) = 0
<1>1. /\ DaysBeforeMonth(12, y - 1) = 334 + IF Leap(y - 1) THEN 1 ELSE 0
      /\ DaysIn(12, y - 1) = 31 /\ DaysBeforeMonth(1, y) = 0
  BY DEF DaysBeforeMonth, DaysIn
<1>2. (y + 3) \div 4 = (y - 1 + 3) \div 4 + IF Leap(y - 1) THEN 1 ELSE 0
  BY DEF Leap
<1> QED BY <1>1, <1>2 DEF DaysBeforeYear

\* HourNumber counts from the fields; it is a number.
LEMMA DaysAreNumbers ==
  ASSUME NEW m \in 1..12, NEW y \in Nat
  PROVE  DaysBeforeMonth(m, y) \in Nat /\ DaysBeforeYear(y) \in Nat
<1>1. DaysBeforeYear(y) \in Nat
  BY DEF DaysBeforeYear
<1>2. DaysBeforeMonth(m, y) \in Nat
  <2>1. m = 1 \/ m = 2 \/ m = 3 \/ m = 4 \/ m = 5 \/ m = 6 \/ m = 7 \/ m = 8
        \/ m = 9 \/ m = 10 \/ m = 11 \/ m = 12
    OBVIOUS
  <2>2. CASE m = 1 \/ m = 2 \/ m = 3 \/ m = 4 \/ m = 5 \/ m = 6
    BY <2>2 DEF DaysBeforeMonth
  <2>3. CASE m = 7 \/ m = 8 \/ m = 9 \/ m = 10 \/ m = 11 \/ m = 12
    BY <2>3 DEF DaysBeforeMonth
  <2> QED BY <2>1, <2>2, <2>3
<1> QED BY <1>1, <1>2

(***************************************************************************)
(* tz_correction: four hours less, by the calendar, and a value that is    *)
(* stored and read back as it is.                                          *)
(***************************************************************************)
LEMMA FourHoursLess ==
  ASSUME NEW v, ClockValue(v), v["year"] > 0
  PROVE  LET w == FourHoursBack(v)
         IN  /\ HourNumber(w) = HourNumber(v) - 4
             /\ w["minute"] = v["minute"] /\ w["second"] = v["second"]
             /\ \A x \in Reg : w[x] \in Years
<1> DEFINE w == FourHoursBack(v)
           Count(h, d, m, y) ==
             24 * (DaysBeforeYear(y) + DaysBeforeMonth(m, y) + d - 1) + h
<1> SUFFICES /\ HourNumber(w) = HourNumber(v) - 4
             /\ w["minute"] = v["minute"] /\ w["second"] = v["second"]
             /\ \A x \in Reg : w[x] \in Years
  OBVIOUS
<1>1. /\ v \in [Reg -> Byte] /\ InDay(v) /\ v["day"] \in 1..31
      /\ v["month"] \in 1..12 /\ v["year"] \in Years
      /\ v["hour"] \in 0..23
  BY DEF ClockValue, Value, InDay
<1>2. /\ 0..59 \subseteq Years /\ Years \subseteq Byte /\ Years \subseteq 0..255
      /\ \A y \in Years : y > 0 => YearBefore(y) = y - 1 /\ y - 1 \in Years
  BY ClockAssumption DEF Years, Byte, YearBefore
<1> DEFINE h == v["hour"]
           d == v["day"]
           m == v["month"]
           y == v["year"]
<1>3. HourNumber(v) = Count(h, d, m, y)
  BY DEF HourNumber
<1>4. h \in 0..23 /\ d \in 1..31 /\ m \in 1..12 /\ y \in Years /\ y > 0 /\ y \in Nat
  <2>1. h \in 0..23 /\ d \in 1..31 /\ m \in 1..12 /\ y \in Years /\ y > 0
    BY <1>1
  <2> HIDE DEF y
  <2>2. y \in 0..255
    BY <1>2, <2>1
  <2> QED BY <2>1, <2>2
<1>5. ASSUME NEW h2 \in 0..23, NEW d2 \in 1..31, NEW m2 \in 1..12, NEW y2 \in Years,
             w = [v EXCEPT !["hour"] = h2, !["day"] = d2, !["month"] = m2, !["year"] = y2],
             Count(h2, d2, m2, y2) = Count(h, d, m, y) - 4
      PROVE  /\ HourNumber(w) = HourNumber(v) - 4
             /\ w["minute"] = v["minute"] /\ w["second"] = v["second"]
             /\ \A x \in Reg : w[x] \in Years
  <2> HIDE DEF w
  <2>1. /\ w["hour"] = h2 /\ w["day"] = d2 /\ w["month"] = m2 /\ w["year"] = y2
        /\ w["minute"] = v["minute"] /\ w["second"] = v["second"]
    BY <1>1, <1>5 DEF Reg
  <2>2. HourNumber(w) = Count(h2, d2, m2, y2)
    BY <2>1 DEF HourNumber
  <2>3. h2 \in Years /\ d2 \in Years /\ m2 \in Years
    <3>1. h2 \in 0..59 /\ d2 \in 0..59 /\ m2 \in 0..59
      OBVIOUS
    <3> QED BY <1>2, <3>1
  <2>4. v["minute"] \in Years /\ v["second"] \in Years
    BY <1>1, <1>2 DEF InDay
  <2> HIDE DEF Count
  <2> QED BY <1>3, <1>5, <2>1, <2>2, <2>3, <2>4 DEF Reg
<1>6. CASE h >= 4
  <2>1. w = [v EXCEPT !["hour"] = h - 4, !["day"] = d, !["month"] = m, !["year"] = y]
    BY <1>1, <1>6 DEF FourHoursBack, Reg
  <2> HIDE DEF w, h, d, m, y
  <2>2. h - 4 \in 0..23
    BY <1>4, <1>6
  <2>3. Count(h - 4, d, m, y) = Count(h, d, m, y) - 4
    <3>1. DaysBeforeMonth(m, y) \in Nat /\ DaysBeforeYear(y) \in Nat
      BY <1>4, DaysAreNumbers
    <3> QED BY <1>4, <3>1
  <2> QED BY <1>4, <1>5, <2>1, <2>2, <2>3
<1>7. CASE ~(h >= 4)
  <2> DEFINE u == [v EXCEPT !["hour"] = @ + 20]
  <2>1. w = DayBefore(u)
    BY <1>7 DEF FourHoursBack
  <2>2. /\ u["day"] = d /\ u["month"] = m /\ u["year"] = y
        /\ u = [v EXCEPT !["hour"] = h + 20]
    BY <1>1 DEF Reg
  <2>3. h + 20 \in 0..23
    BY <1>4, <1>7
  <2>4. DaysBeforeMonth(m, y) \in Nat /\ DaysBeforeYear(y) \in Nat
    BY <1>4, DaysAreNumbers
  <2>5. CASE d > 1
    <3>1. w = [v EXCEPT !["hour"] = h + 20, !["day"] = d - 1, !["month"] = m,
                        !["year"] = y]
      BY <1>1, <2>1, <2>2, <2>5 DEF DayBefore, Reg
    <3> HIDE DEF w, h, d, m, y
    <3>2. d - 1 \in 1..31
      BY <1>4, <2>5
    <3>3. Count(h + 20, d - 1, m, y) = Count(h, d, m, y) - 4
      BY <1>4, <2>4
    <3> QED BY <1>4, <1>5, <2>3, <3>1, <3>2, <3>3
  <2>6. CASE ~(d > 1) /\ m > 1
    <3> DEFINE last == DaysIn(m - 1, y)
    <3>1. w = [v EXCEPT !["hour"] = h + 20, !["day"] = last, !["month"] = m - 1,
                        !["year"] = y]
      BY <1>1, <2>1, <2>2, <2>6 DEF DayBefore, LastOfMonth, Reg
    <3>2. last \in 1..31
      BY DEF DaysIn
    <3> HIDE DEF w, h, d, m, y, last
    <3>3. m - 1 \in 1..12 /\ m \in 2..12 /\ d = 1
      BY <1>4, <2>6
    <3>4. DaysBeforeMonth(m, y) = DaysBeforeMonth(m - 1, y) + last
      BY <1>4, <3>3, MonthsFollow DEF last
    <3>5. DaysBeforeMonth(m - 1, y) \in Nat
      BY <1>4, <3>3, DaysAreNumbers
    <3>6. Count(h + 20, last, m - 1, y) = Count(h, d, m, y) - 4
      BY <1>4, <2>4, <3>2, <3>3, <3>4, <3>5
    <3> QED BY <1>4, <1>5, <2>3, <3>1, <3>2, <3>3, <3>6
  <2>7. CASE ~(d > 1) /\ ~(m > 1)
    <3> DEFINE last == DaysIn(12, y - 1)
    <3>1. w = [v EXCEPT !["hour"] = h + 20, !["day"] = last, !["month"] = 12,
                        !["year"] = y - 1]
      BY <1>1, <1>2, <1>4, <2>1, <2>2, <2>7 DEF DayBefore, LastOfMonth, Reg
    <3>2. last \in 1..31
      BY DEF DaysIn
    <3> HIDE DEF w, h, d, m, y, last
    <3>3. m = 1 /\ d = 1 /\ y - 1 \in Years /\ y - 1 \in Nat
      BY <1>2, <1>4, <2>7
    <3>4. /\ DaysBeforeYear(y) =
               DaysBeforeYear(y - 1) + DaysBeforeMonth(12, y - 1) + last
          /\ DaysBeforeMonth(m, y) = 0
      BY <1>4, <3>3, YearsFollow DEF last
    <3>5. DaysBeforeMonth(12, y - 1) \in Nat /\ DaysBeforeYear(y - 1) \in Nat
      BY <3>3, DaysAreNumbers
    <3>6. Count(h + 20, last, 12, y - 1) = Count(h, d, m, y) - 4
      BY <1>4, <3>2, <3>3, <3>4, <3>5
    <3>7. 12 \in 1..12
      OBVIOUS
    <3> HIDE DEF Count
    <3> DEFINE y1 == y - 1
    <3>8. y1 \in Years
      BY <3>3
    <3>9. /\ w = [v EXCEPT !["hour"] = h + 20, !["day"] = last, !["month"] = 12,
                           !["year"] = y1]
          /\ Count(h + 20, last, 12, y1) = Count(h, d, m, y) - 4
      BY <3>1, <3>6
    <3> HIDE DEF y1
    <3> QED BY <1>5, <2>3, <3>2, <3>7, <3>8, <3>9
  <2> QED BY <2>5, <2>6, <2>7
<1> QED BY <1>6, <1>7

\* A tick changes the seconds.
LEMMA TickIsSeen ==
  ASSUME NEW v, ClockValue(v)
  PROVE  NextSecond(v)["second"] # v["second"]
<1>1. v \in [Reg -> Byte] /\ v["second"] \in 0..59 /\ "second" \in Reg
  BY DEF ClockValue, Value, InDay, Reg
<1>2. CASE v["second"] < 59
  <2>1. NextSecond(v) = [v EXCEPT !["second"] = @ + 1]
    BY <1>2 DEF NextSecond
  <2>2. NextSecond(v)["second"] = v["second"] + 1
    BY <1>1, <2>1
  <2> QED BY <1>1, <2>2
<1>3. CASE ~(v["second"] < 59)
  <2>1. NextSecond(v)["second"] = 0
    BY <1>1, <1>3 DEF NextSecond, NextDay, Reg
  <2> QED BY <1>1, <1>3, <2>1
<1> QED BY <1>2, <1>3

\* The registers in a list.
Pending(t) == {t[i] : i \in DOMAIN t}

\* Accessing the first register of a list takes it out of the list.
LEMMA PendingStep ==
  /\ Pending(<<>>) = {} /\ Pending(AllRegs) = Reg
  /\ \A t \in Todos : t # <<>> =>
       Head(t) \notin Pending(Tail(t)) /\ Pending(t) = {Head(t)} \cup Pending(Tail(t))
<1> DEFINE t5 == <<"minute", "hour", "day", "month", "year">>
           t4 == <<"hour", "day", "month", "year">>
<1>1. Pending(<<>>) = {} /\ Pending(<<"year">>) = {"year"}
  BY DEF Pending
<1>2. Pending(<<"month", "year">>) = {"month", "year"}
  BY DEF Pending
<1>3. Pending(DateRegs) = {"day", "month", "year"}
  BY DEF Pending, DateRegs
<1>4. Pending(t4) = {"hour", "day", "month", "year"}
  BY DEF Pending
<1>5. Pending(t5) = {"minute", "hour", "day", "month", "year"}
  BY DEF Pending
<1>6. Pending(AllRegs) = {"second", "minute", "hour", "day", "month", "year"}
  BY DEF Pending, AllRegs
<1>7. Pending(<<"hour">>) = {"hour"} /\ Pending(<<"minute", "hour">>) = {"minute", "hour"}
  BY DEF Pending
<1>8. Pending(TimeRegs) = {"second", "minute", "hour"}
  BY DEF Pending, TimeRegs
<1> HIDE DEF t5, t4
<1>9. ASSUME NEW t \in Todos, t # <<>>
      PROVE  Head(t) \notin Pending(Tail(t)) /\ Pending(t) = {Head(t)} \cup Pending(Tail(t))
  <2>1. CASE t \in BeforeSecond
    BY <1>5, <1>6, <1>7, <1>8, <2>1, TailsOfTodos DEF BeforeSecond, t5
  <2>2. CASE t \in BeforeMinute
    BY <1>4, <1>5, <1>7, <2>2, TailsOfTodos DEF BeforeMinute, t5, t4
  <2>3. CASE t \in BeforeHour
    BY <1>1, <1>3, <1>4, <1>7, <2>3, TailsOfTodos DEF BeforeHour, t4
  <2>4. CASE t \in Behind
    BY <1>1, <1>2, <1>3, <1>9, <2>4, TailsOfTodos DEF Behind
  <2> QED BY <2>1, <2>2, <2>3, <2>4 DEF Todos
<1> QED BY <1>1, <1>6, <1>9 DEF Reg

(***************************************************************************)
(* While no tick falls: what has been read is the clock as it was, and     *)
(* what has been written is four hours less.                               *)
(***************************************************************************)
ZoneInv ==
  /\ task \in {"zone read", "zone write"} => began \in shown
  /\ task = "zone read" /\ shown = {began} =>
       /\ Shows(rtc) = began
       /\ \A x \in Reg \ Pending(todo) : val[x] = began[x]
  /\ task = "zone write" /\ shown = {began} /\ began["year"] > 0 =>
       /\ val = FourHoursBack(began)
       /\ \A x \in Reg : Shows(rtc)[x] = IF x \in Pending(todo) THEN began[x] ELSE val[x]

\* A tick shows: the clock is not as it was.
LEMMA ZoneTick == ClockInv /\ ZoneInv /\ Tick => ZoneInv'
<1> SUFFICES ASSUME ClockInv, ZoneInv, Tick PROVE ZoneInv'
  OBVIOUS
<1> DEFINE now == Shows(rtc)
           next == NextSecond(now)
<1>1. ClockValue(now) /\ ClockValue(next) /\ next["second"] # now["second"]
  BY NextSecondStep, TickIsSeen DEF ClockInv
<1>2. rtc' = [x \in Reg |-> ToRegister(next[x])]
  BY DEF Tick
<1> HIDE DEF next
<1>3. Shows(rtc') = next
  BY <1>1, <1>2, Coded
<1>4. /\ shown' = shown \cup {next} /\ UNCHANGED <<val, task, todo, began>>
  BY <1>3 DEF Tick
<1>5. CASE task = "zone read"
  <2>1. shown' # {began'}
    <3> SUFFICES ASSUME shown \cup {next} = {began} PROVE FALSE
      BY <1>4
    <3>0. began \in shown
      BY <1>5 DEF ZoneInv
    <3>1. began \in shown /\ shown = {began} /\ next = began
      <4>1. \A s, n, b : b \in s /\ s \cup {n} = {b} => s = {b} /\ n = b
        OBVIOUS
      <4> QED BY ONLY <3>0, <4>1, shown \cup {next} = {began}
    <3>2. now = began
      BY <1>5, <3>1 DEF ZoneInv
    <3> QED BY <1>1, <3>1, <3>2
  <2> QED BY <1>4, <1>5, <2>1 DEF ZoneInv
<1>6. CASE task = "zone write"
  <2>1. shown' # {began'} \/ ~(began["year"] > 0)
    <3> SUFFICES ASSUME shown \cup {next} = {began}, began["year"] > 0 PROVE FALSE
      BY <1>4
    <3>0. began \in shown
      BY <1>6 DEF ZoneInv
    <3>1. began \in shown /\ shown = {began} /\ next = began
      <4>1. \A s, n, b : b \in s /\ s \cup {n} = {b} => s = {b} /\ n = b
        OBVIOUS
      <4> QED BY ONLY <3>0, <4>1, shown \cup {next} = {began}
    <3>2. val = FourHoursBack(began) /\ now["second"] \in {began["second"], val["second"]}
      BY <1>6, <3>1 DEF ZoneInv, Reg
    <3>3. val["second"] = began["second"]
      BY <3>2, FourHoursLess DEF ClockInv
    <3> QED BY <1>1, <3>1, <3>2, <3>3
  <2> QED BY <1>4, <1>6, <2>1 DEF ZoneInv
<1>7. CASE task \notin {"zone read", "zone write"}
  BY <1>4, <1>7 DEF ZoneInv
<1> QED BY <1>5, <1>6, <1>7

\* A register is read, or written.
LEMMA ZoneAccess == ClockInv /\ ZoneInv /\ (ReadRegister \/ WriteRegister) => ZoneInv'
<1> SUFFICES ASSUME ClockInv, ZoneInv, ReadRegister \/ WriteRegister PROVE ZoneInv'
  OBVIOUS
<1> DEFINE x == Head(todo)
<1>1. /\ todo \in Todos /\ todo # <<>> /\ todo' = Tail(todo)
      /\ UNCHANGED <<task, began, shown>>
  BY DEF ClockInv, ReadRegister, WriteRegister
<1>2. /\ x \notin Pending(todo') /\ Pending(todo) = {x} \cup Pending(todo')
      /\ x \in Reg
  <2>1. x \in Reg
    BY <1>1, TodoStep DEF Reg
  <2> QED BY <1>1, <2>1, PendingStep
<1>3. val \in [Reg -> Byte] /\ rtc \in [Reg -> Byte]
  BY DEF ClockInv, ProgramValue, Value
<1>4. CASE ReadRegister
  <2>1. /\ task # "zone write" /\ rtc' = rtc
        /\ val' = [val EXCEPT ![x] = FromRegister(rtc[x])]
    BY <1>4 DEF ReadRegister, Reading
  <2>2. Shows(rtc') = Shows(rtc) /\ Shows(rtc)[x] = FromRegister(rtc[x])
    BY <1>2, <2>1 DEF Shows
  <2> HIDE DEF x
  <2>3. ASSUME task = "zone read", shown = {began}, NEW y \in Reg \ Pending(todo')
        PROVE  val'[y] = began[y]
    <3>1. Shows(rtc) = began
      BY <2>3 DEF ZoneInv
    <3>2. CASE y = x
      BY <1>2, <1>3, <2>1, <2>2, <3>1, <3>2
    <3>3. CASE y # x
      <4>1. val'[y] = val[y] /\ y \notin Pending(todo)
        BY <1>2, <1>3, <2>1, <2>3, <3>3
      <4> QED BY <2>3, <4>1 DEF ZoneInv
    <3> QED BY <3>2, <3>3
  <2> QED BY <1>1, <2>1, <2>2, <2>3 DEF ZoneInv
<1>5. CASE WriteRegister
  <2>1. /\ task # "zone read" /\ val' = val
        /\ rtc' = [rtc EXCEPT ![x] = ToRegister(val[x])]
    BY <1>5 DEF WriteRegister, Writing
  <2> HIDE DEF x
  <2>2. ASSUME task = "zone write", shown = {began}, began["year"] > 0, NEW y \in Reg
        PROVE  Shows(rtc')[y] = IF y \in Pending(todo') THEN began[y] ELSE val[y]
    <3>1. /\ val = FourHoursBack(began)
          /\ Shows(rtc)[y] = IF y \in Pending(todo) THEN began[y] ELSE val[y]
      BY <2>2 DEF ZoneInv
    <3>2. val[x] \in Years
      BY <1>2, <2>2, <3>1, FourHoursLess DEF ClockInv
    <3>3. FromRegister(ToRegister(val[x])) = val[x]
      BY <3>2, Coding
    <3>4. Shows(rtc')[y] = FromRegister(rtc'[y]) /\ Shows(rtc)[y] = FromRegister(rtc[y])
      BY DEF Shows
    <3>5. CASE y = x
      BY <1>2, <1>3, <2>1, <3>3, <3>4, <3>5
    <3>6. CASE y # x
      <4>1. rtc'[y] = rtc[y]
        BY <1>2, <1>3, <2>1, <3>6
      <4>2. y \in Pending(todo') <=> y \in Pending(todo)
        BY <1>2, <3>6
      <4> QED BY <3>1, <3>4, <4>1, <4>2
    <3> QED BY <3>5, <3>6
  <2> QED BY <1>1, <2>1, <2>2 DEF ZoneInv
<1> QED BY <1>4, <1>5

\* The other steps: the correction starts, and what is read is corrected.
LEMMA ZoneTasks ==
  ClockInv /\ ZoneInv
    /\ (ZoneRead \/ ZoneWrite \/ ZoneDone \/ User \/ CommandDone \/ AlarmLook \/ AlarmDone)
  => ZoneInv'
<1> SUFFICES ASSUME ClockInv, ZoneInv,
                    \/ ZoneRead \/ ZoneWrite \/ ZoneDone \/ User \/ CommandDone
                    \/ AlarmLook \/ AlarmDone
             PROVE  ZoneInv'
  OBVIOUS
<1>1. CASE ZoneRead
  <2>1. /\ task' = "zone read" /\ todo' = AllRegs /\ began' = Shows(rtc)
        /\ shown' = {began'} /\ rtc' = rtc
    BY <1>1, AllRegsInOrder DEF ZoneRead, Start
  <2>2. Shows(rtc') = Shows(rtc)
    BY <2>1
  <2> QED BY <2>1, <2>2, PendingStep DEF ZoneInv
<1>2. CASE ZoneWrite
  <2>1. /\ task = "zone read" /\ todo = <<>> /\ val' = FourHoursBack(val)
        /\ task' = "zone write" /\ todo' = AllRegs
        /\ UNCHANGED <<rtc, began, shown>>
    BY <1>2, AllRegsInOrder DEF ZoneWrite
  <2>2. ASSUME shown = {began}
        PROVE  /\ val' = FourHoursBack(began)
               /\ \A x \in Reg : Shows(rtc)[x] = began[x]
    <3>1. Shows(rtc) = began /\ \A x \in Reg : val[x] = began[x]
      BY <2>1, <2>2, PendingStep DEF ZoneInv
    <3>2. val \in [Reg -> Byte] /\ began \in [Reg -> Byte]
      BY DEF ClockInv, ClockValue, ProgramValue, Value
    <3>3. val = began
      BY <3>1, <3>2
    <3> QED BY <2>1, <3>1, <3>3
  <2>3. Shows(rtc') = Shows(rtc) /\ Pending(todo') = Reg
    BY <2>1, PendingStep
  <2> QED BY <2>1, <2>2, <2>3 DEF ZoneInv
<1>3. CASE \E a \in AlarmTimes : SetAlarm(a)
  BY <1>3 DEF SetAlarm, ZoneInv
<1>4. ASSUME task' \notin {"zone read", "zone write"} PROVE ZoneInv'
  BY <1>4 DEF ZoneInv
<1>5. CASE ZoneDone \/ CommandDone \/ AlarmLook \/ AlarmDone
  BY <1>4, <1>5 DEF ZoneDone, CommandDone, AlarmLook, AlarmDone, Finish, Start
<1>6. CASE ShowClock \/ \E v \in Settings : SetClock(v)
  BY <1>4, <1>6 DEF ShowClock, SetClock, Start
<1> QED BY <1>1, <1>2, <1>3, <1>5, <1>6 DEF User

(***************************************************************************)
(* tz_correction moves the clock back by four hours, through the ends of   *)
(* days, months, leap years and years (ZoneIsFourHoursBack), from every    *)
(* time in a year after 2000, when the clock does not tick meanwhile.      *)
(***************************************************************************)
THEOREM ZoneCorrection == Spec => []ZoneIsFourHoursBack
<1>1. Init => ZoneInv
  BY DEF Init, ZoneInv
<1>2. ClockInv /\ ZoneInv /\ [Next]_vars => ZoneInv'
  <2>1. ZoneInv /\ UNCHANGED vars => ZoneInv'
    BY DEF vars, ZoneInv
  <2> QED BY <2>1, ZoneTick, ZoneAccess, ZoneTasks DEF Next
<1>3. ClockInv /\ ZoneInv => ZoneIsFourHoursBack
  <2> SUFFICES ASSUME ClockInv, ZoneInv, task = "zone write", todo = <<>>,
                      shown = {began}, began["year"] > 0
               PROVE  /\ HourNumber(Shows(rtc)) = HourNumber(began) - 4
                      /\ \A x \in {"minute", "second"} : Shows(rtc)[x] = began[x]
    BY DEF ZoneIsFourHoursBack
  <2> DEFINE w == FourHoursBack(began)
             now == Shows(rtc)
  <2>1. \A x \in Reg : now[x] = w[x]
    BY PendingStep DEF ZoneInv
  <2>2. /\ HourNumber(w) = HourNumber(began) - 4
        /\ w["minute"] = began["minute"] /\ w["second"] = began["second"]
    BY FourHoursLess DEF ClockInv
  <2> HIDE DEF w, now
  <2>3. HourNumber(now) = HourNumber(w)
    BY <2>1 DEF HourNumber, Reg
  <2> QED BY <2>1, <2>2, <2>3 DEF Reg, now
<1> QED BY <1>1, <1>2, <1>3, ClockInvariance, PTL DEF Spec

=============================================================================
