----------------------------- MODULE SystemTime -----------------------------
(***************************************************************************)
(* stm32_systime.c.                                                        *)
(*                                                                         *)
(* The conversion between a time stamp and a date, by products and shifts  *)
(* instead of divisions.  A stamp has 32 bits, more than TLC's integers: it *)
(* is a count of units of 128 seconds, of 25 bits, and the seconds beyond;  *)
(* 86400 is 675 such units, so that the source's divisions by it look at    *)
(* the units only.  The reference is a calendar that goes on day by day.    *)
(*                                                                         *)
(* The system time: the time of the calendar, which cannot be set, and a   *)
(* difference kept in two backup registers.  Seconds have 32 bits and wrap *)
(* around; milliseconds are signed.                                        *)
(***************************************************************************)
EXTENDS Integers, Sequences

CONSTANT LastDay     \* the day the calendar stops at

ASSUME SystemTimeAssumption == LastDay \in Nat

VARIABLES day,       \* days since 1 January 1968
          civil      \* the date of that day: [year, month, mday, wday, yday]

timeVars == <<day, civil>>

CALC_REF_YEAR == 68
SECONDS_IN_1DAY == 86400
UnitsInDay == SECONDS_IN_1DAY \div 128
UNIX_REF_YEAR_COMPENSATION == (366 + 365) * UnitsInDay

(* The 32-bit number that is this many units and seconds.                   *)
Stamp(units, seconds) ==
  [units |-> (units + seconds \div 128) % 2^25, seconds |-> seconds % 128]
END_OF_FEBRUARY_LEAP == 60
END_OF_JULY_LEAP == 213
END_OF_FEBRUARY_NORM == 59
END_OF_JULY_NORM == 212

(* Days of correction of each month, two bits each in the source.           *)
DAYS_IN_MONTH_CORRECTION_NORM == <<0, 0, 2, 2, 2, 2, 2, 2, 1, 2, 1, 2>>
DAYS_IN_MONTH_CORRECTION_LEAP == <<0, 0, 1, 1, 1, 1, 1, 1, 0, 1, 0, 1>>

DIVC_BY_4(x) == (x + 3) \div 4
DIVC_BY_2(x) == (x + 1) \div 2
DIV_APPROX_60(x) == (x * 17476) \div 2^20
DIV_APPROX_86400(units) == units \div 2^11 + units \div 2^10
DIV_APPROX_61(x) == (x * 68759) \div 2^22
MODULO_7(x) == x - (((x + 1) * 299593) \div 2^21) * 7

(* x * 91867 + 22750 in 32 bits, shifted by 25; 91867 = 2^16 + 26331.       *)
DIV_365_25(x) == ((x + (x * 26331 + 22750) \div 2^16) % 2^16) \div 2^9

-----------------------------------------------------------------------------
(* Faulty variants, see the module Sequencer.                               *)

MonthOfNormalYear(days, year) ==
  CASE days < END_OF_FEBRUARY_NORM -> (days * 2) \div 61
    [] days >= END_OF_FEBRUARY_NORM /\ days < END_OF_JULY_NORM -> ((days - END_OF_FEBRUARY_NORM) * 2) \div 61 + 2
    [] OTHER -> ((days - END_OF_JULY_NORM) * 2) \div 61 + 7

-----------------------------------------------------------------------------
(* An approximate quotient is taken out until it is 0, then a last one.     *)
Quotient(in, divisor) ==
  LET Approx(x) == CASE divisor = 60 -> DIV_APPROX_60(x)
                     [] divisor = 61 -> DIV_APPROX_61(x)
                     [] divisor = UnitsInDay -> DIV_APPROX_86400(x)
      Taken[x \in Nat] ==
        IF Approx(x) >= 1 THEN Approx(x) + Taken[x - Approx(x) * divisor]
        ELSE IF x >= divisor THEN 1 ELSE 0
  IN Taken[in]

CalendarDiv61(in) == Quotient(in, 61)
CalendarDiv60(in) ==
  LET out == Quotient(in, 60) IN [out |-> out, remainder |-> in - 60 * out]

CalendarDiv86400(in) ==
  LET out == Quotient(in.units, UnitsInDay)
  IN [out |-> out, remainder |-> (in.units - out * UnitsInDay) * 128 + in.seconds]

CalendarGetMonth(days, year) ==
  LET endOfFebruary == IF year % 4 = 0 THEN END_OF_FEBRUARY_LEAP ELSE END_OF_FEBRUARY_NORM
      endOfJuly == IF year % 4 = 0 THEN END_OF_JULY_LEAP ELSE END_OF_JULY_NORM
  IN CASE days < endOfFebruary -> CalendarDiv61(days * 2)
       [] days >= endOfFebruary /\ days < endOfJuly -> CalendarDiv61((days - endOfFebruary) * 2) + 2
       [] OTHER -> CalendarDiv61((days - endOfJuly) * 2) + 7

DaysBeforeYear(year) == DIVC_BY_4((365 * 3 + 366) * year)
DaysBeforeMonth(month, year) ==
  DIVC_BY_2(month * (30 + 31))
    - (IF year % 4 = 0 THEN DAYS_IN_MONTH_CORRECTION_LEAP ELSE DAYS_IN_MONTH_CORRECTION_NORM)[month + 1]

SysTimeLocalTime(timestamp) ==
  LET split == CalendarDiv86400(Stamp(timestamp.units + UNIX_REF_YEAR_COMPENSATION, timestamp.seconds))
      days == split.out
      minutes == CalendarDiv60(split.remainder)
      hours == CalendarDiv60(minutes.out)
      year == DIV_365_25(days)
      yday == days - DaysBeforeYear(year)
      month == CalendarGetMonth(yday, year)
  IN [year |-> year + CALC_REF_YEAR, month |-> month, mday |-> yday - DaysBeforeMonth(month, year) + 1,
      wday |-> MODULO_7(1 + DIVC_BY_4(year * 5) + yday), yday |-> yday,
      hour |-> hours.out, min |-> hours.remainder, sec |-> minutes.remainder]

SysTimeMkTime(tm) ==
  LET year == tm.year - CALC_REF_YEAR
      nbdays == DaysBeforeYear(year) + DaysBeforeMonth(tm.month, year) + tm.mday - 1
  IN Stamp(nbdays * UnitsInDay - UNIX_REF_YEAR_COMPENSATION, tm.sec + tm.min * 60 + tm.hour * 3600)

-----------------------------------------------------------------------------
(* The civil calendar; 2000 is a leap year, 2100 is not.                    *)
LeapYear(year) == year % 4 = 0 /\ year # 200
DaysOfMonth(month, year) ==
  CASE month = 1 -> IF LeapYear(year) THEN 29 ELSE 28 [] month \in {3, 5, 8, 10} -> 30 [] OTHER -> 31

NextDate ==
  LET endOfMonth == civil.mday = DaysOfMonth(civil.month, civil.year)
      endOfYear == endOfMonth /\ civil.month = 11
  IN [year |-> civil.year + (IF endOfYear THEN 1 ELSE 0),
      month |-> CASE endOfYear -> 0 [] endOfMonth /\ ~endOfYear -> civil.month + 1 [] OTHER -> civil.month,
      mday |-> IF endOfMonth THEN 1 ELSE civil.mday + 1,
      wday |-> (civil.wday + 1) % 7,
      yday |-> IF endOfYear THEN 0 ELSE civil.yday + 1]

(* 1 January 1968 was a Monday.                                             *)
TimeInit == day = 0 /\ civil = [year |-> 68, month |-> 0, mday |-> 1, wday |-> 1, yday |-> 0]

NextDay == day < LastDay /\ day' = day + 1 /\ civil' = NextDate

TimeSpec == TimeInit /\ [][NextDay]_timeVars

(* Seconds of a day, other ones each day.                                   *)
Second == (day * 7919) % SECONDS_IN_1DAY

(* The stamp of that second counts from 1970, modulo 2^32.                  *)
Now == Stamp(day * UnitsInDay - UNIX_REF_YEAR_COMPENSATION, Second)

(* Every stamp of 32 bits is divided into its day and the second of it.  Up *)
(* to the end of 2095 the date is that of the civil calendar, with the time *)
(* of day, and gives the stamp back.  From 1 January 2096 the product that  *)
(* finds the year has more than 32 bits, and the year told is never right;  *)
(* what follows from it is not looked at, since its month shifts the tables *)
(* by more than their bits.                                                 *)
DatesAreCivil ==
  LET tm == SysTimeLocalTime(Now)
      before2096 == civil.year < 196
  IN /\ CalendarDiv86400(Stamp(day * UnitsInDay, Second)) = [out |-> day, remainder |-> Second]
     /\ before2096 <=> DIV_365_25(day) + CALC_REF_YEAR = civil.year
     /\ before2096 =>
          /\ \A f \in DOMAIN civil : tm[f] = civil[f]
          /\ tm.hour = Second \div 3600 /\ tm.min = (Second \div 60) % 60 /\ tm.sec = Second % 60
          /\ SysTimeMkTime(tm) = Now

-----------------------------------------------------------------------------
(* The time that goes on from what it was set to.                           *)

CONSTANTS SecondsModulus,   \* 2^32
          MsModulus,        \* 2^32, for milliseconds
          TickMs              \* milliseconds between two looks at the time

ASSUME SysTimeAssumption == SecondsModulus \in Nat \ {0} /\ MsModulus \in Nat \ {0} /\ TickMs \in 1 .. 999

VARIABLES calendarTime,     \* of the MCU
          DeltaTime,        \* backup registers
          owing               \* milliseconds the system time should count

deltaVars == <<calendarTime, DeltaTime, owing>>

AsMs(t) == t.Seconds * 1000 + t.SubSeconds
Milliseconds == SecondsModulus * 1000
Time(seconds, sub) == [Seconds |-> seconds % SecondsModulus, SubSeconds |-> sub]

-----------------------------------------------------------------------------
SysTimeAdd(a, b) ==
  LET sub == a.SubSeconds + b.SubSeconds
  IN IF sub >= 1000 THEN Time(a.Seconds + b.Seconds + 1, sub - 1000) ELSE Time(a.Seconds + b.Seconds, sub)

SysTimeSub(a, b) ==
  LET sub == a.SubSeconds - b.SubSeconds
  IN IF sub < 0 THEN Time(a.Seconds - b.Seconds - 1, sub + 1000) ELSE Time(a.Seconds - b.Seconds, sub)

SysTimeGetMcuTime == calendarTime
SysTimeGet == SysTimeAdd(DeltaTime, calendarTime)
SysTimeToMs(sysTime) ==
  LET t == SysTimeSub(sysTime, DeltaTime) IN AsMs(t) % MsModulus
SysTimeFromMs(timeMs) == SysTimeAdd(Time(timeMs \div 1000, timeMs % 1000), DeltaTime)

SysTimeSet(sysTime) ==
  /\ DeltaTime' = SysTimeSub(sysTime, calendarTime)
  /\ owing' = AsMs(sysTime)
  /\ UNCHANGED calendarTime

TimePasses ==
  /\ calendarTime' = SysTimeAdd(calendarTime, Time(0, TickMs))
  /\ owing' = (owing + TickMs) % Milliseconds
  /\ UNCHANGED DeltaTime

DeltaInit == calendarTime = Time(0, 0) /\ DeltaTime = Time(0, 0) /\ owing = 0

DeltaNext ==
  \/ TimePasses
  \/ \E s \in 0 .. SecondsModulus - 1, sub \in {0, 1, 500, 999} : SysTimeSet(Time(s, sub))

DeltaSpec == DeltaInit /\ [][DeltaNext]_deltaVars

(* The system time goes on from what it was set to; a time of the MCU in    *)
(* milliseconds, if 32 bits hold it, converts to a system time and back.    *)
SysTimeIsKept ==
  /\ AsMs(SysTimeGet) = owing
  /\ AsMs(SysTimeGetMcuTime) < MsModulus =>
       /\ SysTimeFromMs(AsMs(SysTimeGetMcuTime)) = SysTimeGet
       /\ SysTimeToMs(SysTimeGet) = AsMs(SysTimeGetMcuTime)
=============================================================================
