------------------------------ MODULE RtcDate -------------------------------
(***************************************************************************)
(* From the registers of the clock chip to epoch_time: convert_bcd, the    *)
(* hour decoding of get_time_unchecked, mktime and the mode flags rtc_init *)
(* sets (rtc.c).  The chip counts hours in one of its four formats; time   *)
(* is in hours, minutes and seconds being simply added by mktime.          *)
(***************************************************************************)
EXTENDS Integers, Sequences

CONSTANTS
    StatusB,        \* values register B may have when rtc_init reads it
    FirstYear,      \* bounds of the run, in years since 1900
    LastYear

ASSUME DateAssumption ==
    /\ StatusB \subseteq 0 .. 255
    /\ FirstYear \in 100 .. 199 /\ LastYear \in FirstYear .. 199

VARIABLES
    status_b,
    year, month, mday, hour,    \* what the chip shows: year - 1900, month from 0
    truth                       \* hours since 1970

date_vars == <<status_b, year, month, mday, hour, truth>>

-----------------------------------------------------------------------------
(* The chip: register B's bit 1 chooses 24 hours, bit 2 binary. *)
Bit(byte, n) == (byte \div 2 ^ n) % 2 = 1
Encode(n) == IF Bit(status_b, 2) THEN n ELSE (n \div 10) * 16 + (n % 10)
HourRegister ==
    IF Bit(status_b, 1) THEN Encode(hour)
    ELSE Encode(IF hour % 12 = 0 THEN 12 ELSE hour % 12) + (IF hour >= 12 THEN 128 ELSE 0)

(* is_24h and is_bcd as rtc_init sets them: a shift where a mask was needed. *)
Is24h == status_b \div 2 = 0
IsBcd == status_b \div 4 = 0

ConvertBcd(value) ==
    IF IsBcd THEN (value \div 16) * 8 + (value \div 16) * 2 + (value % 16) ELSE value

TmHour ==
    IF Is24h THEN ConvertBcd(HourRegister)
    ELSE IF HourRegister >= 128 THEN (ConvertBcd(HourRegister - 128) % 12) + 12
    ELSE ConvertBcd(HourRegister) % 12

DaysUntilMonth == <<0, 31, 59, 90, 120, 151, 181, 212, 243, 273, 304, 334>>

(* The leap days mktime adds for the years that have gone and for this one.  *)
(* Mutant: the leap day is counted before March.                             *)
LeapDaysUntilMarch(y, m) ==
    (y \div 4) + 1 - ((y + 300) \div 400) + (IF y % 4 = 0 /\ m <= 2 THEN 1 ELSE 0)

LeapDays(y, m) ==
    (y \div 4) + 1 - ((y + 300) \div 400) + (IF y % 4 = 0 /\ m > 2 THEN 1 ELSE 0)

(* 25567 days lie between the start of 1900 and that of 1970. *)
Mktime(y, m, d, h) ==
    24 * (-25567 + y * 365 + LeapDays(y, m) + DaysUntilMonth[m + 1] + d - 1) + h

EpochTime ==
    Mktime(ConvertBcd(Encode(year - 100)) + 100, ConvertBcd(Encode(month + 1)) - 1,
           ConvertBcd(Encode(mday)), TmHour)

-----------------------------------------------------------------------------
(* The Gregorian calendar, kept by the chip. *)
Leap(y) == (y + 1900) % 4 = 0 /\ ((y + 1900) % 100 = 0 => (y + 1900) % 400 = 0)
MonthLength(y, m) ==
    IF m = 1 THEN (IF Leap(y) THEN 29 ELSE 28)
    ELSE IF m \in {3, 5, 8, 10} THEN 30 ELSE 31

(* The start of 2000 is 10957 days after that of 1970. *)
DateInit ==
    /\ status_b \in StatusB
    /\ year = FirstYear /\ month = 0 /\ mday = 1 /\ hour = 0
    /\ truth = 24 * (10957 + 365 * (FirstYear - 100) + ((FirstYear - 100 + 3) \div 4))

NextHour ==
    /\ hour < 23
    /\ hour' = hour + 1 /\ truth' = truth + 1
    /\ UNCHANGED <<status_b, year, month, mday>>

NextDay ==
    /\ hour = 23 /\ mday < MonthLength(year, month)
    /\ hour' = 0 /\ mday' = mday + 1 /\ truth' = truth + 1
    /\ UNCHANGED <<status_b, year, month>>

NextMonth ==
    /\ hour = 23 /\ mday = MonthLength(year, month)
    /\ hour' = 0 /\ mday' = 1 /\ month' = (month + 1) % 12
    /\ year' = IF month = 11 THEN year + 1 ELSE year
    /\ year' <= LastYear
    /\ truth' = truth + 1 /\ UNCHANGED status_b

DateNext == NextHour \/ NextDay \/ NextMonth

DateSpec == DateInit /\ [][DateNext]_date_vars

-----------------------------------------------------------------------------
(* rtc_init shifts register B where it means to mask it, so that a chip in   *)
(* 24-hour mode is read as if in 12-hour mode: its afternoons come out twelve *)
(* hours early, and nothing else does.                                       *)
TwentyFourHour == Bit(status_b, 1)
Due == truth - (IF TwentyFourHour /\ hour >= 12 THEN 12 ELSE 0)

(* But for those afternoons convert_bcd, the hours around noon and midnight   *)
(* and mktime agree with the calendar outside leap years.  Through a leap    *)
(* year the time is exact or one day ahead: mktime counts the leap day from  *)
(* January, and once more from April (tm_mon counts from 0), so only March   *)
(* is exact and the error never grows with the years.                        *)
AtMostADayAhead ==
    EpochTime = Due + (IF Leap(year) /\ month # 2 THEN 24 ELSE 0)

(* The comments on mktime (rtc.c:78 and :83) say that leap years are         *)
(* accounted for: the time is exact in them too.                             *)
LeapYearsExact == Leap(year) => EpochTime = Due
=============================================================================
