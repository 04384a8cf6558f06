------------------------------ MODULE ClockMC -------------------------------
(* get_time: seconds, minutes and hours of four values, hours read before    *)
(* minutes so that a carry overtakes the reads, and up to three updates in a *)
(* call.  delay: seconds of four jiffies and a 16-jiffy word, waits of no,   *)
(* part of a, one and several seconds, and negative ones.                    *)
(* mktime: the formats 24-hour BCD (2), which PC firmware sets, and 12-hour  *)
(* binary (4).  Division: every pair of 5-bit words.                         *)
EXTENDS Clock

MCPower == [k \in 0 .. 5 |-> 2 ^ k]
BinaryAndBcd == {4, 2}

MCOrder == <<1, 3, 2>>
MCDuration == -6 .. 11
=============================================================================
