----------------------------- MODULE RtcDateMC ------------------------------
(* A chip that counts 12 hours in binary, which rtc_init recognises.         *)
EXTENDS RtcDate

TwelveHourBinary == {4}
=============================================================================
