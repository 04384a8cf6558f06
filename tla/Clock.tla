------------------------------- MODULE Clock --------------------------------
(***************************************************************************)
(* The kernel's time, call by call: get_time, which rtc_init makes at boot *)
(* while the chip counts and nothing ticks; the registers' way to          *)
(* epoch_time through all hours of some years; the division that prints    *)
(* it; and beep's delay, which Lua calls at any phase of the ticking.      *)
(* These do not overlap, so a behaviour is one of them.                    *)
(***************************************************************************)
EXTENDS RtcRead, RtcDate, Timer, Udivmod

VARIABLE running    \* the call

vars == <<running, sample_vars, date_vars, timer_vars, division_vars>>

(* The calls a behaviour is not about are at their start, or over. *)
NoSample == SampleInit /\ sampling = "none" /\ regs = NoTime
NoDate == DateInit /\ status_b = CHOOSE b \in StatusB : TRUE
NoDelay == TimerInit /\ jiffies_frac = 0 /\ uptime = 0
NoDivision == DivisionInit /\ dividend = 0 /\ divisor = 0

Init ==
    \/ running = "get_time" /\ SampleInit /\ sampling = "wait_a" /\ NoDate /\ NoDelay /\ NoDivision
    \/ running = "mktime" /\ NoSample /\ DateInit /\ NoDelay /\ NoDivision
    \/ running = "delay" /\ NoSample /\ NoDate /\ TimerInit /\ NoDivision
    \/ running = "divide" /\ NoSample /\ NoDate /\ NoDelay /\ DivisionInit

Next ==
    /\ UNCHANGED running
    /\ \/ running = "get_time" /\ SampleNext /\ UNCHANGED <<date_vars, timer_vars, division_vars>>
       \/ running = "mktime" /\ DateNext /\ UNCHANGED <<sample_vars, timer_vars, division_vars>>
       \/ running = "delay" /\ TimerNext /\ UNCHANGED <<sample_vars, date_vars, division_vars>>
       \/ running = "divide" /\ DivisionNext /\ UNCHANGED <<sample_vars, date_vars, timer_vars>>

(* The processor executes the call, an update of the chip ends, and the RTC  *)
(* keeps ticking.                                                            *)
Spec ==
    /\ Init /\ [][Next]_vars
    /\ WF_sample_vars(running = "get_time" /\ GetTime)
    /\ WF_sample_vars(running = "get_time" /\ Carry)
    /\ WF_timer_vars(running = "delay" /\ Delay)
    /\ WF_timer_vars(running = "delay" /\ Tick)

-----------------------------------------------------------------------------
(* get_time returns, as an update comes once a second and the samples of a   *)
(* quiet second agree; and a wait ends and the speaker falls silent.         *)
CallsEnd == Returns /\ Silenced
=============================================================================
