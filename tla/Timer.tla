------------------------------- MODULE Timer --------------------------------
(***************************************************************************)
(* The kernel's clock (timer_tick of rtc.c, run by the RTC interrupt) and  *)
(* the busy wait that reads it (delay and beep of api/computer.c).  The    *)
(* wait reads uptime and jiffies_frac one after the other with interrupts  *)
(* on, so a tick may come between any two reads.  Durations are in         *)
(* jiffies.                                                                *)
(***************************************************************************)
EXTENDS Integers

CONSTANTS
    JIFFIES,        \* jiffies delay counts to a second (1024)
    WIDTH,          \* values of a uint16_t (65536), a multiple of JIFFIES
    UINT64,         \* values of a uint64_t; more seconds than any clock reaches
    Duration,       \* durations asked for, in jiffies
    READS,          \* reads of the clock the processor makes at least between ticks
    MaxTicks        \* bound: ticks of a behaviour; more than any wait takes

ASSUME TimerAssumption ==
    /\ JIFFIES \in Nat \ {0}
    /\ WIDTH \in Nat /\ 2 * JIFFIES <= WIDTH /\ WIDTH % JIFFIES = 0
    /\ Duration \subseteq Int
    /\ UINT64 \in Nat \ {0} /\ \A d \in Duration : d + 3 < UINT64
    /\ READS \in Nat /\ READS >= 3 /\ MaxTicks \in Nat

VARIABLES
    jiffies_frac, uptime,               \* the clock
    pc,
    duration,                           \* what delay was asked for
    deadline_seconds, deadline_jiffies,
    gate,                               \* the speaker is on
    ticks,                              \* ticks since the call
    reads                               \* reads of the clock since the last tick

clock == <<jiffies_frac, uptime>>
timer_vars == <<clock, pc, duration, deadline_seconds, deadline_jiffies, gate, ticks, reads>>

(* Interrupts have been on for a while: the clock is anywhere in a second. *)
TimerInit ==
    /\ jiffies_frac \in 0 .. JIFFIES /\ uptime \in 0 .. 1
    /\ pc = "idle" /\ duration = 0
    /\ deadline_seconds = 0 /\ deadline_jiffies = 0
    /\ gate = FALSE
    /\ ticks = 0 /\ reads = READS

(* C's conversion to int and its %, which truncate towards zero. *)
Quotient(n, d) == IF n >= 0 THEN n \div d ELSE -((-n) \div d)
Remainder(n, d) == n - d * Quotient(n, d)

Read == reads' = IF reads < READS THEN reads + 1 ELSE reads

-----------------------------------------------------------------------------
(* A second is over when jiffies_frac has exceeded JIFFIES, that is after    *)
(* JIFFIES + 1 ticks.                                                        *)
TimerTick ==
    /\ IF jiffies_frac + 1 > JIFFIES
       THEN jiffies_frac' = 0 /\ uptime' = uptime + 1
       ELSE jiffies_frac' = jiffies_frac + 1 /\ uptime' = uptime
    /\ ticks' = ticks + 1

(* A tick may come between any two reads, once READS have been made since    *)
(* the last one.                                                             *)
Tick ==
    /\ reads = READS /\ ticks < MaxTicks /\ pc \notin {"idle", "done", "fault"}
    /\ TimerTick
    /\ reads' = 0
    /\ UNCHANGED <<pc, duration, deadline_seconds, deadline_jiffies, gate>>

(* The divisor of the speaker's frequency is 0: the exception's handler stops *)
(* the machine, with interrupts off and the speaker as it was.               *)
BeepZero ==
    /\ pc = "idle"
    /\ pc' = "fault"
    /\ UNCHANGED <<clock, duration, deadline_seconds, deadline_jiffies, gate, ticks, reads>>

(* Any other frequency: beep turns the speaker on and calls delay. *)
Beep(d) ==
    /\ pc = "idle"
    /\ gate' = TRUE
    /\ duration' = d
    /\ pc' = "read_uptime"
    /\ Read
    /\ UNCHANGED <<clock, deadline_seconds, deadline_jiffies, ticks>>

(* Mutant: the deadline starts a second early. *)
ReadUptimeEarly ==
    /\ pc = "read_uptime"
    /\ deadline_seconds' = (uptime + Quotient(duration, JIFFIES) - 1) % UINT64
    /\ pc' = "read_jiffies"
    /\ Read
    /\ UNCHANGED <<clock, duration, deadline_jiffies, gate, ticks>>

ReadUptime ==
    /\ pc = "read_uptime"
    /\ deadline_seconds' = (uptime + Quotient(duration, JIFFIES)) % UINT64
    /\ pc' = "read_jiffies"
    /\ Read
    /\ UNCHANGED <<clock, duration, deadline_jiffies, gate, ticks>>

(* The sum is stored in a uint16_t before it is split. *)
ReadJiffies ==
    /\ pc = "read_jiffies"
    /\ LET sum == (jiffies_frac + Remainder(duration, JIFFIES)) % WIDTH
       IN  /\ deadline_seconds' = (deadline_seconds + sum \div JIFFIES) % UINT64
           /\ deadline_jiffies' = sum % JIFFIES
    /\ pc' = "poll_uptime"
    /\ Read
    /\ UNCHANGED <<clock, duration, gate, ticks>>

PollUptime ==
    /\ pc = "poll_uptime"
    /\ pc' = IF uptime < deadline_seconds THEN "poll_uptime" ELSE "poll_jiffies"
    /\ Read
    /\ UNCHANGED <<clock, duration, deadline_seconds, deadline_jiffies, gate, ticks>>

PollJiffies ==
    /\ pc = "poll_jiffies"
    /\ pc' = IF jiffies_frac < deadline_jiffies THEN "poll_uptime" ELSE "return"
    /\ Read
    /\ UNCHANGED <<clock, duration, deadline_seconds, deadline_jiffies, gate, ticks>>

(* delay returns and beep turns the speaker off. *)
Silence ==
    /\ pc = "return"
    /\ gate' = FALSE
    /\ pc' = "done"
    /\ Read
    /\ UNCHANGED <<clock, duration, deadline_seconds, deadline_jiffies, ticks>>

Delay == ReadUptime \/ ReadJiffies \/ PollUptime \/ PollJiffies \/ Silence

TimerNext == Tick \/ Delay \/ BeepZero \/ \E d \in Duration : Beep(d)

-----------------------------------------------------------------------------
(* A wait of less than a second never ends early; a longer one may lose the  *)
(* second that starts between the two reads that set the deadline, but no    *)
(* more than that.  A wait that is not negative is late by the tick each     *)
(* second has too many and at most two more: the window in which both tests  *)
(* of the loop hold is never stepped over, although they are two reads.      *)
WaitLength ==
    pc = "return" =>
        /\ ticks >= IF duration < JIFFIES THEN duration ELSE duration - JIFFIES
        /\ duration >= 0 => ticks <= duration + duration \div JIFFIES + 2

(* Every wait ends and the speaker falls silent.  A negative one of less     *)
(* than a second takes up to WIDTH jiffies; one of a second or more is left  *)
(* out, since its deadline is at the end of time while uptime is smaller.    *)
Silenced == (gate /\ duration > -JIFFIES) ~> ~gate
=============================================================================
