------------------------------ MODULE RtcRead -------------------------------
(***************************************************************************)
(* get_time (rtc.c) against a clock chip that keeps counting.  An update   *)
(* carries from register to register; get_time reads the registers one by  *)
(* one, seconds first, reads them again, and starts over until the two     *)
(* times agree.  Before each sample it waits for bit 7 of register B to be *)
(* clear.  That bit is SET, which nothing sets: the chip's update flag is  *)
(* bit 7 of register A.  So the wait passes at once, and it is the second  *)
(* sample alone that keeps torn times out.  An update may last for any     *)
(* number of reads: the busy loop of rtc_read has no effect and the        *)
(* repository's build, with -O2, need not keep it.                         *)
(***************************************************************************)
EXTENDS Integers, Sequences

CONSTANTS
    Registers,      \* how many registers a time has
    Base,           \* values of each (60 for the seconds)
    Order,          \* the order get_time_unchecked reads them in
    MaxUpdates      \* bound: updates during one call

ASSUME ClockAssumption ==
    /\ Registers \in Nat \ {0} /\ Base \in Nat \ {0}
    /\ Order \in [1 .. Registers -> 1 .. Registers]
    /\ \A r \in 1 .. Registers : \E k \in 1 .. Registers : Order[k] = r
    /\ \A k, l \in 1 .. Registers : Order[k] = Order[l] => k = l
    /\ Order[1] = 1
    /\ MaxUpdates \in Nat /\ MaxUpdates < Base

VARIABLES
    regs,           \* the chip's registers
    carry,          \* the register the running update changes next, 0 for none
    updates,        \* updates since the call
    shown,          \* times the chip has shown between updates since the call
    sampling, next, \* where get_time is, and the register it reads next
    time_a, time_b, \* the two samples
    epoch_time,     \* what both get_time and its samples store
    under,          \* history: the update that had carried the seconds, and was
                    \* under way, when the first sample read them, or 0
    halfway         \* history: the registers when the second sample read the
                    \* seconds, if the same update was under way still

chip == <<regs, carry, updates, shown>>
call == <<sampling, next, time_a, time_b, epoch_time, under, halfway>>
sample_vars == <<chip, call>>

Time == [1 .. Registers -> 0 .. Base - 1]
NoTime == [r \in 1 .. Registers |-> 0]

(* Nothing sampled yet.  GetTime is called by setting sampling to "wait_a". *)
SampleInit ==
    /\ regs \in Time /\ shown = {regs}
    /\ carry = 0 /\ updates = 0
    /\ under = 0 /\ halfway = {}
    /\ next = 1
    /\ time_a = NoTime /\ time_b = NoTime /\ epoch_time = NoTime

-----------------------------------------------------------------------------
BeginUpdate ==
    /\ carry = 0 /\ updates < MaxUpdates
    /\ carry' = 1 /\ updates' = updates + 1
    /\ UNCHANGED <<regs, shown>> /\ UNCHANGED call

Carry ==
    /\ carry # 0
    /\ regs' = [regs EXCEPT ![carry] = (@ + 1) % Base]
    /\ carry' = IF regs[carry] = Base - 1 /\ carry < Registers THEN carry + 1 ELSE 0
    /\ shown' = IF carry' = 0 THEN shown \cup {regs'} ELSE shown
    /\ UNCHANGED updates /\ UNCHANGED call

-----------------------------------------------------------------------------
RtcRead(register) == regs[register]

(* The seconds have changed in an update that still has a register to carry. *)
Carrying == carry > 1

(* while (rtc_read(0x0b) & (1 << 7)); with the bit clear *)
Wait(at, then) ==
    /\ sampling = at
    /\ UNCHANGED chip
    /\ sampling' = then /\ next' = 1
    /\ UNCHANGED <<time_a, time_b, epoch_time, under, halfway>>

(* C leaves the order of the initialisers open; the compiler keeps the       *)
(* source's: seconds first and hours last.  One rtc_read of the first and of *)
(* the second get_time_unchecked.                                            *)
ReadA ==
    /\ sampling = "read_a"
    /\ UNCHANGED chip
    /\ time_a' = [time_a EXCEPT ![Order[next]] = RtcRead(Order[next])]
    /\ under' = IF next > 1 THEN under ELSE IF Carrying THEN updates ELSE 0
    /\ next' = next + 1
    /\ sampling' = IF next < Registers THEN "read_a" ELSE "wait_b"
    /\ epoch_time' = IF next < Registers THEN epoch_time ELSE time_a'
    /\ UNCHANGED <<time_b, halfway>>

(* What the second sample finds of the update that the first one lay in.     *)
Spanned ==
    IF next > 1 THEN halfway ELSE IF Carrying /\ under = updates THEN {regs} ELSE {}

(* Mutant: the second sample leaves the last register out. *)
ReadBPartly ==
    /\ sampling = "read_b"
    /\ UNCHANGED chip
    /\ time_b' = [time_b EXCEPT ![Order[next]] =
                      IF next = 1 THEN RtcRead(Order[next]) ELSE time_a[Order[next]]]
    /\ next' = next + 1
    /\ sampling' = IF next < Registers THEN "read_b" ELSE "compare"
    /\ epoch_time' = IF next < Registers THEN epoch_time ELSE time_b'
    /\ halfway' = Spanned
    /\ UNCHANGED <<time_a, under>>

ReadB ==
    /\ sampling = "read_b"
    /\ UNCHANGED chip
    /\ time_b' = [time_b EXCEPT ![Order[next]] = RtcRead(Order[next])]
    /\ next' = next + 1
    /\ sampling' = IF next < Registers THEN "read_b" ELSE "compare"
    /\ epoch_time' = IF next < Registers THEN epoch_time ELSE time_b'
    /\ halfway' = Spanned
    /\ UNCHANGED <<time_a, under>>

(* Mutant: the test is inverted. *)
CompareChange ==
    /\ sampling = "compare"
    /\ sampling' = IF time_a # time_b THEN "return" ELSE "wait_a"
    /\ epoch_time' = IF sampling' = "return" THEN time_a ELSE epoch_time
    /\ UNCHANGED <<chip, next, time_a, time_b, under, halfway>>

Compare ==
    /\ sampling = "compare"
    /\ sampling' = IF time_a = time_b THEN "return" ELSE "wait_a"
    /\ epoch_time' = IF sampling' = "return" THEN time_a ELSE epoch_time
    /\ UNCHANGED <<chip, next, time_a, time_b, under, halfway>>

GetTime == Wait("wait_a", "read_a") \/ ReadA \/ Wait("wait_b", "read_b") \/ ReadB \/ Compare

SampleNext == GetTime \/ BeginUpdate \/ Carry

-----------------------------------------------------------------------------
(* The time get_time returns and stores is one the chip showed during the    *)
(* call, never one put together from registers before and after a carry,     *)
(* unless a single update, which had already changed the seconds, was under  *)
(* way both when the first and when the second sample read them: then it is  *)
(* what the registers held in the middle of that update.                     *)
NotTorn == sampling = "return" => epoch_time \in shown \cup halfway

(* get_time returns, as an update comes once a second and the samples of a   *)
(* quiet second agree.                                                       *)
Returns == sampling = "wait_a" ~> sampling = "return"
=============================================================================
