------------------------------ MODULE Udivmod -------------------------------
(***************************************************************************)
(* __udivmoddi4 (stubs.c): the division of 64-bit words that the compiler  *)
(* calls on a 32-bit processor, for instance to print epoch_time.  The     *)
(* divisor is shifted left until its top bit is set, and then comes back   *)
(* bit by bit while it is subtracted where it fits.                        *)
(***************************************************************************)
EXTENDS Integers

CONSTANTS
    BITS,           \* bits of a word (64)
    Power           \* the powers of two up to 2^BITS

ASSUME WordAssumption ==
    /\ BITS \in Nat \ {0}
    /\ Power \in [0 .. BITS -> Nat] /\ Power[0] = 1
    /\ \A k \in 1 .. BITS : Power[k] = 2 * Power[k - 1]

VARIABLES
    dividend, divisor,              \* what it was called with
    num, den, quot, qbit,
    dividing                        \* where it is

division_vars == <<dividend, divisor, num, den, quot, qbit, dividing>>

Word == 0 .. Power[BITS] - 1

DivisionInit ==
    /\ dividend \in Word /\ divisor \in Word
    /\ num = dividend /\ den = divisor
    /\ quot = 0 /\ qbit = 1
    /\ dividing = "test_zero"

(* A divisor of zero is divided by once more, for the exception. *)
TestZero ==
    /\ dividing = "test_zero"
    /\ dividing' = IF den = 0 THEN "division_error" ELSE "justify"
    /\ UNCHANGED <<dividend, divisor, num, den, quot, qbit>>

(* The top bit is the sign of den as an int64_t. *)
Justify ==
    /\ dividing = "justify"
    /\ IF den < Power[BITS - 1]
       THEN /\ den' = (2 * den) % Power[BITS] /\ qbit' = (2 * qbit) % Power[BITS]
            /\ UNCHANGED dividing
       ELSE dividing' = "subtract" /\ UNCHANGED <<den, qbit>>
    /\ UNCHANGED <<dividend, divisor, num, quot>>

(* Mutant: a den that fits exactly is not subtracted. *)
SubtractLess ==
    /\ dividing = "subtract" /\ qbit # 0
    /\ IF den < num THEN num' = num - den /\ quot' = quot + qbit ELSE UNCHANGED <<num, quot>>
    /\ den' = den \div 2 /\ qbit' = qbit \div 2
    /\ UNCHANGED <<dividend, divisor, dividing>>

Subtract ==
    /\ dividing = "subtract" /\ qbit # 0
    /\ IF den <= num THEN num' = num - den /\ quot' = quot + qbit ELSE UNCHANGED <<num, quot>>
    /\ den' = den \div 2 /\ qbit' = qbit \div 2
    /\ UNCHANGED <<dividend, divisor, dividing>>

Return ==
    /\ dividing = "subtract" /\ qbit = 0
    /\ dividing' = "return"
    /\ UNCHANGED <<dividend, divisor, num, den, quot, qbit>>

DivisionNext == TestZero \/ Justify \/ Subtract \/ Return

-----------------------------------------------------------------------------
(* The quotient and the remainder left in num are those of the division, for *)
(* every pair of words but a divisor of zero; nothing overflows on the way.  *)
DividesExactly ==
    dividing = "return" => dividend = quot * divisor + num /\ num \in 0 .. divisor - 1
=============================================================================
