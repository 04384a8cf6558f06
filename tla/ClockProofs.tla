---------------------------- MODULE ClockProofs ----------------------------
(***************************************************************************)
(* Proofs about the calls of Clock, for every size of the chip, of a       *)
(* second and of a word.  One part per call, each with its inductive       *)
(* invariant: get_time (SampleInv), the registers' way to epoch_time       *)
(* (DateInv), delay (TimerInv) and the division (DivisionInv).  The last   *)
(* part puts them together: the call that runs keeps its own invariant and *)
(* leaves the variables of the others alone.                               *)
(***************************************************************************)
EXTENDS Clock, TLAPS
-----------------------------------------------------------------------------
(* get_time.  The invariant counts, register by register, the changes since  *)
(* the first sample: a sample is the chip's first time advanced by them.     *)
Register == 1 .. Registers
Sampled == {Order[k] : k \in 1 .. next - 1}
Advance(t, n) == IF t + n < Base THEN t + n ELSE t + n - Base

(* How often a register may have changed at most since the call. *)
Changes(r) == IF carry # 0 /\ carry <= r THEN updates - 1 ELSE updates

(* The registers in R are n updates ahead of the first sample. *)
Ahead(n, R) ==
    \A r \in R : n[r] \in 0 .. Changes(r) /\ regs[r] = Advance(time_a[r], n[r])

(* If the seconds have not changed since, an update that has carried them had *)
(* done so when the first sample read them.                                  *)
Under(n) == n[1] = 0 /\ carry > 1 => under = updates

(* A time the chip has shown, or held halfway through the one update, lies   *)
(* between the samples, but for the registers in which they differ.          *)
Between(m, n, R) ==
    /\ Ahead(n, Register)
    /\ \A r \in Register : m[r] <= n[r]
    /\ [r \in Register |-> Advance(time_a[r], m[r])] \in shown \cup halfway
    /\ \A r \in R : time_b[r] = time_a[r] => m[r] = 0

Counts == [Register -> Nat]

ChipInv ==
    /\ regs \in Time /\ carry \in 0 .. Registers /\ updates \in 0 .. MaxUpdates
    /\ carry # 0 => updates > 0
    /\ carry \in {0, 1} => regs \in shown

CallInv ==
    /\ sampling \in {"none", "wait_a", "read_a", "wait_b", "read_b", "compare", "return"}
    /\ next \in 1 .. Registers + 1 /\ time_a \in Time /\ time_b \in Time
    /\ sampling \in {"read_a", "read_b"} => next <= Registers
    /\ sampling \in {"wait_b", "compare"} => next = Registers + 1
    /\ sampling = "read_a" =>
           \E n \in Counts : Ahead(n, Sampled) /\ (next > 1 => Under(n))
    /\ sampling = "wait_b" => \E n \in Counts : Ahead(n, Register) /\ Under(n)
    /\ sampling = "read_b" /\ next = 1 =>
           \E n \in Counts : Ahead(n, Register) /\ Under(n)
    /\ ((sampling = "read_b" /\ next > 1) \/ sampling = "compare") /\ time_b[1] = time_a[1] =>
           \E m, n \in Counts : Between(m, n, Sampled)
    /\ sampling = "return" => epoch_time \in shown \cup halfway

SampleInv == ChipInv /\ CallInv

LEMMA Remainders ==
    ASSUME NEW b \in Nat \ {0}
    PROVE  b % b = 0 /\ \A v \in 0 .. b - 1 : v % b = v
OBVIOUS

LEMMA Wraps ==
    ASSUME NEW v \in 0 .. Base - 1
    PROVE  /\ (v + 1) % Base = (IF v + 1 < Base THEN v + 1 ELSE 0)
           /\ (v + 1) % Base \in 0 .. Base - 1
  <1>1. Base \in Nat \ {0}
    BY ClockAssumption
  <1>2. Base % Base = 0 /\ \A w \in 0 .. Base - 1 : w % Base = w
    BY <1>1, Remainders
  <1>3. v + 1 = Base \/ v + 1 \in 0 .. Base - 1
    BY <1>1
  <1>4. CASE v + 1 = Base
    BY <1>1, <1>2, <1>4
  <1>5. CASE v + 1 \in 0 .. Base - 1
    BY <1>1, <1>2, <1>5
  <1> QED BY <1>3, <1>4, <1>5

LEMMA AdvanceFacts ==
    ASSUME NEW t \in 0 .. Base - 1, NEW n \in 0 .. MaxUpdates
    PROVE  /\ Advance(t, n) \in 0 .. Base - 1
           /\ Advance(t, 0) = t
           /\ Advance(t, n) = t => n = 0
           /\ n + 1 <= MaxUpdates => (Advance(t, n) + 1) % Base = Advance(t, n + 1)
  <1>1. Base \in Nat /\ MaxUpdates \in Nat /\ MaxUpdates < Base
    BY ClockAssumption
  <1>2. Advance(t, n) \in 0 .. Base - 1
    BY <1>1 DEF Advance
  <1>3. Advance(t, 0) = t /\ (Advance(t, n) = t => n = 0)
    BY <1>1 DEF Advance
  <1>4. ASSUME n + 1 <= MaxUpdates PROVE (Advance(t, n) + 1) % Base = Advance(t, n + 1)
    <2>1. (Advance(t, n) + 1) % Base = IF Advance(t, n) + 1 < Base THEN Advance(t, n) + 1 ELSE 0
      BY <1>2, Wraps
    <2> QED BY <1>1, <1>4, <2>1 DEF Advance
  <1> QED BY <1>2, <1>3, <1>4

LEMMA ClockConstants ==
    /\ Registers \in Nat /\ Registers >= 1 /\ 1 \in Register
    /\ Base \in Nat /\ MaxUpdates \in Nat /\ MaxUpdates < Base
    /\ Order \in [Register -> Register] /\ Order[1] = 1
    /\ \A r \in Register : \E k \in Register : Order[k] = r
    /\ \A k \in Register : Order[k] = 1 => k = 1
BY ClockAssumption DEF Register

-----------------------------------------------------------------------------
(* The chip. *)
LEMMA ChipStep ==
    ASSUME ChipInv, BeginUpdate \/ Carry
    PROVE  ChipInv'
  <1>1. CASE BeginUpdate
    BY <1>1, ClockConstants DEF BeginUpdate, ChipInv
  <1>2. CASE Carry
    <2>1. /\ carry \in Register /\ regs[carry] \in 0 .. Base - 1 /\ regs \in [Register -> 0 .. Base - 1]
          /\ regs' = [regs EXCEPT ![carry] = (regs[carry] + 1) % Base]
          /\ carry' = IF regs[carry] = Base - 1 /\ carry < Registers THEN carry + 1 ELSE 0
          /\ shown' = IF carry' = 0 THEN shown \cup {regs'} ELSE shown
          /\ UNCHANGED updates
      BY <1>2 DEF Carry, ChipInv, Time, Register
    <2>2. (regs[carry] + 1) % Base \in 0 .. Base - 1
      BY <2>1, Wraps
    <2>3. regs' \in [Register -> 0 .. Base - 1]
      BY <2>1, <2>2
    <2>4. carry' \in 0 .. Registers /\ carry' # 1
      BY <2>1, ClockConstants DEF Register
    <2>5. updates' \in 0 .. MaxUpdates /\ updates' > 0
      BY <2>1 DEF ChipInv, Register
    <2>6. carry' \in {0, 1} => regs' \in shown'
      BY <2>1, <2>4
    <2>7. regs' \in Time
      BY <2>3 DEF Time, Register
    <2> HIDE DEF Time
    <2> QED BY <2>4, <2>5, <2>6, <2>7 DEF ChipInv
  <1> QED BY <1>1, <1>2

(* Registers that are ahead of a sample stay so, and are one more update     *)
(* ahead when it reaches them.                                               *)
LEMMA AheadOn ==
    ASSUME ChipInv, BeginUpdate \/ Carry, time_a \in Time, NEW n \in Counts,
           NEW R \in SUBSET Register, Ahead(n, R)
    PROVE  \E p \in Counts :
               /\ Ahead(p, R)' /\ \A r \in Register : n[r] <= p[r]
               /\ Under(n) => Under(p)'
  <1>1. CASE BeginUpdate
    <2>1. carry = 0 /\ carry' = 1 /\ updates' = updates + 1 /\ UNCHANGED <<regs, time_a>>
          /\ updates \in Nat
      BY <1>1 DEF BeginUpdate, call, ChipInv
    <2>2. \A r \in Register : Changes(r)' = Changes(r)
      BY <2>1, ClockConstants DEF Changes, Register
    <2>3. Ahead(n, R)'
      BY <2>1, <2>2 DEF Ahead
    <2>4. Under(n)'
      BY <2>1 DEF Under
    <2>5. \A r \in Register : n[r] <= n[r]
      BY DEF Counts
    <2> QED BY <2>3, <2>4, <2>5
  <1>2. CASE Carry
    <2>1. /\ carry \in Register /\ carry # 0 /\ regs \in [Register -> 0 .. Base - 1]
          /\ regs' = [regs EXCEPT ![carry] = (regs[carry] + 1) % Base]
          /\ carry' \in {0, carry + 1} /\ UNCHANGED <<updates, time_a, under>>
          /\ updates \in 0 .. MaxUpdates /\ updates > 0
      <3>1. carry \in Register /\ carry # 0 /\ updates \in 0 .. MaxUpdates /\ updates > 0
        BY <1>2, ClockConstants DEF Carry, ChipInv, Register
      <3>2. regs \in [Register -> 0 .. Base - 1]
        BY DEF ChipInv, Time, Register
      <3> QED BY <1>2, <3>1, <3>2 DEF Carry, call
    <2>2. PICK p \in Counts :
              /\ p[carry] = n[carry] + 1 /\ n[carry] \in Nat
              /\ \A r \in Register \ {carry} : p[r] = n[r] /\ n[r] \in Nat
      <3> DEFINE p == [n EXCEPT ![carry] = n[carry] + 1]
      <3>1. /\ p \in Counts /\ p[carry] = n[carry] + 1 /\ n[carry] \in Nat
            /\ \A r \in Register \ {carry} : p[r] = n[r] /\ n[r] \in Nat
        BY <2>1 DEF Counts
      <3> QED BY <3>1
    <2>3. ASSUME NEW r \in R PROVE p[r] \in 0 .. Changes(r)' /\ regs'[r] = Advance(time_a[r], p[r])
      <3>1. n[r] \in 0 .. Changes(r) /\ regs[r] = Advance(time_a[r], n[r]) /\ r \in Register
            /\ r \in Nat /\ time_a[r] \in 0 .. Base - 1
        BY DEF Ahead, Register, Time
      <3>2. CASE r = carry
        <4>1. /\ Changes(r) = updates - 1 /\ Changes(r)' = updates
              /\ updates \in Nat /\ updates <= MaxUpdates /\ MaxUpdates \in Nat
          BY <2>1, <3>1, <3>2, ClockConstants DEF Changes
        <4>5. n[r] \in 0 .. MaxUpdates /\ n[r] + 1 <= MaxUpdates /\ n[r] + 1 <= updates
          BY <3>1, <4>1
        <4>2. (Advance(time_a[r], n[r]) + 1) % Base = Advance(time_a[r], n[r] + 1)
          BY <3>1, <4>5, AdvanceFacts
        <4>3. regs'[r] = Advance(time_a[r], p[r])
          BY <2>1, <2>2, <3>1, <3>2, <4>2
        <4>4. p[r] \in 0 .. updates
          BY <2>1, <2>2, <3>2, <4>1, <4>5
        <4> QED BY <4>1, <4>3, <4>4
      <3>3. CASE r # carry
        <4>1. p[r] = n[r] /\ regs'[r] = regs[r]
          BY <2>1, <2>2, <3>1, <3>3
        <4>2. Changes(r)' \in Int /\ Changes(r) <= Changes(r)'
          BY <2>1, <3>1, <3>3 DEF Changes, Register
        <4> QED BY <2>1, <3>1, <4>1, <4>2 DEF Changes
      <3> QED BY <3>2, <3>3
    <2>4. Ahead(p, R)'
      BY <2>1, <2>3 DEF Ahead
    <2>5. \A r \in Register : n[r] <= p[r]
      BY <2>2
    <2>6. Under(n) => Under(p)'
      <3> SUFFICES ASSUME Under(n), p[1] = 0, carry' > 1
                   PROVE  under' = updates'
        BY DEF Under
      <3>1. carry # 1 /\ n[1] = 0
        BY <2>1, <2>2, ClockConstants
      <3>2. carry > 1
        BY <2>1, <3>1 DEF Register
      <3> QED BY <2>1, <3>1, <3>2 DEF Under
    <2> QED BY <2>2, <2>4, <2>5, <2>6
  <1> QED BY <1>1, <1>2

LEMMA BetweenOn ==
    ASSUME ChipInv, BeginUpdate \/ Carry, time_a \in Time, NEW m \in Counts, NEW n \in Counts,
           NEW R \in SUBSET Register, Between(m, n, R)
    PROVE  \E p \in Counts : Between(m, p, R)'
  <1>1. Ahead(n, Register) /\ \A r \in Register : m[r] <= n[r] /\ m[r] \in Int /\ n[r] \in Int
    BY DEF Between, Counts
  <1>2. PICK p \in Counts : Ahead(p, Register)' /\ \A r \in Register : n[r] <= p[r]
    BY <1>1, AheadOn
  <1>3. \A r \in Register : m[r] <= p[r]
    <2>1. \A r \in Register : p[r] \in Int
      BY DEF Counts
    <2> QED BY <1>1, <1>2, <2>1
  <1>4. shown \subseteq shown' /\ UNCHANGED <<time_a, time_b, halfway>>
    BY DEF BeginUpdate, Carry, call
  <1>5. Between(m, p, R)'
    BY <1>2, <1>3, <1>4 DEF Between
  <1> QED BY <1>5

LEMMA ChipOn ==
    ASSUME SampleInv, BeginUpdate \/ Carry
    PROVE  SampleInv'
  <1>1. ChipInv'
    BY ChipStep DEF SampleInv
  <1>2. UNCHANGED call /\ shown \subseteq shown' /\ time_a \in Time /\ ChipInv /\ CallInv
    BY DEF BeginUpdate, Carry, SampleInv, CallInv
  <1>3. Sampled' = Sampled /\ Sampled \in SUBSET Register /\ Register \in SUBSET Register
    <2>1. ASSUME NEW k \in 1 .. next - 1 PROVE Order[k] \in Register
      <3>1. k \in Register
        BY <1>2, ClockConstants DEF CallInv, Register
      <3> QED BY <3>1, ClockConstants
    <2> QED BY <1>2, <2>1 DEF call, Sampled
  <1>4. next \in Nat /\ Registers \in Nat
    BY <1>2, ClockConstants DEF CallInv
  <1>5. sampling = "read_a" =>
            \E n \in Counts : Ahead(n, Sampled)' /\ (next > 1 => Under(n)')
    <2> SUFFICES ASSUME sampling = "read_a"
                 PROVE  \E n \in Counts : Ahead(n, Sampled)' /\ (next > 1 => Under(n)')
      OBVIOUS
    <2>1. PICK n \in Counts : Ahead(n, Sampled) /\ (next > 1 => Under(n))
      BY <1>2 DEF CallInv
    <2> DEFINE R == Sampled
    <2>2. R \in SUBSET Register /\ R' = R /\ Ahead(n, R)
      BY <1>3, <2>1
    <2>3. PICK p \in Counts : Ahead(p, R)' /\ (Under(n) => Under(p)')
      BY <1>2, <1>3, <2>1, AheadOn
    <2> QED BY <2>1, <2>2, <2>3
  <1>6. ASSUME \E n \in Counts : Ahead(n, Register) /\ Under(n)
        PROVE  \E n \in Counts : Ahead(n, Register)' /\ Under(n)'
    <2>1. PICK n \in Counts : Ahead(n, Register) /\ Under(n)
      BY <1>6
    <2>2. PICK p \in Counts : Ahead(p, Register)' /\ (Under(n) => Under(p)')
      BY <1>2, <1>3, <2>1, AheadOn
    <2> QED BY <2>1, <2>2
  <1>7. ASSUME NEW m \in Counts, NEW n \in Counts, Between(m, n, Sampled)
        PROVE  \E p \in Counts : Between(m, p, Sampled)'
    <2>1. PICK R \in SUBSET Register : R = Sampled
      BY <1>3
    <2>2. PICK p \in Counts : Between(m, p, R)'
      BY <1>2, <1>7, <2>1, BetweenOn
    <2>3. Between(m, p, Sampled)'
      BY <1>3, <2>1, <2>2 DEF Between
    <2> QED BY <2>3
  <1>8. sampling = "wait_b" =>
            \E n \in Counts : Ahead(n, Register)' /\ Under(n)'
    BY <1>2, <1>6 DEF CallInv
  <1>9. sampling = "read_b" /\ next = 1 =>
            \E n \in Counts : Ahead(n, Register)' /\ Under(n)'
    BY <1>2, <1>6 DEF CallInv
  <1>10. ((sampling = "read_b" /\ next > 1) \/ sampling = "compare") /\ time_b[1] = time_a[1] =>
             \E m, n \in Counts : Between(m, n, Sampled)'
    BY <1>2, <1>7 DEF CallInv
  <1>11. CallInv'
    BY <1>2, <1>5, <1>8, <1>9, <1>10 DEF CallInv, call
  <1> QED BY <1>1, <1>11 DEF SampleInv

-----------------------------------------------------------------------------
(* get_time *)
LEMMA ReadKeepsChip ==
    ASSUME ChipInv, UNCHANGED chip
    PROVE  ChipInv'
BY DEF ChipInv, chip

LEMMA WaitA ==
    ASSUME SampleInv, Wait("wait_a", "read_a")
    PROVE  SampleInv'
  <1>1. ChipInv' /\ CallInv
    BY ReadKeepsChip DEF Wait, SampleInv
  <1>2. sampling' = "read_a" /\ next' = 1 /\ UNCHANGED <<time_a, time_b, epoch_time>>
    BY DEF Wait
  <1>3. Sampled' = {}
    BY <1>2 DEF Sampled
  <1>4. [r \in Register |-> 0] \in Counts
    BY DEF Counts
  <1>5. \E n \in Counts : Ahead(n, Sampled)'
    BY <1>3, <1>4 DEF Ahead
  <1>6. 1 <= Registers /\ 1 \in 1 .. Registers + 1
    BY ClockConstants
  <1>7. CallInv'
    BY <1>1, <1>2, <1>5, <1>6 DEF CallInv
  <1> QED BY <1>1, <1>7 DEF SampleInv

LEMMA WaitB ==
    ASSUME SampleInv, Wait("wait_b", "read_b")
    PROVE  SampleInv'
  <1>1. ChipInv' /\ CallInv /\ ChipInv /\ UNCHANGED chip
    BY ReadKeepsChip DEF Wait, SampleInv
  <1>2. /\ sampling = "wait_b" /\ sampling' = "read_b" /\ next' = 1
        /\ UNCHANGED <<time_a, time_b, epoch_time, under>>
    BY DEF Wait
  <1>3. PICK n \in Counts : Ahead(n, Register) /\ Under(n)
    BY <1>1, <1>2 DEF CallInv
  <1>4. Ahead(n, Register)'
    BY <1>1, <1>2, <1>3 DEF Ahead, chip, Changes
  <1>5. Under(n)'
    BY <1>1, <1>2, <1>3 DEF Under, chip
  <1>6. 1 <= Registers /\ 1 \in 1 .. Registers + 1
    BY ClockConstants
  <1>7. CallInv'
    BY <1>1, <1>2, <1>4, <1>5, <1>6 DEF CallInv
  <1> QED BY <1>1, <1>7 DEF SampleInv

LEMMA OneMore ==
    ASSUME next \in Register, next' = next + 1
    PROVE  /\ Order[next] \in Register /\ Order[next] \notin Sampled
           /\ Sampled' = Sampled \cup {Order[next]} /\ Sampled \subseteq Register
           /\ next = Registers => Sampled' = Register
           /\ Order[next] = 1 <=> next = 1
  <1>1. next \in Nat /\ next >= 1 /\ next <= Registers /\ Registers \in Nat
    BY ClockConstants DEF Register
  <1>2. next' - 1 = next /\ \A k \in 1 .. next : k \in 1 .. next - 1 \/ k = next
    BY <1>1
  <1>3. \A k \in 1 .. next - 1 : k \in 1 .. next' - 1 /\ k \in Register /\ k # next
    BY <1>1 DEF Register
  <1>4. next \in 1 .. next' - 1
    BY <1>1
  <1>5. \A k \in Register : Order[k] \in Register
    BY ClockConstants
  <1>6. \A k, l \in Register : Order[k] = Order[l] => k = l
    BY ClockAssumption DEF Register
  <1>7. Sampled' = {Order[k] : k \in 1 .. next' - 1}
    BY DEF Sampled
  <1>8. Sampled' = Sampled \cup {Order[next]}
    BY <1>2, <1>3, <1>4, <1>7 DEF Sampled
  <1>9. Order[next] \notin Sampled /\ Sampled \subseteq Register
    BY <1>3, <1>5, <1>6 DEF Sampled
  <1>10. ASSUME next = Registers PROVE Sampled' = Register
    <2>1. \A r \in Register : \E k \in Register : Order[k] = r
      BY ClockConstants
    <2>2. next' - 1 = Registers
      BY <1>1, <1>10
    <2>3. \A k \in Register : k \in 1 .. next' - 1
      BY <2>2 DEF Register
    <2>4. Register \subseteq Sampled'
      BY <1>7, <2>1, <2>3
    <2> QED BY <1>5, <1>8, <1>9, <2>4
  <1>11. Order[next] = 1 <=> next = 1
    BY ClockConstants
  <1> QED BY <1>5, <1>8, <1>9, <1>10, <1>11

LEMMA ReadingA ==
    ASSUME SampleInv, ReadA
    PROVE  SampleInv'
  <1> DEFINE o == Order[next]
  <1>1. ChipInv' /\ CallInv /\ ChipInv /\ UNCHANGED chip
    BY ReadKeepsChip DEF ReadA, SampleInv
  <1>2. /\ sampling = "read_a" /\ next' = next + 1 /\ time_b' = time_b
        /\ time_a' = [time_a EXCEPT ![o] = regs[o]]
        /\ sampling' = IF next < Registers THEN "read_a" ELSE "wait_b"
        /\ under' = IF next > 1 THEN under ELSE IF Carrying THEN updates ELSE 0
    BY DEF ReadA, RtcRead
  <1>3. next \in Register /\ next \in Nat /\ next >= 1 /\ next <= Registers /\ Registers \in Nat
    BY <1>1, <1>2, ClockConstants DEF CallInv, Register
  <1>4. /\ o \in Register /\ o \notin Sampled
        /\ Sampled' = Sampled \cup {o} /\ Sampled \subseteq Register
        /\ next = Registers => Sampled' = Register
        /\ o = 1 <=> next = 1
    BY <1>2, <1>3, OneMore
  <1>5. PICK n \in Counts : Ahead(n, Sampled) /\ (next > 1 => Under(n))
    BY <1>1, <1>2 DEF CallInv
  <1> HIDE DEF o
  <1>6. /\ regs \in [Register -> 0 .. Base - 1] /\ time_a \in [Register -> 0 .. Base - 1]
        /\ time_a' \in [Register -> 0 .. Base - 1] /\ time_a'[o] = regs[o]
        /\ \A r \in Sampled : time_a'[r] = time_a[r]
    BY <1>1, <1>2, <1>4 DEF ChipInv, CallInv, Time, Register
  <1>7. PICK p \in Counts : p[o] = 0 /\ \A r \in Register \ {o} : p[r] = n[r]
    <2> DEFINE p == [n EXCEPT ![o] = 0]
    <2>1. p \in Counts /\ p[o] = 0 /\ \A r \in Register \ {o} : p[r] = n[r]
      BY <1>4 DEF Counts
    <2> QED BY <2>1
  <1>8. ASSUME NEW r \in Sampled' PROVE p[r] \in 0 .. Changes(r)' /\ regs'[r] = Advance(time_a'[r], p[r])
    <2>1. Changes(r)' = Changes(r) /\ regs' = regs
      BY <1>1 DEF chip, Changes
    <2>2. CASE r = o
      <3>1. 0 \in 0 .. Changes(r)
        BY <1>1 DEF Changes, ChipInv
      <3>2. Advance(regs[o], 0) = regs[o]
        <4>1. regs[o] \in 0 .. Base - 1 /\ 0 \in 0 .. MaxUpdates
          BY <1>4, <1>6, ClockConstants
        <4> QED BY <4>1, AdvanceFacts
      <3> QED BY <1>6, <1>7, <2>1, <2>2, <3>1, <3>2
    <2>3. CASE r # o
      BY <1>4, <1>5, <1>6, <1>7, <2>1, <2>3 DEF Ahead
    <2> QED BY <2>2, <2>3
  <1>9. Ahead(p, Sampled)'
    BY <1>8 DEF Ahead
  <1>10. Under(p)'
    <2>1. carry' = carry /\ updates' = updates
      BY <1>1 DEF chip
    <2>2. CASE next = 1
      BY <1>2, <2>1, <2>2 DEF Under, Carrying
    <2>3. CASE next > 1
      <3>1. p[1] = n[1]
        BY <1>4, <1>7, <2>3, ClockConstants
      <3> QED BY <1>2, <1>5, <2>1, <2>3, <3>1 DEF Under
    <2> QED BY <1>3, <2>2, <2>3
  <1>11. sampling' = "read_a" => \E q \in Counts : Ahead(q, Sampled)' /\ (next' > 1 => Under(q)')
    BY <1>9, <1>10
  <1>13. sampling' = "wait_b" => \E q \in Counts : Ahead(q, Register)' /\ Under(q)'
    <2> SUFFICES ASSUME sampling' = "wait_b" PROVE Ahead(p, Register)' /\ Under(p)'
      OBVIOUS
    <2>1. next = Registers
      BY <1>2, <1>3
    <2> QED BY <1>4, <1>8, <1>10, <2>1 DEF Ahead
  <1>14. /\ next' \in 1 .. Registers + 1
         /\ sampling' = "read_a" => next' <= Registers
         /\ sampling' = "wait_b" => next' = Registers + 1
    BY <1>2, <1>3
  <1>15. time_a' \in Time /\ time_b' \in Time
    BY <1>1, <1>2, <1>6 DEF CallInv, Time, Register
  <1>16. CallInv'
    BY <1>2, <1>11, <1>13, <1>14, <1>15 DEF CallInv
  <1> QED BY <1>1, <1>16 DEF SampleInv

(* Two samples of the seconds that agree lie in one second: either no update  *)
(* is under way at the second, or it is the one that the first was taken in. *)
LEMMA SecondsAgree ==
    ASSUME ChipInv, time_a \in Time, NEW n \in Counts, Ahead(n, Register), Under(n), next = 1,
           regs[1] = time_a[1]
    PROVE  n[1] = 0 /\ \E m \in Counts : m[1] = 0 /\ (\A r \in Register : m[r] <= n[r])
                       /\ [r \in Register |-> Advance(time_a[r], m[r])] \in shown \cup Spanned
  <1>1. /\ n[1] \in 0 .. Changes(1) /\ regs[1] = Advance(time_a[1], n[1])
        /\ time_a[1] \in 0 .. Base - 1
    BY ClockConstants DEF Ahead, Time, Register
  <1>2. n[1] \in 0 .. MaxUpdates
    BY <1>1, ClockConstants DEF Changes, ChipInv
  <1>3. n[1] = 0
    BY <1>1, <1>2, AdvanceFacts
  <1>4. regs \in [Register -> 0 .. Base - 1]
    BY DEF ChipInv, Time, Register
  <1>5. regs \in shown \cup Spanned
    <2>1. CASE carry > 1
      BY <1>3, <2>1 DEF Under, Spanned, Carrying
    <2>2. CASE carry \in {0, 1}
      BY <2>2 DEF ChipInv
    <2>3. carry \in Nat
      BY ClockConstants DEF ChipInv
    <2> QED BY <2>1, <2>2, <2>3
  <1>6. regs = [r \in Register |-> Advance(time_a[r], n[r])]
    BY <1>4 DEF Ahead
  <1>7. \A r \in Register : n[r] <= n[r]
    BY DEF Counts
  <1> QED BY <1>3, <1>5, <1>6, <1>7

(* The next register, n updates ahead, and the one the chip has shown in     *)
(* between: if the samples of it agree it has not changed at all.            *)
LEMMA RegisterAgrees ==
    ASSUME ChipInv, time_a \in Time, NEW m \in Counts, NEW n \in Counts, Ahead(n, Register),
           NEW r \in Register, m[r] <= n[r], regs[r] = time_a[r]
    PROVE  m[r] = 0
  <1>1. /\ n[r] \in 0 .. Changes(r) /\ regs[r] = Advance(time_a[r], n[r])
        /\ time_a[r] \in 0 .. Base - 1 /\ m[r] \in Nat
    BY DEF Ahead, Time, Register, Counts
  <1>2. n[r] \in 0 .. MaxUpdates
    BY <1>1, ClockConstants DEF Changes, ChipInv
  <1>3. n[r] = 0
    BY <1>1, <1>2, AdvanceFacts
  <1> QED BY <1>1, <1>3

LEMMA ReadingB ==
    ASSUME SampleInv, ReadB
    PROVE  SampleInv'
  <1> DEFINE o == Order[next]
  <1>1. ChipInv' /\ CallInv /\ ChipInv /\ UNCHANGED chip
    BY ReadKeepsChip DEF ReadB, SampleInv
  <1>2. /\ sampling = "read_b" /\ next' = next + 1 /\ time_a' = time_a
        /\ time_b' = [time_b EXCEPT ![o] = regs[o]]
        /\ sampling' = IF next < Registers THEN "read_b" ELSE "compare"
        /\ halfway' = Spanned
    BY DEF ReadB, RtcRead
  <1>3. next \in Register /\ next \in Nat /\ next >= 1 /\ next <= Registers /\ Registers \in Nat
        /\ 1 \in Register
    BY <1>1, <1>2, ClockConstants DEF CallInv, Register
  <1>4. /\ o \in Register /\ o \notin Sampled
        /\ Sampled' = Sampled \cup {o} /\ Sampled \subseteq Register
        /\ o = 1 <=> next = 1
    BY <1>2, <1>3, OneMore
  <1> HIDE DEF o
  <1>5. /\ regs \in [Register -> 0 .. Base - 1] /\ time_b \in [Register -> 0 .. Base - 1]
        /\ time_b' \in [Register -> 0 .. Base - 1] /\ time_b'[o] = regs[o] /\ time_a \in Time
        /\ \A r \in Register \ {o} : time_b'[r] = time_b[r]
    BY <1>1, <1>2, <1>4 DEF ChipInv, CallInv, Time, Register
  <1>6. \A n \in Counts : Ahead(n, Register) => Ahead(n, Register)'
    BY <1>1, <1>2 DEF Ahead, Changes, chip
  <1>7. ASSUME time_b'[1] = time_a'[1] PROVE \E m, n \in Counts : Between(m, n, Sampled)'
    <2>1. CASE next = 1
      <3>1. PICK n \in Counts : Ahead(n, Register) /\ Under(n)
        BY <1>1, <1>2, <2>1 DEF CallInv
      <3>2. regs[1] = time_a[1]
        BY <1>2, <1>4, <1>5, <1>7, <2>1
      <3>3. PICK m \in Counts :
                /\ m[1] = 0 /\ \A r \in Register : m[r] <= n[r]
                /\ [r \in Register |-> Advance(time_a[r], m[r])] \in shown \cup Spanned
        BY <1>1, <1>5, <2>1, <3>1, <3>2, SecondsAgree
      <3>4. Sampled' = {1}
        BY <1>4, <2>1 DEF Sampled
      <3>5. Ahead(n, Register)' /\ shown' = shown /\ time_a' = time_a
        BY <1>1, <1>2, <1>6, <3>1 DEF chip
      <3>6. Between(m, n, Sampled)'
        BY <1>2, <3>3, <3>4, <3>5 DEF Between
      <3> QED BY <3>6
    <2>2. CASE next > 1
      <3>1. time_b[1] = time_a[1]
        BY <1>2, <1>3, <1>4, <1>5, <1>7, <2>2
      <3>2. PICK m \in Counts, n \in Counts : Between(m, n, Sampled)
        BY <1>1, <1>2, <2>2, <3>1 DEF CallInv
      <3>3. Ahead(n, Register) /\ m[o] <= n[o]
        BY <1>4, <3>2 DEF Between
      <3>4. time_b'[o] = time_a[o] => m[o] = 0
        <4>1. ASSUME regs[o] = time_a[o] PROVE m[o] = 0
          BY <1>1, <1>4, <1>5, <3>3, <4>1, RegisterAgrees
        <4> QED BY <1>5, <4>1
      <3>5. \A r \in Sampled' : time_b'[r] = time_a[r] => m[r] = 0
        BY <1>4, <1>5, <3>2, <3>4 DEF Between
      <3>6. Ahead(n, Register)' /\ shown' = shown /\ time_a' = time_a /\ halfway' = halfway
        BY <1>1, <1>2, <1>6, <2>2, <3>3 DEF chip, Spanned
      <3>7. Between(m, n, Sampled)'
        BY <3>2, <3>5, <3>6 DEF Between
      <3> QED BY <3>7
    <2> QED BY <1>3, <2>1, <2>2
  <1>8. /\ next' \in 1 .. Registers + 1 /\ next' > 1
        /\ sampling' = "read_b" => next' <= Registers
        /\ sampling' = "compare" => next' = Registers + 1
    BY <1>2, <1>3
  <1>9. time_a' \in Time /\ time_b' \in Time
    BY <1>1, <1>2, <1>5 DEF CallInv, Time, Register
  <1>10. CallInv'
    BY <1>2, <1>7, <1>8, <1>9 DEF CallInv
  <1> QED BY <1>1, <1>10 DEF SampleInv

LEMMA Comparing ==
    ASSUME SampleInv, Compare
    PROVE  SampleInv'
  <1>1. /\ ChipInv /\ CallInv /\ sampling = "compare" /\ UNCHANGED <<chip, next, time_a, time_b, under, halfway>>
        /\ sampling' = IF time_a = time_b THEN "return" ELSE "wait_a"
        /\ epoch_time' = IF sampling' = "return" THEN time_a ELSE epoch_time
    BY DEF Compare, SampleInv
  <1>2. ChipInv'
    BY <1>1 DEF ChipInv, chip
  <1>3. ASSUME time_a = time_b PROVE time_a \in shown \cup halfway
    <2>1. PICK m \in Counts, n \in Counts : Between(m, n, Sampled)
      BY <1>1, <1>3 DEF CallInv
    <2>2. Sampled = Register
      <3>1. next - 1 = Registers
        BY <1>1, ClockConstants DEF CallInv
      <3>2. Sampled = {Order[k] : k \in Register}
        BY <3>1 DEF Sampled, Register
      <3> QED BY <3>2, ClockConstants
    <2>3. ASSUME NEW r \in Register PROVE Advance(time_a[r], m[r]) = time_a[r]
      <3>1. m[r] = 0
        BY <1>3, <2>1, <2>2 DEF Between
      <3>2. time_a[r] \in 0 .. Base - 1 /\ 0 \in 0 .. MaxUpdates
        <4>1. time_a[r] \in 0 .. Base - 1
          BY <1>1 DEF CallInv, Time, Register
        <4> QED BY <4>1, ClockConstants
      <3> QED BY <3>1, <3>2, AdvanceFacts
    <2>4. time_a = [r \in Register |-> Advance(time_a[r], m[r])]
      <3>1. time_a \in [Register -> 0 .. Base - 1]
        BY <1>1 DEF CallInv, Time, Register
      <3> QED BY <2>3, <3>1
    <2> QED BY <2>1, <2>4 DEF Between
  <1>4. sampling' = "return" => epoch_time' \in shown' \cup halfway'
    BY <1>1, <1>3 DEF chip
  <1>5. CallInv'
    BY <1>1, <1>4 DEF CallInv
  <1> QED BY <1>2, <1>5 DEF SampleInv

LEMMA SampleBegins ==
    ASSUME SampleInit, sampling \in {"none", "wait_a"}
    PROVE  SampleInv
  <1>1. ChipInv
    BY ClockConstants DEF SampleInit, ChipInv
  <1>2. NoTime \in Time /\ 1 \in 1 .. Registers + 1
    BY ClockConstants DEF NoTime, Time
  <1>3. CallInv
    BY <1>2 DEF SampleInit, CallInv
  <1> QED BY <1>1, <1>3 DEF SampleInv

LEMMA SampleStep == SampleInv /\ SampleNext => SampleInv'
BY WaitA, WaitB, ReadingA, ReadingB, Comparing, ChipOn DEF SampleNext, GetTime

-----------------------------------------------------------------------------
(* The registers' way to epoch_time: truth is the calendar's. *)
(* What the calendar says the hours since 1970 are. *)
DaysBefore(y, m) == DaysUntilMonth[m + 1] + (IF y % 4 = 0 /\ m > 1 THEN 1 ELSE 0)
HoursSince(y, m, d, h) ==
    24 * (10957 + 365 * (y - 100) + ((y - 97) \div 4) + DaysBefore(y, m) + d - 1) + h

DateInv ==
    /\ status_b \in StatusB
    /\ year \in FirstYear .. LastYear /\ month \in 0 .. 11
    /\ mday \in 1 .. MonthLength(year, month) /\ hour \in 0 .. 23
    /\ truth = HoursSince(year, month, mday, hour)

(* Register B's values that rtc_init's shifts do not take for binary when    *)
(* they mean BCD, or for another mode of the hours than is read at last.     *)
Understood(b) == b >= 2 /\ (b < 4 \/ Bit(b, 2))

LEMMA LeapYears ==
    ASSUME NEW y \in 100 .. 199
    PROVE  /\ Leap(y) <=> y % 4 = 0
           /\ (y + 300) \div 400 = 1
           /\ (y - 97) \div 4 = (y \div 4) - 24 - (IF y % 4 = 0 THEN 1 ELSE 0)
           /\ (y + 1 - 97) \div 4 = ((y - 97) \div 4) + (IF y % 4 = 0 THEN 1 ELSE 0)
           /\ y \div 4 \in Int /\ (y - 97) \div 4 \in Int
BY DEF Leap

LEMMA MonthStarts ==
    ASSUME NEW m \in 0 .. 11
    PROVE  DaysUntilMonth[m + 1] \in 0 .. 334
  <1>1. \/ m = 0 \/ m = 1 \/ m = 2 \/ m = 3 \/ m = 4 \/ m = 5
        \/ m = 6 \/ m = 7 \/ m = 8 \/ m = 9 \/ m = 10 \/ m = 11
    OBVIOUS
  <1> QED BY <1>1 DEF DaysUntilMonth

LEMMA Months ==
    ASSUME NEW y \in 100 .. 199, NEW m \in 0 .. 11
    PROVE  /\ MonthLength(y, m) \in 28 .. 31
           /\ m < 11 => DaysBefore(y, m + 1) = DaysBefore(y, m) + MonthLength(y, m)
           /\ m = 11 => DaysBefore(y, m) + MonthLength(y, m) = 365 + (IF y % 4 = 0 THEN 1 ELSE 0)
           /\ DaysBefore(y + 1, 0) = 0
  <1>1. Leap(y) <=> y % 4 = 0
    BY LeapYears
  <1>2. \/ m = 0 \/ m = 1 \/ m = 2 \/ m = 3 \/ m = 4 \/ m = 5
        \/ m = 6 \/ m = 7 \/ m = 8 \/ m = 9 \/ m = 10 \/ m = 11
    OBVIOUS
  <1> QED BY <1>1, <1>2 DEF DaysBefore, DaysUntilMonth, MonthLength

LEMMA DateBegins == DateInit => DateInv
  <1> SUFFICES ASSUME DateInit PROVE DateInv
    OBVIOUS
  <1>1. FirstYear \in 100 .. 199 /\ FirstYear \in FirstYear .. LastYear
    BY DateAssumption
  <1>2. DaysBefore(FirstYear, 0) = 0 /\ 1 \in 1 .. MonthLength(FirstYear, 0)
    BY <1>1, Months DEF DaysBefore, DaysUntilMonth
  <1>3. FirstYear - 100 + 3 = FirstYear - 97
    BY <1>1
  <1> QED BY <1>1, <1>2, <1>3 DEF DateInit, DateInv, HoursSince

LEMMA DateStep == DateInv /\ DateNext => DateInv'
  <1> SUFFICES ASSUME DateInv, DateNext PROVE DateInv'
    OBVIOUS
  <1> DEFINE passed == 10957 + 365 * (year - 100) + ((year - 97) \div 4)
  <1>1. year \in 100 .. 199 /\ month \in 0 .. 11
    BY DateAssumption DEF DateInv
  <1>2. /\ MonthLength(year, month) \in Nat /\ DaysBefore(year, month) \in Int
        /\ (year - 97) \div 4 \in Int
    <2>1. MonthLength(year, month) \in 28 .. 31 /\ DaysUntilMonth[month + 1] \in 0 .. 334
      BY <1>1, Months, MonthStarts
    <2>2. (year - 97) \div 4 \in Int
      BY <1>1, LeapYears
    <2> QED BY <2>1, <2>2 DEF DaysBefore
  <1>3. CASE NextHour
    BY <1>1, <1>2, <1>3 DEF NextHour, DateInv, HoursSince
  <1>4. CASE NextDay
    BY <1>1, <1>2, <1>4 DEF NextDay, DateInv, HoursSince
  <1>5. CASE NextMonth
    <2>1. /\ mday = MonthLength(year, month) /\ hour = 23 /\ hour' = 0 /\ mday' = 1
          /\ truth' = truth + 1 /\ status_b' = status_b /\ year' <= LastYear
      BY <1>5 DEF NextMonth
    <2>2. CASE month = 11
      <3>1. year' = year + 1 /\ month' = 0 /\ year + 1 \in 100 .. 199
        BY <1>1, <1>5, <2>1, <2>2, DateAssumption DEF NextMonth
      <3>2. 1 \in 1 .. MonthLength(year + 1, 0)
        <4>1. 0 \in 0 .. 11
          OBVIOUS
        <4>2. MonthLength(year + 1, 0) \in 28 .. 31
          BY <3>1, <4>1, Months
        <4> QED BY <4>2
      <3>3. DaysBefore(year, month) + MonthLength(year, month) =
                365 + (IF year % 4 = 0 THEN 1 ELSE 0)
        BY <1>1, <2>2, Months
      <3>4. DaysBefore(year + 1, 0) = 0
        BY <1>1, Months
      <3>5. (year + 1 - 97) \div 4 = ((year - 97) \div 4) + (IF year % 4 = 0 THEN 1 ELSE 0)
        BY <1>1, LeapYears
      <3>6. HoursSince(year + 1, 0, 1, 0) = HoursSince(year, month, mday, 23) + 1
        BY <1>1, <1>2, <2>1, <3>3, <3>4, <3>5 DEF HoursSince
      <3> QED BY <1>1, <2>1, <3>1, <3>2, <3>6, DateAssumption DEF DateInv
    <2>3. CASE month < 11
      <3>1. year' = year /\ month' = month + 1
        BY <1>1, <1>5, <2>3 DEF NextMonth
      <3>2. DaysBefore(year, month + 1) = DaysBefore(year, month) + MonthLength(year, month)
            /\ 1 \in 1 .. MonthLength(year, month + 1)
        <4>1. month + 1 \in 0 .. 11
          BY <1>1, <2>3
        <4>2. MonthLength(year, month + 1) \in 28 .. 31
          BY <1>1, <4>1, Months
        <4>3. month < 11 => DaysBefore(year, month + 1) =
                                DaysBefore(year, month) + MonthLength(year, month)
          BY <1>1, Months
        <4> QED BY <2>3, <4>2, <4>3
      <3>3. HoursSince(year, month + 1, 1, 0) = HoursSince(year, month, mday, 23) + 1
        BY <1>1, <1>2, <2>1, <3>2 DEF HoursSince
      <3> QED BY <1>1, <2>1, <2>3, <3>1, <3>2, <3>3 DEF DateInv
    <2> QED BY <1>1, <2>2, <2>3
  <1> QED BY <1>3, <1>4, <1>5 DEF DateNext

(* Numbers of two digits survive the chip's format. *)
LEMMA RoundTrip ==
    ASSUME Understood(status_b), status_b \in 0 .. 255, NEW n \in 0 .. 99
    PROVE  ConvertBcd(Encode(n)) = n /\ Encode(n) \in Nat /\ (n <= 12 => Encode(n) < 128)
           /\ (n < 24 => Encode(n) < 128)
  <1>1. 2 ^ 2 = 4
    OBVIOUS
  <1>2. IsBcd <=> ~Bit(status_b, 2)
    BY <1>1 DEF Understood, IsBcd, Bit
  <1> DEFINE tens == n \div 10
             ones == n % 10
  <1>3. tens \in 0 .. 9 /\ ones \in 0 .. 9 /\ n = 10 * tens + ones /\ (n < 24 => tens <= 2)
    OBVIOUS
  <1> HIDE DEF tens, ones
  <1>4. (tens * 16 + ones) \div 16 = tens /\ (tens * 16 + ones) % 16 = ones
    BY <1>3
  <1> QED BY <1>2, <1>3, <1>4 DEF ConvertBcd, Encode, tens, ones

LEMMA HourRead ==
    ASSUME Understood(status_b), status_b \in 0 .. 255, hour \in 0 .. 23
    PROVE  TmHour = hour - (IF TwentyFourHour /\ hour >= 12 THEN 12 ELSE 0)
  <1>1. ~Is24h
    BY DEF Understood, Is24h
  <1> DEFINE shown12 == IF hour % 12 = 0 THEN 12 ELSE hour % 12
  <1>2. shown12 \in 1 .. 12 /\ shown12 % 12 = hour % 12
        /\ hour % 12 = (IF hour >= 12 THEN hour - 12 ELSE hour)
    OBVIOUS
  <1> HIDE DEF shown12
  <1>3. CASE Bit(status_b, 1)
    <2>1. HourRegister = Encode(hour) /\ TwentyFourHour
      BY <1>3 DEF HourRegister, TwentyFourHour
    <2>2. ConvertBcd(Encode(hour)) = hour /\ Encode(hour) < 128 /\ Encode(hour) \in Nat
      BY RoundTrip
    <2> QED BY <1>1, <1>2, <2>1, <2>2 DEF TmHour
  <1>4. CASE ~Bit(status_b, 1)
    <2>1. HourRegister = Encode(shown12) + (IF hour >= 12 THEN 128 ELSE 0) /\ ~TwentyFourHour
      BY <1>4 DEF HourRegister, TwentyFourHour, shown12
    <2>2. ConvertBcd(Encode(shown12)) = shown12 /\ Encode(shown12) \in Nat /\ Encode(shown12) < 128
      BY <1>2, RoundTrip
    <2>3. CASE hour >= 12
      <3>1. HourRegister >= 128 /\ HourRegister - 128 = Encode(shown12)
        BY <2>1, <2>2, <2>3
      <3> QED BY <1>1, <1>2, <2>1, <2>2, <2>3, <3>1 DEF TmHour
    <2>4. CASE hour < 12
      <3>1. HourRegister = Encode(shown12)
        BY <2>1, <2>2, <2>4
      <3>2. ~(HourRegister >= 128)
        BY <2>2, <3>1
      <3> QED BY <1>1, <1>2, <2>1, <2>2, <2>4, <3>1, <3>2 DEF TmHour
    <2> QED BY <2>3, <2>4
  <1> QED BY <1>3, <1>4

LEMMA DateRead ==
    ASSUME DateInv, Understood(status_b)
    PROVE  AtMostADayAhead
  <1>1. /\ year \in 100 .. 199 /\ month \in 0 .. 11 /\ hour \in 0 .. 23 /\ status_b \in 0 .. 255
        /\ mday \in 1 .. 31
    <2>1. year \in 100 .. 199 /\ month \in 0 .. 11
      BY DateAssumption DEF DateInv
    <2>2. MonthLength(year, month) \in 28 .. 31
      BY <2>1, Months
    <2> QED BY <2>1, <2>2, DateAssumption DEF DateInv
  <1>2. /\ ConvertBcd(Encode(year - 100)) = year - 100
        /\ ConvertBcd(Encode(month + 1)) = month + 1
        /\ ConvertBcd(Encode(mday)) = mday
    <2>1. year - 100 \in 0 .. 99 /\ month + 1 \in 0 .. 99 /\ mday \in 0 .. 99
      BY <1>1
    <2> QED BY <1>1, <2>1, RoundTrip
  <1>3. (year - 100) + 100 = year /\ (month + 1) - 1 = month
    BY <1>1
  <1>4. EpochTime = Mktime(year, month, mday, TmHour)
    BY <1>2, <1>3 DEF EpochTime
  <1>5. /\ Leap(year) <=> year % 4 = 0
        /\ (year + 300) \div 400 = 1
        /\ (year - 97) \div 4 = (year \div 4) - 24 - (IF year % 4 = 0 THEN 1 ELSE 0)
        /\ year \div 4 \in Int /\ DaysUntilMonth[month + 1] \in Int
    <2>1. DaysUntilMonth[month + 1] \in 0 .. 334
      BY <1>1, MonthStarts
    <2> QED BY <1>1, <2>1, LeapYears
  <1> DEFINE until == DaysUntilMonth[month + 1]
             quarter == year \div 4
  <1>6. Mktime(year, month, mday, TmHour) =
            24 * (-25567 + year * 365 + quarter + (IF year % 4 = 0 /\ month > 2 THEN 1 ELSE 0)
                  + until + mday - 1) + TmHour
    BY <1>1, <1>5 DEF Mktime, LeapDays
  <1>7. truth = 24 * (10957 + 365 * (year - 100) + quarter - 24 - (IF year % 4 = 0 THEN 1 ELSE 0)
                      + until + (IF year % 4 = 0 /\ month > 1 THEN 1 ELSE 0) + mday - 1) + hour
    BY <1>1, <1>5 DEF DateInv, HoursSince, DaysBefore
  <1>8. TmHour = hour - (IF TwentyFourHour /\ hour >= 12 THEN 12 ELSE 0)
    BY <1>1, HourRead
  <1> HIDE DEF until, quarter
  <1>9. until \in Int /\ quarter \in Int
    BY <1>5 DEF until, quarter
  <1> DEFINE late == IF TwentyFourHour /\ hour >= 12 THEN 12 ELSE 0
  <1>10. late \in Int /\ Due = truth - late /\ TmHour = hour - late
    BY <1>8 DEF Due
  <1> HIDE DEF late
  <1> QED BY <1>1, <1>4, <1>5, <1>6, <1>7, <1>9, <1>10 DEF AtMostADayAhead

-----------------------------------------------------------------------------
(* delay.  The invariant measures time in ticks (Clocked) and relates the    *)
(* moment a wait ends to the tick it began at and to the next read.          *)
LEMMA Dividing ==
    ASSUME NEW b \in Nat \ {0}
    PROVE  /\ \A v \in 0 .. b - 1 : v \div b = 0
           /\ \A v \in b .. 2 * b - 1 : v \div b = 1 /\ v % b = v - b
           /\ \A v \in Nat : /\ v \div b \in Nat /\ v - b * (v \div b) \in 0 .. b - 1
                             /\ v >= b => v \div b >= 1
  <1>1. \A v \in 0 .. b - 1 : v \div b = 0
    OBVIOUS
  <1>2. \A v \in b .. 2 * b - 1 : v \div b = 1
    OBVIOUS
  <1>3. \A v \in b .. 2 * b - 1 : v % b = v - b
    OBVIOUS
  <1>4. \A v \in Nat : v \div b \in Nat 
    OBVIOUS
  <1>5. \A v \in Nat : v - b * (v \div b) \in 0 .. b - 1
    OBVIOUS
  <1>6. \A v \in Nat : v >= b => v \div b >= 1
    OBVIOUS
  <1> QED BY <1>1, <1>2, <1>3, <1>4, <1>5, <1>6

Span(k) == k * (JIFFIES + 1)

LEMMA Spans ==
    /\ Span(0) = 0
    /\ \A k \in Int : Span(k) \in Int /\ Span(k + 1) = Span(k) + JIFFIES + 1
    /\ \A k, l \in Int : k < l => Span(k) + JIFFIES + 1 <= Span(l)
    /\ \A k, l \in Int : Span(k + l) = Span(k) + Span(l)
    /\ \A k \in Int : Span(k) = JIFFIES * k + k
  <1> USE TimerAssumption DEF Span
  <1>1. Span(0) = 0
    OBVIOUS
  <1>2. \A k \in Int : Span(k) \in Int /\ Span(k + 1) = Span(k) + JIFFIES + 1
    OBVIOUS
  <1>3. \A k, l \in Int : k < l => Span(k) + JIFFIES + 1 <= Span(l)
    OBVIOUS
  <1>4. \A k, l \in Int : Span(k + l) = Span(k) + Span(l)
    OBVIOUS
  <1>5. \A k \in Int : Span(k) = JIFFIES * k + k
    OBVIOUS
  <1> QED BY <1>1, <1>2, <1>3, <1>4, <1>5

Clocked == Span(uptime) + jiffies_frac
Begun == Clocked - ticks
Whole == duration \div JIFFIES
Rest == duration - JIFFIES * Whole

(* Reads of the clock since a tick that fell into the polling. *)
Polls == IF pc = "poll_uptime" THEN 0 ELSE IF pc = "poll_jiffies" THEN 1 ELSE 2

(* The wait ends in second s when deadline_jiffies have passed in it. *)
EndsIn(s) ==
    LET end == Span(s) + deadline_jiffies IN
    /\ s = deadline_seconds \/ (s = deadline_seconds + 1 /\ uptime >= s)
    /\ end >= Begun + (IF duration < JIFFIES THEN duration ELSE duration - JIFFIES)
    /\ end <= Begun + duration + Whole + 2
    /\ pc # "poll_uptime" => uptime >= s
    /\ \/ Clocked < end /\ pc # "return"
       \/ Clocked = end /\ (reads <= Polls \/ end <= Begun + 1)
       \/ Clocked = end + 1 /\ end <= Begun + 1 /\ reads <= Polls

Polling == {"poll_uptime", "poll_jiffies", "return"}

ClockInv ==
    /\ jiffies_frac \in 0 .. JIFFIES /\ uptime \in Nat /\ uptime <= 1 + ticks
    /\ ticks \in Nat /\ reads \in 0 .. READS
    /\ pc \in {"idle", "fault", "read_uptime", "read_jiffies", "done"} \cup Polling

WaitInv ==
    /\ pc = "idle" => ticks = 0
    /\ pc \in {"read_uptime", "read_jiffies"} => duration \in Duration
    /\ pc = "read_uptime" => ticks = 0 \/ (ticks = 1 /\ reads = 0)
    /\ pc = "read_jiffies" => ticks = 0 \/ (ticks = 1 /\ reads <= 1)
    /\ pc = "read_jiffies" /\ duration >= 0 =>
           \/ deadline_seconds = uptime + Whole
           \/ deadline_seconds = uptime - 1 + Whole /\ jiffies_frac = 0 /\ ticks = 1 /\ uptime > 0
    /\ pc \in Polling =>
           /\ duration \in Int
           /\ duration >= 0 =>
                  /\ deadline_seconds \in Nat /\ deadline_jiffies \in 0 .. JIFFIES - 1
                  /\ \E s \in Nat : EndsIn(s)

TimerInv == ClockInv /\ WaitInv

LEMMA Durations ==
    ASSUME duration \in Nat
    PROVE  /\ Whole \in Nat /\ Whole <= duration /\ Rest \in 0 .. JIFFIES - 1
           /\ duration = JIFFIES * Whole + Rest /\ JIFFIES * Whole \in Nat
           /\ duration < JIFFIES => Whole = 0 /\ Rest = duration
           /\ duration >= JIFFIES => Whole >= 1
           /\ Span(Whole) = duration - Rest + Whole
           /\ Quotient(duration, JIFFIES) = Whole /\ Remainder(duration, JIFFIES) = Rest
  <1>1. JIFFIES \in Nat \ {0}
    BY TimerAssumption
  <1>2. Whole \in Nat /\ Rest \in 0 .. JIFFIES - 1 /\ (duration >= JIFFIES => Whole >= 1)
        /\ Whole <= duration
    <2>1. /\ duration \div JIFFIES \in Nat
          /\ duration - JIFFIES * (duration \div JIFFIES) \in 0 .. JIFFIES - 1
          /\ duration >= JIFFIES => duration \div JIFFIES >= 1
      BY <1>1, Dividing, Zenon
    <2>2. duration \div JIFFIES <= duration
      <3>1. \A b \in Nat \ {0} : \A v \in Nat : v \div b <= v
        OBVIOUS
      <3> QED BY <1>1, <3>1, Zenon
    <2> QED BY <2>1, <2>2 DEF Whole, Rest
  <1>3. JIFFIES * Whole \in Nat
    BY <1>1, <1>2
  <1>4. duration = JIFFIES * Whole + Rest
    BY <1>3 DEF Rest
  <1>5. duration < JIFFIES => Whole = 0 /\ Rest = duration
    <2>1. duration < JIFFIES => Whole = 0
      BY <1>1, Dividing DEF Whole
    <2>2. JIFFIES * 0 = 0
      BY <1>1
    <2> QED BY <2>1, <2>2 DEF Rest
  <1>6. Span(Whole) = JIFFIES * Whole + Whole
    BY <1>2, Spans
  <1>7. Quotient(duration, JIFFIES) = Whole /\ Remainder(duration, JIFFIES) = Rest
    BY DEF Quotient, Remainder, Whole, Rest
  <1> QED BY <1>2, <1>3, <1>4, <1>5, <1>6, <1>7

(* The clock shows second s, and its jiffies, just when it should. *)
LEMMA Shown ==
    ASSUME ClockInv, NEW s \in Nat
    PROVE  /\ Clocked \in Int /\ Span(s) \in Int /\ Span(uptime) \in Int
           /\ Clocked = Span(uptime) + jiffies_frac
           /\ uptime = s => Span(uptime) = Span(s)
           /\ uptime > s => Clocked >= Span(s) + JIFFIES + 1
           /\ uptime < s => Clocked < Span(s)
  <1>1. uptime \in Int /\ s \in Int /\ jiffies_frac \in 0 .. JIFFIES /\ JIFFIES \in Nat
    BY TimerAssumption DEF ClockInv
  <1>2. Span(s) \in Int /\ Span(uptime) \in Int
    BY <1>1, Spans
  <1>3. uptime > s => Span(s) + JIFFIES + 1 <= Span(uptime)
    BY <1>1, Spans
  <1>4. uptime < s => Span(uptime) + JIFFIES + 1 <= Span(s)
    BY <1>1, Spans
  <1> QED BY <1>1, <1>2, <1>3, <1>4 DEF Clocked

LEMMA ClockStep ==
    ASSUME ClockInv, TimerNext
    PROVE  ClockInv'
  <1>1. JIFFIES \in Nat /\ READS \in Nat
    BY TimerAssumption
  <1>2. CASE Tick
    BY <1>1, <1>2 DEF Tick, TimerTick, ClockInv
  <1>3. ASSUME Read, UNCHANGED <<clock, ticks>>,
               pc' \in {"idle", "read_uptime", "read_jiffies", "done"} \cup Polling
        PROVE  ClockInv'
    BY <1>1, <1>3 DEF Read, ClockInv, clock
  <1>4. CASE Delay
    BY <1>3, <1>4 DEF Delay, ReadUptime, ReadJiffies, PollUptime, PollJiffies, Silence, Polling, clock
  <1>5. ASSUME NEW d, Beep(d) PROVE ClockInv'
    BY <1>3, <1>5 DEF Beep
  <1>6. CASE BeepZero
    BY <1>6 DEF BeepZero, ClockInv, clock
  <1> QED BY <1>2, <1>4, <1>5, <1>6 DEF TimerNext

-----------------------------------------------------------------------------
LEMMA TickComes ==
    ASSUME TimerInv, Tick
    PROVE  WaitInv'
  <1>1. /\ reads = READS /\ pc \notin {"idle", "done", "fault"} /\ reads' = 0 /\ ticks' = ticks + 1
        /\ UNCHANGED <<pc, duration, deadline_seconds, deadline_jiffies>>
        /\ IF jiffies_frac + 1 > JIFFIES
           THEN jiffies_frac' = 0 /\ uptime' = uptime + 1
           ELSE jiffies_frac' = jiffies_frac + 1 /\ uptime' = uptime
    BY DEF Tick, TimerTick
  <1>2. /\ READS \in Nat /\ READS >= 3 /\ JIFFIES \in Nat /\ ticks \in Nat /\ uptime \in Nat
        /\ jiffies_frac \in 0 .. JIFFIES /\ ClockInv /\ WaitInv
    BY TimerAssumption DEF TimerInv, ClockInv
  <1>3. Whole' = Whole
    BY <1>1 DEF Whole
  <1>4. Clocked' = Clocked + 1 /\ Clocked \in Int /\ Begun' = Begun /\ Begun \in Int
    <2>1. Span(uptime) \in Int /\ Span(uptime + 1) = Span(uptime) + JIFFIES + 1
      <3>1. uptime \in Int
        BY <1>2
      <3> QED BY <3>1, Spans
    <2> QED BY <1>1, <1>2, <2>1 DEF Clocked, Begun
  <1>5. CASE pc \in {"read_uptime", "read_jiffies"}
    <2>1. ticks = 0 /\ ticks' = 1 /\ duration \in Duration
      BY <1>1, <1>2, <1>5 DEF WaitInv
    <2>2. pc = "read_jiffies" /\ duration >= 0 => deadline_seconds = uptime + Whole
      BY <1>2, <2>1 DEF WaitInv
    <2>3. uptime + Whole = uptime' + Whole \/ (uptime + Whole = uptime' - 1 + Whole /\ jiffies_frac' = 0 /\ uptime' > 0)
      <3>1. uptime' = uptime \/ (uptime' - 1 = uptime /\ jiffies_frac' = 0 /\ uptime' > 0)
        BY <1>1, <1>2
      <3> QED BY <3>1
    <2>4. pc' \notin Polling /\ pc' # "idle"
      BY <1>1, <1>5 DEF Polling
    <2> QED BY <1>1, <1>3, <2>1, <2>2, <2>3, <2>4 DEF WaitInv
  <1>6. CASE pc \in Polling
    <2>1. ASSUME duration >= 0, NEW s \in Nat, EndsIn(s) PROVE EndsIn(s)'
      <3> DEFINE end == Span(s) + deadline_jiffies
      <3>1. end \in Int /\ end' = end /\ duration \in Int /\ deadline_jiffies \in Int
        BY <1>1, <1>2, <1>6, <2>1, Spans DEF WaitInv
      <3>2. Polls' = Polls /\ Polls \in {0, 1, 2} /\ reads' <= Polls
        BY <1>1 DEF Polls
      <3>3. uptime' >= uptime /\ uptime' \in Nat
        BY <1>1, <1>2
      <3>4. ~(reads <= Polls)
        BY <1>1, <1>2, <3>2
      <3>5. \/ Clocked < end /\ pc # "return"
            \/ Clocked = end /\ end <= Begun + 1
        BY <2>1, <3>4 DEF EndsIn
      <3>6. \/ Clocked' < end' /\ pc' # "return"
            \/ Clocked' = end' /\ (reads' <= Polls' \/ end' <= Begun' + 1)
            \/ Clocked' = end' + 1 /\ end' <= Begun' + 1 /\ reads' <= Polls'
        <4> HIDE DEF end
        <4> QED BY <1>1, <1>4, <3>1, <3>2, <3>5
      <3>7. /\ s = deadline_seconds' \/ (s = deadline_seconds' + 1 /\ uptime' >= s)
            /\ pc' # "poll_uptime" => uptime' >= s
        BY <1>1, <1>2, <2>1, <3>3 DEF EndsIn
      <3>8. /\ end' >= Begun' + (IF duration' < JIFFIES THEN duration' ELSE duration' - JIFFIES)
            /\ end' <= Begun' + duration' + Whole' + 2
        BY <1>1, <1>3, <1>4, <2>1, <3>1 DEF EndsIn
      <3> QED BY <3>6, <3>7, <3>8 DEF EndsIn
    <2>2. duration >= 0 => \E s \in Nat : EndsIn(s)'
      BY <1>2, <1>6, <2>1 DEF WaitInv
    <2>3. /\ duration \in Int
          /\ duration >= 0 => deadline_seconds \in Nat /\ deadline_jiffies \in 0 .. JIFFIES - 1
      BY <1>2, <1>6 DEF WaitInv
    <2>4. pc' \notin {"idle", "read_uptime", "read_jiffies"}
      BY <1>1, <1>6 DEF Polling
    <2> QED BY <1>1, <2>2, <2>3, <2>4 DEF WaitInv
  <1> QED BY <1>1, <1>2, <1>5, <1>6 DEF ClockInv

LEMMA Beeping ==
    ASSUME TimerInv, NEW d \in Duration, Beep(d)
    PROVE  WaitInv'
  <1>1. pc = "idle" /\ ticks = 0 /\ ticks' = ticks /\ pc' = "read_uptime" /\ duration' = d
    BY DEF Beep, TimerInv, WaitInv
  <1> QED BY <1>1 DEF WaitInv, Polling

LEMMA ReadingUptime ==
    ASSUME TimerInv, ReadUptime
    PROVE  WaitInv'
  <1>1. /\ pc = "read_uptime" /\ pc' = "read_jiffies" /\ UNCHANGED <<clock, duration, ticks>>
        /\ deadline_seconds' = (uptime + Quotient(duration, JIFFIES)) % UINT64
        /\ reads' = IF reads < READS THEN reads + 1 ELSE reads
    BY DEF ReadUptime, Read
  <1>2. /\ duration \in Duration /\ duration \in Int /\ ticks \in Nat /\ uptime \in Nat /\ uptime <= 1 + ticks
        /\ ticks = 0 \/ (ticks = 1 /\ reads = 0)
    BY <1>1, TimerAssumption DEF TimerInv, ClockInv, WaitInv
  <1>3. ticks' = 0 \/ (ticks' = 1 /\ reads' <= 1)
    BY <1>1, <1>2, TimerAssumption
  <1>4. ASSUME duration >= 0 PROVE deadline_seconds' = uptime' + Whole'
    <2>1. Whole \in Nat /\ Whole <= duration /\ Quotient(duration, JIFFIES) = Whole
      BY <1>2, <1>4, Durations
    <2>2. duration + 3 < UINT64 /\ UINT64 \in Nat \ {0}
      BY <1>2, TimerAssumption
    <2>3. uptime + Whole \in 0 .. UINT64 - 1
      BY <1>2, <2>1, <2>2
    <2>4. (uptime + Whole) % UINT64 = uptime + Whole
      BY <2>2, <2>3, Remainders
    <2> QED BY <1>1, <2>1, <2>4 DEF clock, Whole
  <1> QED BY <1>1, <1>2, <1>3, <1>4 DEF WaitInv, Polling

(* The deadline.  If a second began between the two reads it counts from the *)
(* second before, in which it may lie; then it is due in the second after    *)
(* that one, which has just begun.                                           *)
LEMMA ReadingJiffies ==
    ASSUME TimerInv, ReadJiffies
    PROVE  WaitInv'
  <1> DEFINE sum == (jiffies_frac + Remainder(duration, JIFFIES)) % WIDTH
  <1>1. /\ pc = "read_jiffies" /\ pc' = "poll_uptime" /\ UNCHANGED <<clock, duration, ticks>>
        /\ deadline_seconds' = (deadline_seconds + sum \div JIFFIES) % UINT64
        /\ deadline_jiffies' = sum % JIFFIES
        /\ reads' \in Nat
    BY DEF ReadJiffies, Read, TimerInv, ClockInv
  <1>2. /\ duration \in Duration /\ duration \in Int /\ ticks \in Nat /\ uptime \in Nat /\ uptime <= 1 + ticks
        /\ ticks = 0 \/ ticks = 1
        /\ jiffies_frac \in 0 .. JIFFIES /\ JIFFIES \in Nat \ {0}
        /\ UINT64 \in Nat \ {0} /\ WIDTH \in Nat /\ 2 * JIFFIES <= WIDTH
    BY <1>1, TimerAssumption DEF TimerInv, ClockInv, WaitInv
  <1>3. ASSUME duration >= 0
        PROVE  /\ deadline_seconds' \in Nat /\ deadline_jiffies' \in 0 .. JIFFIES - 1
               /\ \E s \in Nat : EndsIn(s)'
    <2>1. /\ Whole \in Nat /\ Whole <= duration /\ Rest \in 0 .. JIFFIES - 1 /\ duration \in Nat
          /\ duration < JIFFIES => Whole = 0 /\ Rest = duration
          /\ duration >= JIFFIES => Whole >= 1
          /\ Span(Whole) = duration - Rest + Whole
          /\ Remainder(duration, JIFFIES) = Rest
      BY <1>2, <1>3, Durations
    <2>2. sum = jiffies_frac + Rest
      <3>1. jiffies_frac + Rest \in 0 .. WIDTH - 1 /\ WIDTH \in Nat \ {0}
        BY <1>2, <2>1
      <3> QED BY <2>1, <3>1, Remainders
    <2> HIDE DEF sum
    <2>3. PICK c \in {0, 1} : /\ sum \div JIFFIES = c
                              /\ deadline_jiffies' = sum - JIFFIES * c
                              /\ deadline_jiffies' \in 0 .. JIFFIES - 1
                              /\ c = 1 => sum >= JIFFIES
      <3>1. sum \in 0 .. JIFFIES - 1 \/ sum \in JIFFIES .. 2 * JIFFIES - 1
        BY <1>2, <2>1, <2>2
      <3>2. CASE sum \in 0 .. JIFFIES - 1
        <4>1. sum \div JIFFIES = 0 /\ sum % JIFFIES = sum /\ sum - JIFFIES * 0 = sum
          BY <1>2, <3>2, Dividing, Remainders
        <4> QED BY <1>1, <3>2, <4>1
      <3>3. CASE sum \in JIFFIES .. 2 * JIFFIES - 1
        <4>1. sum \div JIFFIES = 1 /\ sum % JIFFIES = sum - JIFFIES
          BY <1>2, <3>3, Dividing
        <4>2. sum - JIFFIES * 1 = sum - JIFFIES /\ sum - JIFFIES \in 0 .. JIFFIES - 1 /\ sum >= JIFFIES
          BY <1>2, <3>3
        <4> QED BY <1>1, <4>1, <4>2
      <3> QED BY <3>1, <3>2, <3>3
    <2>4. /\ \/ deadline_seconds = uptime + Whole
             \/ /\ deadline_seconds = uptime - 1 + Whole /\ jiffies_frac = 0
                /\ ticks = 1 /\ uptime > 0
          /\ deadline_seconds \in Nat /\ deadline_seconds <= uptime + Whole
      <3>1. \/ deadline_seconds = uptime + Whole
            \/ /\ deadline_seconds = uptime - 1 + Whole /\ jiffies_frac = 0
               /\ ticks = 1 /\ uptime > 0
        BY <1>1, <1>3 DEF TimerInv, WaitInv
      <3> QED BY <1>2, <2>1, <3>1
    <2>5. deadline_seconds' = deadline_seconds + c /\ deadline_seconds' \in Nat
      <3>1. duration + 3 < UINT64
        BY <1>2, TimerAssumption
      <3>2. deadline_seconds + c \in 0 .. UINT64 - 1
        BY <1>2, <2>1, <2>3, <2>4, <3>1
      <3>3. (deadline_seconds + c) % UINT64 = deadline_seconds + c
        BY <1>2, <3>2, Remainders
      <3> QED BY <1>1, <2>3, <3>2, <3>3
    <2>6. Span(uptime) \in Int /\ Clocked = Span(uptime) + jiffies_frac /\ Begun = Clocked - ticks
      <3>1. uptime \in Int
        BY <1>2
      <3> QED BY <3>1, Spans DEF Clocked, Begun
    <2>7. Clocked' = Clocked /\ Begun' = Begun /\ Whole' = Whole /\ uptime' = uptime /\ duration' = duration
      BY <1>1 DEF Clocked, Begun, Whole, clock
    <2>8. ASSUME NEW s \in Nat,
                 s = deadline_seconds' \/ (s = deadline_seconds' + 1 /\ uptime >= s),
                 Span(s) + deadline_jiffies' >=
                     Begun + (IF duration < JIFFIES THEN duration ELSE duration - JIFFIES),
                 Span(s) + deadline_jiffies' <= Begun + duration + Whole + 2,
                 Span(s) + deadline_jiffies' >= Clocked
          PROVE  EndsIn(s)'
      <3> DEFINE end == Span(s) + deadline_jiffies
      <3>1. end' \in Int /\ Clocked \in Int /\ Begun \in Int
        <4>1. s \in Int
          OBVIOUS
        <4>2. Span(s) \in Int
          BY <4>1, Spans
        <4> QED BY <1>2, <2>3, <2>6, <4>2
      <3>2. end' >= Clocked /\ end' = Span(s) + deadline_jiffies'
        BY <2>8
      <3> HIDE DEF end
      <3>3. Clocked < end' \/ (Clocked = end' /\ end' <= Begun + 1)
        BY <1>2, <2>6, <3>1, <3>2
      <3> QED BY <1>1, <2>7, <2>8, <3>3 DEF EndsIn, end
    <2>9. CASE deadline_seconds = uptime + Whole
      <3>0. PICK s \in Nat : s = uptime + Whole + c
        BY <1>2, <2>1, <2>3
      <3>1. s \in Nat /\ s = deadline_seconds'
        BY <1>2, <2>1, <2>3, <2>5, <2>9, <3>0
      <3>2. Span(s) = Span(uptime) + Span(Whole) + Span(c)
        <4>1. uptime \in Int /\ Whole \in Int /\ c \in Int /\ uptime + Whole \in Int
          BY <1>2, <2>1, <2>3
        <4>2. Span(uptime + Whole) = Span(uptime) + Span(Whole)
          BY <4>1, Spans
        <4>3. Span((uptime + Whole) + c) = Span(uptime + Whole) + Span(c)
          BY <4>1, Spans
        <4> QED BY <3>0, <4>2, <4>3
      <3>3. Span(c) = JIFFIES * c + c /\ JIFFIES * c \in Int
        <4>1. c \in Int
          BY <2>3
        <4> QED BY <1>2, <4>1, Spans
      <3>4. Span(s) + deadline_jiffies' = Clocked + duration + Whole + c
        <4>1. JIFFIES * c \in Int /\ Span(s) = Span(uptime) + (duration - Rest + Whole) + JIFFIES * c + c
          BY <2>1, <2>3, <2>6, <3>2, <3>3
        <4> QED BY <1>2, <2>1, <2>2, <2>3, <2>6, <4>1
      <3>5. EndsIn(s)'
        <4>1. /\ Span(s) + deadline_jiffies' >=
                     Begun + (IF duration < JIFFIES THEN duration ELSE duration - JIFFIES)
              /\ Span(s) + deadline_jiffies' <= Begun + duration + Whole + 2
              /\ Span(s) + deadline_jiffies' >= Clocked
          BY <1>2, <2>1, <2>3, <2>6, <3>4
        <4> QED BY <2>8, <3>1, <4>1
      <3> QED BY <2>3, <2>5, <3>1, <3>5
    <2>10. CASE deadline_seconds = uptime - 1 + Whole /\ jiffies_frac = 0 /\ ticks = 1 /\ uptime > 0
      <3>1. c = 0 /\ deadline_jiffies' = Rest
        <4>1. sum = Rest
          BY <2>1, <2>2, <2>10
        <4>2. c = 0
          BY <1>2, <2>1, <2>3, <4>1
        <4>3. JIFFIES * 0 = 0
          BY <1>2
        <4> QED BY <2>1, <2>3, <4>1, <4>2, <4>3
      <3>2. CASE Whole = 0
        <4>1. Rest = duration /\ duration < JIFFIES
          BY <1>2, <2>1, <3>2
        <4>2. PICK s \in Nat : s = uptime /\ s = deadline_seconds' + 1
          BY <1>2, <2>5, <2>10, <3>1, <3>2
        <4>3. EndsIn(s)'
          BY <1>2, <2>1, <2>6, <2>8, <2>10, <3>1, <3>2, <4>1, <4>2
        <4> QED BY <2>3, <2>5, <4>2, <4>3
      <3>3. CASE Whole >= 1
        <4>0. PICK s \in Nat : s = uptime - 1 + Whole
          BY <1>2, <2>1, <2>10
        <4>1. s = deadline_seconds' /\ duration >= JIFFIES
          BY <1>2, <2>1, <2>5, <2>10, <3>1, <3>3, <4>0
        <4>2. Span(s) = Span(uptime) + Span(Whole) - JIFFIES - 1
          <5>1. uptime - 1 \in Int /\ Whole \in Int /\ uptime = (uptime - 1) + 1
            BY <1>2, <2>1
          <5>2. Span((uptime - 1) + Whole) = Span(uptime - 1) + Span(Whole) /\ Span(uptime - 1) \in Int
            BY <5>1, Spans
          <5>3. Span((uptime - 1) + 1) = Span(uptime - 1) + JIFFIES + 1
            BY <5>1, Spans
          <5> QED BY <1>2, <2>1, <2>6, <4>0, <5>1, <5>2, <5>3
        <4>3. EndsIn(s)'
          <5> DEFINE end == Span(s) + deadline_jiffies'
          <5>1. end = Clocked + duration + Whole - JIFFIES - 1
            BY <1>2, <2>1, <2>6, <2>10, <3>1, <4>2
          <5> HIDE DEF end
          <5>2. /\ end >= Begun + (IF duration < JIFFIES THEN duration ELSE duration - JIFFIES)
                /\ end <= Begun + duration + Whole + 2 /\ end >= Clocked
            BY <1>2, <2>1, <2>6, <2>10, <3>3, <4>1, <5>1
          <5> QED BY <2>8, <4>1, <5>2 DEF end
        <4> QED BY <2>3, <2>5, <4>1, <4>3
      <3> QED BY <2>1, <3>2, <3>3
    <2> QED BY <2>4, <2>9, <2>10
  <1>4. pc' \in Polling /\ pc' \notin {"idle", "read_uptime", "read_jiffies"}
    BY <1>1 DEF Polling
  <1> QED BY <1>1, <1>2, <1>3, <1>4 DEF WaitInv

(* Once the end is reached the two tests hold in turn. *)
LEMMA Polled ==
    ASSUME TimerInv, pc \in Polling, duration >= 0, NEW s \in Nat, EndsIn(s)
    PROVE  LET end == Span(s) + deadline_jiffies IN
           /\ end \in Int /\ Clocked \in Int /\ deadline_seconds \in Nat
           /\ Clocked >= end => uptime = s /\ jiffies_frac >= deadline_jiffies
           /\ Clocked < end /\ uptime >= s => jiffies_frac < deadline_jiffies
           /\ uptime >= deadline_seconds => uptime >= s
           /\ Clocked >= end => uptime >= deadline_seconds
  <1> DEFINE end == Span(s) + deadline_jiffies
  <1>1. /\ deadline_seconds \in Nat /\ deadline_jiffies \in 0 .. JIFFIES - 1 /\ JIFFIES \in Nat
        /\ uptime \in Nat /\ jiffies_frac \in 0 .. JIFFIES /\ ClockInv
    BY TimerAssumption DEF TimerInv, ClockInv, WaitInv
  <1>2. /\ Clocked \in Int /\ Span(s) \in Int /\ Span(uptime) \in Int
        /\ Clocked = Span(uptime) + jiffies_frac
        /\ uptime = s => Span(uptime) = Span(s)
        /\ uptime > s => Clocked >= Span(s) + JIFFIES + 1
        /\ uptime < s => Clocked < Span(s)
    BY <1>1, Shown
  <1>3. end \in Int
    BY <1>1, <1>2
  <1>4. Clocked <= end + 1
    BY <1>2, <1>3 DEF EndsIn
  <1>5. ASSUME Clocked >= end PROVE uptime = s /\ jiffies_frac >= deadline_jiffies
    <2>1. ~(uptime < s) /\ ~(uptime > s)
      BY <1>1, <1>2, <1>4, <1>5
    <2> QED BY <1>1, <1>2, <1>5, <2>1
  <1>6. ASSUME Clocked < end, uptime >= s PROVE jiffies_frac < deadline_jiffies
    <2>1. ~(uptime > s)
      BY <1>1, <1>2, <1>6
    <2> QED BY <1>1, <1>2, <1>6, <2>1
  <1>7. s = deadline_seconds \/ (s = deadline_seconds + 1 /\ uptime >= s)
    BY DEF EndsIn
  <1> QED BY <1>1, <1>2, <1>3, <1>5, <1>6, <1>7

LEMMA PollStep ==
    ASSUME TimerInv, PollUptime \/ PollJiffies
    PROVE  WaitInv'
  <1>1. /\ pc \in Polling /\ pc' \in Polling
        /\ UNCHANGED <<clock, duration, deadline_seconds, deadline_jiffies, ticks>>
        /\ reads' <= reads + 1 /\ reads \in Nat /\ reads' \in Nat
    <2>1. reads \in Nat /\ READS \in Nat
      BY TimerAssumption DEF TimerInv, ClockInv
    <2> QED BY <2>1 DEF PollUptime, PollJiffies, Polling, Read
  <1>2. /\ duration \in Int
        /\ duration >= 0 =>
               /\ deadline_seconds \in Nat /\ deadline_jiffies \in 0 .. JIFFIES - 1
               /\ \E s \in Nat : EndsIn(s)
    BY <1>1 DEF TimerInv, WaitInv
  <1>3. Clocked' = Clocked /\ Begun' = Begun /\ Whole' = Whole /\ uptime' = uptime
    BY <1>1 DEF Clocked, Begun, Whole, clock
  <1>4. ASSUME duration >= 0, NEW s \in Nat, EndsIn(s) PROVE EndsIn(s)'
    <2> DEFINE end == Span(s) + deadline_jiffies
    <2>1. /\ end \in Int /\ Clocked \in Int /\ deadline_seconds \in Nat
          /\ Clocked >= end => uptime = s /\ jiffies_frac >= deadline_jiffies
          /\ Clocked < end /\ uptime >= s => jiffies_frac < deadline_jiffies
          /\ uptime >= deadline_seconds => uptime >= s
          /\ Clocked >= end => uptime >= deadline_seconds
      BY <1>1, <1>4, Polled
    <2>2. end' = end
      BY <1>1
    <2>3. /\ \/ Clocked < end /\ pc # "return"
             \/ Clocked = end /\ (reads <= Polls \/ end <= Begun + 1)
             \/ Clocked = end + 1 /\ end <= Begun + 1 /\ reads <= Polls
          /\ pc # "poll_uptime" => uptime >= s
      BY <1>4 DEF EndsIn
    <2>4. /\ s = deadline_seconds' \/ (s = deadline_seconds' + 1 /\ uptime' >= s)
          /\ end' >= Begun' + (IF duration' < JIFFIES THEN duration' ELSE duration' - JIFFIES)
          /\ end' <= Begun' + duration' + Whole' + 2
      BY <1>1, <1>3, <1>4, <2>2 DEF EndsIn
    <2> HIDE DEF end
    <2>5. CASE PollUptime
      <3>1. pc = "poll_uptime" /\ pc' = IF uptime < deadline_seconds THEN "poll_uptime" ELSE "poll_jiffies"
        BY <2>5 DEF PollUptime
      <3>2. uptime \in Nat
        BY DEF TimerInv, ClockInv
      <3>3. Polls = 0 /\ (pc' = "poll_jiffies" => Polls' = 1) /\ (pc' = "poll_uptime" => Polls' = 0)
        BY <3>1 DEF Polls
      <3>4. pc' # "poll_uptime" => uptime' >= s
        BY <1>3, <2>1, <3>1, <3>2
      <3>5. CASE Clocked < end
        <4>1. Clocked' < end' /\ pc' # "return"
          BY <1>3, <2>2, <3>1, <3>5
        <4> QED BY <2>4, <3>4, <4>1 DEF EndsIn, end
      <3>6. CASE ~(Clocked < end)
        <4>1. pc' = "poll_jiffies"
          BY <2>1, <3>1, <3>2, <3>6
        <4>2. \/ Clocked' = end' /\ (reads' <= Polls' \/ end' <= Begun' + 1)
              \/ Clocked' = end' + 1 /\ end' <= Begun' + 1 /\ reads' <= Polls'
          BY <1>1, <1>3, <2>2, <2>3, <3>3, <3>6, <4>1
        <4> QED BY <2>4, <3>4, <4>2 DEF EndsIn, end
      <3> QED BY <3>5, <3>6
    <2>6. CASE PollJiffies
      <3>1. pc = "poll_jiffies" /\ pc' = IF jiffies_frac < deadline_jiffies THEN "poll_uptime" ELSE "return"
        BY <2>6 DEF PollJiffies
      <3>2. uptime \in Nat /\ jiffies_frac \in Int /\ uptime >= s /\ deadline_jiffies \in Int
        BY <1>2, <1>4, <2>3, <3>1 DEF TimerInv, ClockInv
      <3>3. Polls = 1 /\ (pc' = "return" => Polls' = 2)
        BY <3>1 DEF Polls
      <3>4. CASE Clocked < end
        <4>1. Clocked' < end' /\ pc' = "poll_uptime"
          BY <1>3, <2>1, <2>2, <3>1, <3>2, <3>4
        <4> QED BY <2>4, <4>1 DEF EndsIn, end
      <3>5. CASE ~(Clocked < end)
        <4>1. pc' = "return"
          BY <2>1, <3>1, <3>2, <3>5
        <4>2. \/ Clocked' = end' /\ (reads' <= Polls' \/ end' <= Begun' + 1)
              \/ Clocked' = end' + 1 /\ end' <= Begun' + 1 /\ reads' <= Polls'
          BY <1>1, <1>3, <2>2, <2>3, <3>3, <3>5, <4>1
        <4> QED BY <1>3, <2>4, <3>2, <4>2 DEF EndsIn, end
      <3> QED BY <3>4, <3>5
    <2> QED BY <2>5, <2>6
  <1>5. duration >= 0 => \E s \in Nat : EndsIn(s)'
    BY <1>2, <1>4
  <1>6. pc' \notin {"idle", "read_uptime", "read_jiffies"}
    BY <1>1 DEF Polling
  <1> QED BY <1>1, <1>2, <1>5, <1>6 DEF WaitInv

LEMMA TimerStep == TimerInv /\ TimerNext => TimerInv'
  <1> SUFFICES ASSUME TimerInv, TimerNext PROVE TimerInv'
    OBVIOUS
  <1>1. ASSUME Silence PROVE WaitInv'
    <2>1. pc' = "done"
      BY <1>1 DEF Silence
    <2> QED BY <2>1 DEF WaitInv, Polling
  <1>2. CASE Tick
    BY <1>2, TickComes, ClockStep DEF TimerInv
  <1>3. ASSUME NEW d \in Duration, Beep(d) PROVE TimerInv'
    BY <1>3, Beeping, ClockStep DEF TimerInv
  <1>4. CASE Delay
    <2>1. WaitInv'
      BY <1>1, <1>4, ReadingUptime, ReadingJiffies, PollStep DEF Delay
    <2> QED BY <2>1, ClockStep DEF TimerInv
  <1>5. CASE BeepZero
    <2>1. pc' = "fault"
      BY <1>5 DEF BeepZero
    <2>2. WaitInv'
      BY <2>1 DEF WaitInv, Polling
    <2> QED BY <1>5, <2>2, ClockStep DEF TimerInv
  <1> QED BY <1>2, <1>3, <1>4, <1>5 DEF TimerNext

LEMMA TimerBegins == TimerInit => TimerInv
  <1> SUFFICES ASSUME TimerInit PROVE TimerInv
    OBVIOUS
  <1>1. pc = "idle" /\ pc \notin Polling
    BY DEF TimerInit, Polling
  <1> QED BY <1>1, TimerAssumption DEF TimerInit, TimerInv, ClockInv, WaitInv

LEMMA WaitedLongEnough == TimerInv => WaitLength
  <1> SUFFICES ASSUME TimerInv, pc = "return"
               PROVE  /\ ticks >= IF duration < JIFFIES THEN duration ELSE duration - JIFFIES
                      /\ duration >= 0 => ticks <= duration + duration \div JIFFIES + 2
    BY DEF WaitLength
  <1>1. ticks \in Nat /\ duration \in Int /\ pc \in Polling /\ JIFFIES \in Nat
    BY TimerAssumption DEF TimerInv, ClockInv, WaitInv, Polling
  <1>2. CASE duration < 0
    BY <1>1, <1>2
  <1>3. CASE duration >= 0
    <2>1. PICK s \in Nat : EndsIn(s)
      BY <1>1, <1>3 DEF TimerInv, WaitInv
    <2> DEFINE end == Span(s) + deadline_jiffies
    <2>2. end \in Int /\ Clocked \in Int /\ Begun = Clocked - ticks
      BY <1>1, <1>3, <2>1, Polled DEF Begun
    <2>3. Whole \in Nat
      BY <1>1, <1>3, Durations
    <2>4. /\ end >= Begun + (IF duration < JIFFIES THEN duration ELSE duration - JIFFIES)
          /\ end <= Begun + duration + Whole + 2
          /\ \/ Clocked = end
             \/ Clocked = end + 1 /\ end <= Begun + 1
      BY <2>1 DEF EndsIn
    <2> HIDE DEF end
    <2> QED BY <1>1, <1>3, <2>2, <2>3, <2>4 DEF Whole
  <1> QED BY <1>1, <1>2, <1>3

-----------------------------------------------------------------------------
(* The division. *)
(* While a bit is left, den is the divisor shifted to that bit. *)
Shifted ==
    /\ qbit > 0
    /\ \E k \in 0 .. BITS - 1 : qbit = Power[k] /\ den = divisor * Power[k]

(* The inductive invariant.  While bits come back, what was subtracted is in *)
(* quot, and less than twice den remains; less than the divisor at the end.  *)
DivisionInv ==
    /\ dividend \in Word /\ divisor \in Word
    /\ num \in Nat /\ den \in Nat /\ quot \in Nat /\ qbit \in Nat
    /\ dividing \in {"test_zero", "division_error", "justify", "subtract", "return"}
    /\ dividing \in {"test_zero", "justify"} => num = dividend /\ quot = 0
    /\ dividing = "test_zero" => den = divisor /\ qbit = 1
    /\ dividing = "justify" => divisor > 0 /\ Shifted
    /\ dividing = "subtract" =>
        /\ divisor > 0 /\ dividend = quot * divisor + num
        /\ (qbit = 0 /\ num < divisor) \/ (Shifted /\ num < 2 * den)
    /\ DividesExactly

LEMMA Powers ==
    /\ Power[0] = 1 /\ \A k \in 0 .. BITS : Power[k] \in Nat
    /\ \A k \in 1 .. BITS : Power[k] = 2 * Power[k - 1]
BY WordAssumption

LEMMA PowerStep ==
    ASSUME NEW k \in 0 .. BITS - 1
    PROVE  k + 1 \in 1 .. BITS /\ Power[k] \in Nat /\ Power[k + 1] = 2 * Power[k]
<1>1. BITS \in Nat
    BY WordAssumption
<1>2. k + 1 \in 1 .. BITS /\ k \in 0 .. BITS /\ (k + 1) - 1 = k
    BY <1>1
<1> QED
    BY <1>2, Powers

LEMMA DivisionBegins == DivisionInit => DivisionInv
<1> SUFFICES ASSUME DivisionInit PROVE DivisionInv
    OBVIOUS
<1>1. Power[BITS] \in Nat
    BY Powers, WordAssumption
<1> QED
    BY <1>1 DEF DivisionInit, DivisionInv, Word, DividesExactly

LEMMA TestZeroKeeps == DivisionInv /\ TestZero => DivisionInv'
<1> SUFFICES ASSUME DivisionInv, TestZero PROVE DivisionInv'
    OBVIOUS
<1>1. UNCHANGED <<dividend, divisor, num, den, quot, qbit>> /\ den = divisor /\ qbit = 1
    BY DEF TestZero, DivisionInv
<1>2. dividing' = "division_error" \/ (dividing' = "justify" /\ den # 0)
    BY DEF TestZero
<1>3. den \in Nat /\ den = den * 1 /\ 0 \in 0 .. BITS - 1
    BY WordAssumption DEF DivisionInv
<1>4. Shifted'
    BY <1>1, <1>3, Powers DEF Shifted
<1> QED
    BY <1>1, <1>2, <1>4 DEF TestZero, DivisionInv, DividesExactly, Word

(* One more doubling stays below 2^BITS, as the top bit of den was clear. *)
LEMMA JustifyKeeps == DivisionInv /\ Justify => DivisionInv'
<1> SUFFICES ASSUME DivisionInv, Justify PROVE DivisionInv'
    OBVIOUS
<1> DEFINE Top == Power[BITS - 1]
<1>1. Top \in Nat /\ Power[BITS] = 2 * Top
    BY Powers, WordAssumption
<1>2. dividing = "justify" /\ UNCHANGED <<dividend, divisor, num, quot>>
    BY DEF Justify
<1>3. /\ divisor \in Nat /\ dividend \in Nat /\ dividend < 2 * Top
      /\ den \in Nat /\ qbit \in Nat /\ qbit > 0
      /\ num = dividend /\ quot = 0 /\ divisor > 0 /\ Shifted
    BY <1>1, <1>2 DEF DivisionInv, Word, Shifted
<1>4. PICK k \in 0 .. BITS - 1 : qbit = Power[k] /\ den = divisor * Power[k]
    BY <1>3 DEF Shifted
<1>5. qbit <= den
  <2>1. \A m \in Nat, n \in Nat : m > 0 => n <= m * n
      OBVIOUS
  <2> QED
      BY <1>3, <1>4, <2>1
<1>6. CASE den < Top
  <2>1. den' = (2 * den) % Power[BITS] /\ qbit' = (2 * qbit) % Power[BITS] /\ UNCHANGED dividing
      BY <1>6 DEF Justify
  <2>2. 2 * den \in 0 .. Power[BITS] - 1 /\ 2 * qbit \in 0 .. Power[BITS] - 1
      BY <1>1, <1>3, <1>5, <1>6
  <2>3. \A n \in Nat : \A m \in 0 .. n - 1 : m % n = m
      OBVIOUS
  <2>4. den' = 2 * den /\ qbit' = 2 * qbit
      BY <1>1, <2>1, <2>2, <2>3
  <2>5. k # BITS - 1
      BY <1>3, <1>4, <1>5, <1>6
  <2>6. k + 1 \in 0 .. BITS - 1 /\ Power[k + 1] = 2 * Power[k] /\ Power[k] \in Nat
    <3>1. k + 1 \in 0 .. BITS - 1
        BY <2>5, WordAssumption
    <3> QED
        BY <3>1, PowerStep
  <2>7. \A m \in Nat, n \in Nat : 2 * (m * n) = m * (2 * n)
      OBVIOUS
  <2>8. den' = divisor' * Power[k + 1] /\ qbit' = Power[k + 1]
      BY <1>2, <1>3, <1>4, <2>4, <2>6, <2>7
  <2>9. Shifted'
      BY <1>3, <2>4, <2>6, <2>8 DEF Shifted
  <2> QED
      BY <1>2, <1>3, <2>1, <2>4, <2>9 DEF DivisionInv, DividesExactly, Word
<1>7. CASE ~(den < Top)
  <2>1. dividing' = "subtract" /\ UNCHANGED <<den, qbit>>
      BY <1>7 DEF Justify
  <2>2. num < 2 * den /\ dividend = quot * divisor + num
      BY <1>1, <1>3, <1>7
  <2> QED
      BY <1>2, <1>3, <2>1, <2>2 DEF DivisionInv, DividesExactly, Word, Shifted
<1> QED
    BY <1>6, <1>7

LEMMA SubtractKeeps == DivisionInv /\ Subtract => DivisionInv'
<1> SUFFICES ASSUME DivisionInv, Subtract PROVE DivisionInv'
    OBVIOUS
<1>1. /\ dividing = "subtract" /\ UNCHANGED <<dividend, divisor, dividing>> /\ qbit # 0
      /\ den' = den \div 2 /\ qbit' = qbit \div 2
    BY DEF Subtract
<1>2. /\ divisor \in Nat /\ num \in Nat /\ den \in Nat /\ quot \in Nat /\ qbit \in Nat
      /\ divisor > 0 /\ dividend = quot * divisor + num /\ Shifted /\ num < 2 * den
    BY <1>1, Powers, WordAssumption DEF DivisionInv, Word
<1>3. PICK k \in 0 .. BITS - 1 : qbit = Power[k] /\ den = divisor * Power[k]
    BY <1>2 DEF Shifted
<1>4. num' \in Nat /\ quot' \in Nat /\ num' < den /\ dividend = quot' * divisor + num'
  <2>1. CASE den <= num
    <3>1. num' = num - den /\ quot' = quot + qbit
        BY <2>1 DEF Subtract
    <3>2. \A q \in Nat, b \in Nat, d \in Nat : (q + b) * d = q * d + d * b
        OBVIOUS
    <3>3. quot' * divisor = quot * divisor + den
        BY <1>2, <1>3, <3>1, <3>2
    <3>4. quot * divisor \in Nat
        BY <1>2
    <3> QED
        BY <1>2, <2>1, <3>1, <3>3, <3>4
  <2>2. CASE ~(den <= num)
      BY <1>2, <2>2 DEF Subtract
  <2> QED
      BY <2>1, <2>2
<1>5. den' \in Nat /\ qbit' \in Nat
    BY <1>1, <1>2
<1>6. (qbit' = 0 /\ num' < divisor) \/ (Shifted' /\ num' < 2 * den')
  <2>1. CASE k = 0
      BY <1>1, <1>2, <1>3, <1>4, <2>1, Powers
  <2>2. CASE k # 0
    <3>1. k - 1 \in 0 .. BITS - 1 /\ Power[k] = 2 * Power[k - 1] /\ Power[k - 1] \in Nat
      <4>1. k - 1 \in 0 .. BITS - 1 /\ (k - 1) + 1 = k
          BY <2>2, WordAssumption
      <4> QED
          BY <4>1, PowerStep
    <3>2. \A m \in Nat, n \in Nat : m * (2 * n) = 2 * (m * n) /\ m * n \in Nat
        OBVIOUS
    <3>3. den = 2 * (divisor * Power[k - 1]) /\ divisor * Power[k - 1] \in Nat
        BY <1>2, <1>3, <3>1, <3>2
    <3>4. den' = divisor' * Power[k - 1] /\ qbit' = Power[k - 1] /\ den = 2 * den'
        BY <1>1, <1>3, <3>1, <3>3
    <3>5. qbit' > 0
        BY <1>1, <1>2, <1>3, <3>1, <3>4
    <3> QED
        BY <1>4, <3>1, <3>4, <3>5 DEF Shifted
  <2> QED
      BY <2>1, <2>2
<1> QED
    BY <1>1, <1>2, <1>4, <1>5, <1>6 DEF DivisionInv, DividesExactly, Word

LEMMA ReturnKeeps == DivisionInv /\ Return => DivisionInv'
<1> SUFFICES ASSUME DivisionInv, Return PROVE DivisionInv'
    OBVIOUS
<1>1. dividing' = "return" /\ UNCHANGED <<dividend, divisor, num, den, quot, qbit>>
    BY DEF Return
<1>2. dividend = quot * divisor + num /\ num \in 0 .. divisor - 1
    BY WordAssumption, Powers DEF Return, DivisionInv, Shifted, Word
<1> QED
    BY <1>1, <1>2 DEF DivisionInv, DividesExactly, Word

-----------------------------------------------------------------------------
(* Each call begins in its invariant, and so do those that are not running. *)
Calls == DateInv /\ TimerInv /\ DivisionInv

LEMMA ClockBegins == Init => SampleInv /\ Calls
  <1> SUFFICES ASSUME Init PROVE SampleInv /\ Calls
    OBVIOUS
  <1>1. SampleInit /\ sampling \in {"none", "wait_a"} /\ DateInit /\ TimerInit /\ DivisionInit
    BY DEF Init, NoSample, NoDate, NoDelay, NoDivision
  <1> QED BY <1>1, SampleBegins, DateBegins, TimerBegins, DivisionBegins DEF Calls

LEMMA SampleRests == SampleInv /\ UNCHANGED sample_vars => SampleInv'
  <1> SUFFICES ASSUME SampleInv, UNCHANGED sample_vars PROVE SampleInv'
    OBVIOUS
  <1>1. UNCHANGED <<regs, carry, updates, shown, sampling, next, time_a, time_b, epoch_time,
                   under, halfway>>
    BY DEF sample_vars, chip, call
  <1>2. ChipInv'
    BY <1>1 DEF SampleInv, ChipInv
  <1>3. Sampled' = Sampled
    BY <1>1 DEF Sampled
  <1>4. ASSUME NEW n \in Counts
        PROVE  /\ Ahead(n, Sampled) => Ahead(n, Sampled)'
               /\ Ahead(n, Register) => Ahead(n, Register)'
    BY <1>1, <1>3 DEF Ahead, Changes
  <1>5. ASSUME NEW n \in Counts
        PROVE  Under(n) => Under(n)'
    BY <1>1 DEF Under
  <1>6. ASSUME NEW m \in Counts, NEW n \in Counts, Between(m, n, Sampled)
        PROVE  Between(m, n, Sampled)'
    BY <1>1, <1>3, <1>4, <1>6 DEF Between
  <1>7. CallInv'
    BY <1>1, <1>4, <1>5, <1>6 DEF SampleInv, CallInv
  <1> QED BY <1>2, <1>7 DEF SampleInv

LEMMA DateRests == DateInv /\ UNCHANGED date_vars => DateInv'
BY DEF date_vars, DateInv

LEMMA TimerRests == TimerInv /\ UNCHANGED timer_vars => TimerInv'
BY DEF timer_vars, clock, TimerInv, ClockInv, WaitInv, EndsIn, Clocked, Begun, Whole, Polls

LEMMA DivisionRests == DivisionInv /\ UNCHANGED division_vars => DivisionInv'
BY DEF DivisionInv, division_vars, DividesExactly, Shifted, Word

LEMMA DivisionStep == DivisionInv /\ DivisionNext => DivisionInv'
BY TestZeroKeeps, JustifyKeeps, SubtractKeeps, ReturnKeeps DEF DivisionNext

LEMMA CallSteps == Calls /\ [Next]_vars => Calls'
  <1> SUFFICES ASSUME Calls, [Next]_vars PROVE Calls'
    OBVIOUS
  <1>1. DateNext \/ UNCHANGED date_vars
    BY DEF Next, vars
  <1>2. TimerNext \/ UNCHANGED timer_vars
    BY DEF Next, vars
  <1>3. DivisionNext \/ UNCHANGED division_vars
    BY DEF Next, vars
  <1>4. DateInv'
    BY <1>1, DateStep, DateRests DEF Calls
  <1>5. TimerInv'
    BY <1>2, TimerStep, TimerRests DEF Calls
  <1>6. DivisionInv'
    BY <1>3, DivisionStep, DivisionRests DEF Calls
  <1> QED BY <1>4, <1>5, <1>6 DEF Calls

(* However many registers a time has, however the carries fall between       *)
(* get_time's reads and however long an update lasts, the time it returns is *)
(* one the chip has shown, or, if one update was under way whenever the      *)
(* seconds were read, what the registers held halfway through it.            *)
THEOREM NeverTorn == Spec => []NotTorn
  <1>1. SampleInv /\ [Next]_vars => SampleInv'
    <2> SUFFICES ASSUME SampleInv, [Next]_vars PROVE SampleInv'
      OBVIOUS
    <2>1. SampleNext \/ UNCHANGED sample_vars
      BY DEF Next, vars
    <2> QED BY <2>1, SampleStep, SampleRests
  <1>2. SampleInv => NotTorn
    BY DEF SampleInv, CallInv, NotTorn
  <1> QED BY ClockBegins, <1>1, <1>2, PTL DEF Spec

(* Whatever a second has jiffies and wherever the ticks fall between delay's *)
(* reads, a wait loses at most the second that starts between the two reads  *)
(* of the deadline, and overshoots by at most two ticks beyond the one that  *)
(* each second has too many.                                                 *)
THEOREM WaitsLongEnough == Spec => []WaitLength
  <1>1. Calls => WaitLength
    BY WaitedLongEnough DEF Calls
  <1> QED BY ClockBegins, CallSteps, <1>1, PTL DEF Spec

(* Through all of 2000 to 2099 epoch_time is the chip's time but for the     *)
(* afternoons of a 24-hour chip and the day that leap years are ahead, if    *)
(* register B is one whose shift by two tells BCD from binary and whose      *)
(* shift by one finds a bit (see Understood): 2, 3 and 4 to 7 are, 0x42 with *)
(* the periodic interrupt of a warm reset, or 0 for 12-hour BCD, are not.    *)
THEOREM DayAheadAtMost ==
    ASSUME \A b \in StatusB : Understood(b)
    PROVE  Spec => []AtMostADayAhead
  <1>1. Calls => AtMostADayAhead
    BY DateRead DEF Calls, DateInv
  <1> QED BY ClockBegins, CallSteps, <1>1, PTL DEF Spec

(* For every width of a word, every dividend and every divisor but zero,     *)
(* what __udivmoddi4 returns is the quotient and the remainder.              *)
THEOREM DivisionExact == Spec => []DividesExactly
  <1>1. Calls => DividesExactly
    BY DEF Calls, DivisionInv
  <1> QED BY ClockBegins, CallSteps, <1>1, PTL DEF Spec
=============================================================================
