------------------------------ MODULE GpuProofs ------------------------------
(***************************************************************************)
(* The GPU, for a screen of any size, any palette and any arguments within *)
(* the assumption: set stays in its line, copy moves rectangles exactly    *)
(* whichever way they overlap, the screen shows what get returns, as text  *)
(* and in the font's glyphs (there but for what a copy over a side of the  *)
(* screen has reached), and every colour is an index of the palette.       *)
(*                                                                         *)
(* Rows are moved, glyphs drawn and colours compared by folds.  A fold is  *)
(* a function on sets chosen to satisfy its equation; that there is such a *)
(* function, and what holds after each step, is shown by induction, which  *)
(* well-foundedness of < gives for sets of numbers (Induction).            *)
(***************************************************************************)
EXTENDS Gpu, SequenceTheorems, FiniteSetTheorems, WellFoundedInduction, TLAPS

(* Induction over the natural numbers, for a set instead of a predicate.     *)
LEMMA Induction ==
    ASSUME NEW S, 0 \in S, \A n \in Nat : n \in S => n + 1 \in S
    PROVE  \A n \in Nat : n \in S
  <1> DEFINE R == OpToRel(<, Nat)
  <1>1. IsWellFoundedOn(R, Nat)
    BY NatLessThanWellFounded
  <1>2. \A m, n \in Nat : m < n => <<m, n>> \in R
    BY DEF OpToRel
  <1> HIDE DEF R
  <1>3. SUFFICES ASSUME NEW T, T = Nat \ S, T # {} PROVE FALSE
    OBVIOUS
  <1>4. PICK x \in T : \A y \in T : ~ (<<y, x>> \in R)
    BY <1>1, <1>3, WFMin
  <1>5. x \in Nat /\ x # 0 /\ x - 1 \in Nat
    BY <1>3, <1>4
  <1>6. x - 1 \in T
    <2>1. (x - 1) + 1 = x
      BY <1>5
    <2> QED BY <1>3, <1>4, <1>5, <2>1
  <1>7. <<x - 1, x>> \in R
    BY <1>2, <1>5
  <1> QED BY <1>4, <1>6, <1>7, Zenon

(* A set of numbers up to a bound has a maximum.                             *)
LEMMA Maxima ==
    ASSUME NEW n \in Nat, NEW s \in SUBSET (1 .. n), s # {}
    PROVE  Max(s) \in s /\ \A y \in s : y <= Max(s)
  <1> DEFINE Some == {k \in Nat : \A t \in SUBSET (1 .. k) :
                          t # {} => \E x \in t : \A y \in t : x >= y}
  <1>1. 0 \in Some
    <2>1. \A t \in SUBSET (1 .. 0) : t = {}
      OBVIOUS
    <2> QED BY <2>1
  <1>2. ASSUME NEW k \in Nat, k \in Some PROVE k + 1 \in Some
    <2>1. ASSUME NEW t \in SUBSET (1 .. k + 1), t # {} PROVE \E x \in t : \A y \in t : x >= y
      <3>1. CASE k + 1 \in t
        BY <3>1
      <3>2. CASE k + 1 \notin t
        <4>1. t \in SUBSET (1 .. k)
          BY <3>2
        <4> QED BY <1>2, <2>1, <4>1
      <3> QED BY <3>1, <3>2
    <2> QED BY <2>1
  <1>3. n \in Some
    <2> HIDE DEF Some
    <2> QED BY <1>1, <1>2, Induction
  <1>4. \E x \in s : \A y \in s : x >= y
    BY <1>3
  <1>5. Max(s) \in s /\ \A y \in s : Max(s) >= y
    BY <1>4 DEF Max
  <1> QED BY <1>5

-----------------------------------------------------------------------------
(* MoveRows moves row after row: what it folds, the function on sets of      *)
(* steps that the fold chooses, and the array after each step.               *)
MoveRow(moved, stride, columns, rows, i) ==
    MemMove(moved, (rows.target + i) * stride + columns.target,
            (rows.from + i) * stride + columns.from, columns.length)

Moved(it, s, array, stride, columns, rows) ==
    IF s = {} THEN array
    ELSE MoveRow(it[s \ {Max(s)}], stride, columns, rows, RowOrder(rows)[Max(s)])

(* The function that the fold chooses exists. *)
LEMMA MoveRowsExists ==
    ASSUME NEW array, NEW stride, NEW columns, NEW rows, NEW n \in Nat
    PROVE \E it : it = [s \in SUBSET (1 .. n) |-> Moved(it, s, array, stride, columns, rows)]
  <1> DEFINE Done == {k \in Nat : \E it :
                  it = [s \in SUBSET (1 .. k) |-> Moved(it, s, array, stride, columns, rows)]}
  <1>1. 0 \in Done
    <2> DEFINE it == [s \in SUBSET (1 .. 0) |-> array]
    <2>1. \A s \in SUBSET (1 .. 0) : s = {}
      OBVIOUS
    <2>2. it = [s \in SUBSET (1 .. 0) |-> Moved(it, s, array, stride, columns, rows)]
      BY <2>1 DEF Moved
    <2> HIDE DEF it
    <2> QED BY <2>2
  <1>2. ASSUME NEW k \in Nat, k \in Done PROVE k + 1 \in Done
    <2>1. PICK h : h = [s \in SUBSET (1 .. k) |-> Moved(h, s, array, stride, columns, rows)]
      BY <1>2
    <2> DEFINE it == [s \in SUBSET (1 .. k + 1) |-> Moved(h, s, array, stride, columns, rows)]
    <2>2. \A s \in SUBSET (1 .. k) : s \in SUBSET (1 .. k + 1) /\ it[s] = h[s]
      <3>1. \A s \in SUBSET (1 .. k) : s \in SUBSET (1 .. k + 1)
        OBVIOUS
      <3>2. \A s \in SUBSET (1 .. k) : h[s] = Moved(h, s, array, stride, columns, rows)
        BY <2>1
      <3> QED BY <3>1, <3>2
    <2>3. ASSUME NEW s \in SUBSET (1 .. k + 1), s # {} PROVE s \ {Max(s)} \in SUBSET (1 .. k)
      <3>1. k + 1 \in Nat
        OBVIOUS
      <3>2. PICK max : max = Max(s)
        OBVIOUS
      <3>3. max \in s /\ \A y \in s : y <= max
        BY <2>3, <3>1, <3>2, Maxima
      <3>4. ASSUME NEW y \in s, y # max PROVE y \in 1 .. k
        <4>1. y \in 1 .. k + 1 /\ max \in 1 .. k + 1 /\ y <= max
          BY <3>3
        <4> QED BY <3>4, <4>1
      <3>5. s \ {max} \in SUBSET (1 .. k)
        BY <3>4
      <3> QED BY <3>2, <3>5
    <2>4. \A s \in SUBSET (1 .. k + 1) :
              Moved(h, s, array, stride, columns, rows) = Moved(it, s, array, stride, columns, rows)
      <3> HIDE DEF it
      <3> QED BY <2>2, <2>3 DEF Moved
    <2>5. it = [s \in SUBSET (1 .. k + 1) |-> Moved(it, s, array, stride, columns, rows)]
      <3>1. it = [s \in SUBSET (1 .. k + 1) |-> Moved(h, s, array, stride, columns, rows)]
        OBVIOUS
      <3> HIDE DEF it
      <3> QED BY <2>4, <3>1
    <2> HIDE DEF it
    <2> QED BY <2>5
  <1> HIDE DEF Done
  <1>3. n \in Done
    BY <1>1, <1>2, Induction
  <1> QED BY <1>3 DEF Done

MoveSteps(m, n, array, stride, columns, rows) ==
    /\ m[0] = array /\ m[n] = MoveRows(array, stride, columns, rows)
    /\ \A k \in 1 .. n : m[k] = MoveRow(m[k - 1], stride, columns, rows, RowOrder(rows)[k])

(* The array after each step of a copy. *)
LEMMA MoveRowsSteps ==
    ASSUME NEW array, NEW stride, NEW columns, NEW rows, NEW n \in Nat, 1 .. n = 1 .. rows.length
    PROVE  \E m : MoveSteps(m, n, array, stride, columns, rows)
  <1>1. PICK fold : fold = CHOOSE it :
            it = [s \in SUBSET (1 .. n) |-> Moved(it, s, array, stride, columns, rows)]
    OBVIOUS
  <1>2. fold = [s \in SUBSET (1 .. n) |-> Moved(fold, s, array, stride, columns, rows)]
    BY <1>1, MoveRowsExists
  <1>3. MoveRows(array, stride, columns, rows) = fold[1 .. n]
    <2>1. DOMAIN RowOrder(rows) = 1 .. n
      BY DEF RowOrder
    <2> QED BY <1>1, <2>1 DEF MoveRows, FoldLeft, MapThenFoldSet, Moved, MoveRow
  <1>4. \A s \in SUBSET (1 .. n) : fold[s] = Moved(fold, s, array, stride, columns, rows)
    BY <1>2
  <1> DEFINE m == [k \in 0 .. n |-> fold[1 .. k]]
  <1>5. m[0] = array
    <2>1. 1 .. 0 = {} /\ {} \in SUBSET (1 .. n) /\ 0 \in 0 .. n
      OBVIOUS
    <2>2. fold[{}] = array
      BY <1>4, <2>1 DEF Moved
    <2> QED BY <2>1, <2>2
  <1>6. m[n] = MoveRows(array, stride, columns, rows)
    BY <1>3
  <1>7. ASSUME NEW k \in 1 .. n
        PROVE  m[k] = MoveRow(m[k - 1], stride, columns, rows, RowOrder(rows)[k])
    <2>1. 1 .. k \in SUBSET (1 .. n) /\ 1 .. k # {} /\ k \in 0 .. n /\ k - 1 \in 0 .. n /\ k \in Nat
      OBVIOUS
    <2>2. Max(1 .. k) = k
      <3>1. PICK s : s = 1 .. k
        OBVIOUS
      <3>2. s \in SUBSET (1 .. k) /\ s # {} /\ k \in s /\ \A y \in s : y \in Int /\ y <= k
        BY <3>1
      <3>3. PICK max : max = Max(s)
        OBVIOUS
      <3>4. max \in s /\ \A y \in s : y <= max
        BY <2>1, <3>2, <3>3, Maxima
      <3>5. max = k
        BY <3>2, <3>4
      <3> QED BY <3>1, <3>3, <3>5
    <2>3. (1 .. k) \ {k} = 1 .. k - 1
      OBVIOUS
    <2> QED BY <1>4, <2>1, <2>2, <2>3 DEF Moved
  <1> HIDE DEF m
  <1> QED BY <1>5, <1>6, <1>7 DEF MoveSteps

(* A fold over the finite set S: base for the empty set, and for any other   *)
(* F of an element, which C picks, and of the fold over the rest.            *)
Iteration(it, s, base, C, F) ==
    it[s] = IF s = {} THEN base ELSE F[<<C[s], it[s \ {C[s]}]>>]
Upto(S, k) == {s \in SUBSET S : Cardinality(s) <= k}
Iterated(A, base, U, C, F) ==
    \E it \in [U -> A] : \A s \in U : Iteration(it, s, base, C, F)

(* Every finite set has a function that satisfies the fold's equation.      *)
LEMMA Iterates ==
    ASSUME NEW A, NEW base \in A, NEW S, IsFiniteSet(S),
           NEW C \in [(SUBSET S) \ {{}} -> S], \A s \in (SUBSET S) \ {{}} : C[s] \in s,
           NEW F \in [S \X A -> A]
    PROVE  Iterated(A, base, SUBSET S, C, F)
  <1> DEFINE Good == {k \in Nat : Iterated(A, base, Upto(S, k), C, F)}
  <1>1. \A s \in SUBSET S :
            /\ Cardinality(s) \in Nat
            /\ Cardinality(s) = 0 <=> s = {}
            /\ \A x \in s : Cardinality(s \ {x}) = Cardinality(s) - 1 /\ s \ {x} \in SUBSET S
    BY FS_CardinalityType, FS_Subset, FS_EmptySet, FS_RemoveElement
  <1>2. 0 \in Good
    <2> DEFINE it == [s \in Upto(S, 0) |-> base]
    <2>1. \A s \in Upto(S, 0) : s = {}
      BY <1>1 DEF Upto
    <2>2. it \in [Upto(S, 0) -> A] /\ \A s \in Upto(S, 0) : it[s] = base
      OBVIOUS
    <2> HIDE DEF it
    <2>3. Iterated(A, base, Upto(S, 0), C, F)
      BY <2>1, <2>2 DEF Iteration, Iterated
    <2> QED BY <2>3
  <1>3. ASSUME NEW k \in Nat, k \in Good PROVE k + 1 \in Good
    <2>1. PICK h \in [Upto(S, k) -> A] : \A s \in Upto(S, k) : Iteration(h, s, base, C, F)
      <3>1. Iterated(A, base, Upto(S, k), C, F)
        BY <1>3
      <3> QED BY <3>1 DEF Iterated
    <2> DEFINE Value(s) == IF s = {} THEN base ELSE F[<<C[s], h[s \ {C[s]}]>>]
               it == [s \in Upto(S, k + 1) |-> Value(s)]
    <2>2. \A s \in Upto(S, k + 1) :
              s \in SUBSET S /\ (s # {} => C[s] \in S /\ C[s] \in s /\ s \ {C[s]} \in Upto(S, k))
      BY <1>1 DEF Upto
    <2>3. \A s \in Upto(S, k + 1) : Value(s) \in A
      BY <2>2
    <2>4. it \in [Upto(S, k + 1) -> A] /\ \A s \in Upto(S, k + 1) : it[s] = Value(s)
      BY <2>3
    <2>5. Upto(S, k) \subseteq Upto(S, k + 1)
      BY <1>1 DEF Upto
    <2>6. \A s \in Upto(S, k) : it[s] = h[s]
      BY <2>1, <2>4, <2>5 DEF Iteration
    <2> HIDE DEF it
    <2>7. \A s \in Upto(S, k + 1) : Iteration(it, s, base, C, F)
      BY <2>2, <2>4, <2>6 DEF Iteration
    <2>8. Iterated(A, base, Upto(S, k + 1), C, F)
      BY <2>4, <2>7 DEF Iterated
    <2> QED BY <2>8
  <1>4. Cardinality(S) \in Good
    <2>1. Cardinality(S) \in Nat
      BY FS_CardinalityType
    <2> HIDE DEF Good
    <2> QED BY <1>2, <1>3, <2>1, Induction
  <1>5. Upto(S, Cardinality(S)) = SUBSET S
    BY FS_Subset, FS_CardinalityType DEF Upto
  <1> QED BY <1>4, <1>5

(* The screen's addresses. *)
LEMMA Products ==
    ASSUME NEW w \in Nat
    PROVE  \A y, z \in Int : y < z => y * w + w <= z * w
  <1>1. ASSUME NEW y \in Int, NEW z \in Int, y < z PROVE y * w + w <= z * w
    <2>1. PICK d \in Nat : z = y + 1 + d
      <3>1. z - y - 1 \in Nat /\ z = y + 1 + (z - y - 1)
        BY <1>1
      <3> QED BY <3>1
    <2>2. z * w = y * w + w + d * w /\ d * w >= 0
      BY <2>1
    <2> QED BY <2>2
  <1> QED BY <1>1

(* In rows of w, a place is in one row and one column, which division finds. *)
LEMMA Grid ==
    ASSUME NEW w \in Nat \ {0}
    PROVE  /\ \A x, z \in 0 .. w - 1, y, v \in Int : y * w + x = v * w + z => x = z /\ y = v
           /\ \A x \in 0 .. w - 1, y \in Int : (y * w + x) \div w = y /\ (y * w + x) % w = x
           /\ \A h \in Nat : \A x \in 0 .. w - 1, y \in 0 .. h - 1 : y * w + x \in 0 .. w * h - 1
  <1>1. ASSUME NEW x \in 0 .. w - 1, NEW y \in Int
        PROVE  (y * w + x) \div w = y /\ (y * w + x) % w = x
    OBVIOUS
  <1>2. ASSUME NEW x \in 0 .. w - 1, NEW z \in 0 .. w - 1, NEW y \in Int, NEW v \in Int,
               y * w + x = v * w + z
        PROVE  x = z /\ y = v
    <2>1. PICK a : a = y * w + x /\ a = v * w + z
      BY <1>2
    <2> QED BY <1>1, <2>1
  <1>3. ASSUME NEW h \in Nat, NEW x \in 0 .. w - 1, NEW y \in 0 .. h - 1
        PROVE  y * w + x \in 0 .. w * h - 1
    <2>1. h \in Int /\ w \in Nat
      OBVIOUS
    <2>2. y * w + w <= h * w
      BY <2>1, Products
    <2>3. PICK a \in Nat, b \in Nat : a = y * w /\ b = h * w /\ b = w * h
      OBVIOUS
    <2> QED BY <2>2, <2>3
  <1> QED BY <1>1, <1>2, <1>3

(* Every position on the screen has an address of its own.                  *)
LEMMA Cells ==
    /\ width \in Nat \ {0} /\ height \in Nat \ {0} /\ width * height \in Nat
    /\ IsFiniteSet(Address)
    /\ \A x \in 0 .. width - 1, y \in 0 .. height - 1 : At(x, y) \in Address
    /\ \A x, z \in 0 .. width - 1, y, w \in Int : At(x, y) = At(z, w) => x = z /\ y = w
  <1>1. width \in Nat \ {0} /\ height \in Nat \ {0}
    BY GpuAssumption
  <1>2. width * height \in Nat
    BY <1>1
  <1>3. IsFiniteSet(Address)
    BY <1>2, FS_Interval DEF Address
  <1> QED BY <1>1, <1>2, <1>3, Grid DEF At, Address

-----------------------------------------------------------------------------
(* A copy reads only cells of the screen when Inside holds, so that each of  *)
(* its cells ends with the old contents of some cell.                        *)
Spans == [from : Int, length : Int, target : Int]

(* The cells that one row is read from are on the screen.                   *)
LEMMA RowReads ==
    ASSUME NEW columns \in Spans, NEW rows \in Spans, Inside(columns, rows),
           NEW i \in 0 .. rows.length - 1,
           NEW to, to = (rows.target + i) * width + columns.target,
           NEW from, from = (rows.from + i) * width + columns.from
    PROVE  /\ to \in Int /\ from \in Int /\ columns.length \in Int
           /\ \A a \in to .. to + columns.length - 1 : a - to + from \in Address
  <1>1. width \in Nat /\ width * height \in Nat
    BY Cells
  <1>2. /\ rows.target + i \in Int /\ rows.from + i \in Int /\ columns.length \in Int
        /\ columns.target \in Int /\ columns.from \in Int
    BY DEF Spans
  <1>3. /\ to = Start(columns.target, rows.target + i, width)
        /\ from = Start(columns.from, rows.from + i, width)
    BY DEF Start
  <1>4. to \in Int /\ from \in Int
    BY <1>1, <1>2
  <1>5. columns.length > 0 => from >= 0 /\ from + columns.length <= width * height
    BY <1>3 DEF Inside, Within
  <1> QED BY <1>1, <1>2, <1>4, <1>5 DEF Address

(* As many rows are moved as there are, and none but these.                 *)
LEMMA RowOrderRange ==
    ASSUME NEW rows \in Spans
    PROVE  \E n \in Nat : /\ 1 .. n = 1 .. rows.length /\ (rows.length >= 0 => n = rows.length)
                          /\ \A k \in 1 .. n : RowOrder(rows)[k] \in 0 .. rows.length - 1
  <1>1. rows.length \in Int /\ rows.from \in Int /\ rows.target \in Int
    BY DEF Spans
  <1>2. \A k \in 1 .. rows.length : RowOrder(rows)[k] \in 0 .. rows.length - 1
    BY <1>1 DEF RowOrder
  <1>3. CASE rows.length < 0
    BY <1>1, <1>3
  <1>4. CASE rows.length >= 0
    BY <1>1, <1>2, <1>4
  <1> QED BY <1>1, <1>3, <1>4

(* An array of the screen's cells; and such an array after one row was       *)
(* moved.                                                                    *)
IsScreen(f) == f = [a \in Address |-> f[a]]
Shift(f, to, from, length) ==
    [a \in Address |-> IF a \in to .. to + length - 1 THEN f[a - to + from] ELSE f[a]]
ReadsScreen(to, from, length) == \A a \in to .. to + length - 1 : a - to + from \in Address

(* A cell of a moved array is some cell of the old, whatever that holds.    *)
LEMMA MovedCells ==
    ASSUME NEW columns \in Spans, NEW rows \in Spans, Inside(columns, rows)
    PROVE  \E origin \in [Address -> Address] :
               \A f : IsScreen(f) =>
                   MoveRows(f, width, columns, rows) = [a \in Address |-> f[origin[a]]]
  <1>1. PICK n \in Nat : /\ 1 .. n = 1 .. rows.length
                         /\ \A k \in 1 .. n : RowOrder(rows)[k] \in 0 .. rows.length - 1
    BY RowOrderRange
  <1>2. PICK id : id = [a \in Address |-> a]
    OBVIOUS
  <1>3. PICK m : MoveSteps(m, n, id, width, columns, rows)
    BY <1>1, MoveRowsSteps
  <1> USE DEF MoveSteps
  <1>4. ASSUME NEW k \in 1 .. n
        PROVE  \E to \in Int, from \in Int, length \in Int :
                   /\ \A g : IsScreen(g) =>
                         MoveRow(g, width, columns, rows, RowOrder(rows)[k])
                             = Shift(g, to, from, length)
                   /\ ReadsScreen(to, from, length)
    <2>1. PICK i \in 0 .. rows.length - 1 : i = RowOrder(rows)[k]
      BY <1>1
    <2>2. PICK to, from : /\ to = (rows.target + i) * width + columns.target
                          /\ from = (rows.from + i) * width + columns.from
      OBVIOUS
    <2>3. /\ to \in Int /\ from \in Int /\ columns.length \in Int
          /\ ReadsScreen(to, from, columns.length)
      BY <2>2, RowReads DEF ReadsScreen
    <2>4. \A g : IsScreen(g) =>
              MoveRow(g, width, columns, rows, RowOrder(rows)[k])
                  = Shift(g, to, from, columns.length)
      BY <2>1, <2>2 DEF MoveRow, MemMove, IsScreen, Shift
    <2> QED BY <2>3, <2>4
  <1>5. ASSUME NEW k \in 0 .. n PROVE m[k] \in [Address -> Address]
    <2> DEFINE Typed == {j \in Nat : j <= n => m[j] \in [Address -> Address]}
    <2>1. 0 \in Typed
      BY <1>2, <1>3
    <2>2. ASSUME NEW j \in Nat, j \in Typed PROVE j + 1 \in Typed
      <3>1. SUFFICES ASSUME j + 1 <= n PROVE m[j + 1] \in [Address -> Address]
        OBVIOUS
      <3>2. j + 1 \in 1 .. n /\ m[j] \in [Address -> Address] /\ (j + 1) - 1 = j
        BY <2>2, <3>1
      <3>3. IsScreen(m[j])
        BY <3>2 DEF IsScreen
      <3>4. PICK to \in Int, from \in Int, length \in Int :
                m[j + 1] = Shift(m[j], to, from, length) /\ ReadsScreen(to, from, length)
        BY <1>3, <1>4, <3>2, <3>3
      <3> QED BY <3>2, <3>4 DEF Shift, ReadsScreen
    <2> HIDE DEF Typed
    <2>3. \A j \in Nat : j \in Typed
      BY <2>1, <2>2, Induction
    <2> QED BY <2>3 DEF Typed
  <1>6. ASSUME NEW f, IsScreen(f)
        PROVE  MoveRows(f, width, columns, rows) = [a \in Address |-> f[m[n][a]]]
    <2>1. PICK h : MoveSteps(h, n, f, width, columns, rows)
      BY <1>1, MoveRowsSteps
    <2> USE DEF MoveSteps
    <2> DEFINE Follows == {k \in Nat : k <= n => h[k] = [a \in Address |-> f[m[k][a]]]}
    <2>2. 0 \in Follows
      BY <1>2, <1>3, <1>6, <2>1 DEF IsScreen
    <2>3. ASSUME NEW k \in Nat, k \in Follows PROVE k + 1 \in Follows
      <3>1. SUFFICES ASSUME k + 1 <= n PROVE h[k + 1] = [a \in Address |-> f[m[k + 1][a]]]
        OBVIOUS
      <3>2. /\ k + 1 \in 1 .. n /\ k \in 0 .. n /\ (k + 1) - 1 = k
            /\ h[k] = [a \in Address |-> f[m[k][a]]]
        BY <2>3, <3>1
      <3>3. m[k] \in [Address -> Address]
        BY <1>5, <3>2
      <3>4. IsScreen(m[k]) /\ IsScreen(h[k])
        BY <3>2, <3>3 DEF IsScreen
      <3>5. PICK to \in Int, from \in Int, length \in Int :
                /\ m[k + 1] = Shift(m[k], to, from, length)
                /\ h[k + 1] = Shift(h[k], to, from, length)
                /\ ReadsScreen(to, from, length)
        <4>1. /\ m[k + 1] = MoveRow(m[k], width, columns, rows, RowOrder(rows)[k + 1])
              /\ h[k + 1] = MoveRow(h[k], width, columns, rows, RowOrder(rows)[k + 1])
          BY <1>3, <2>1, <3>2
        <4> QED BY <1>4, <3>2, <3>4, <4>1
      <3>6. \A a \in Address : h[k + 1][a] = f[m[k + 1][a]]
        BY <3>2, <3>5 DEF Shift, ReadsScreen
      <3>7. h[k + 1] = [a \in Address |-> h[k + 1][a]]
        BY <3>5 DEF Shift
      <3> QED BY <3>6, <3>7
    <2> HIDE DEF Follows
    <2>4. n \in Follows
      BY <2>2, <2>3, Induction
    <2> QED BY <2>1, <2>4 DEF Follows
  <1>7. m[n] \in [Address -> Address]
    BY <1>5
  <1> QED BY <1>6, <1>7

(* An array of places D.                                                     *)
IsArray(f, D) == f = [a \in D |-> f[a]]

(* Inside an array of rows of wide places, rows are moved in an order that   *)
(* reads each of them before it is overwritten.                              *)
Spot(wide, x, y) == y * wide + x
ShiftIn(f, D, to, from, length) ==
    [a \in D |-> IF a \in to .. to + length - 1 THEN f[a - to + from] ELSE f[a]]

LEMMA CopiedGrid ==
    ASSUME NEW wide \in Nat \ {0}, NEW high \in Nat \ {0}, NEW D, D = 0 .. wide * high - 1,
           NEW columns \in Spans, NEW rows \in Spans, columns.length > 0, rows.length > 0,
           InScreen(columns, wide), InScreen(rows, high), NEW f, IsArray(f, D)
    PROVE  \A x \in 0 .. wide - 1, y \in 0 .. high - 1 :
               MoveRows(f, wide, columns, rows)[Spot(wide, x, y)] =
                   IF /\ x \in columns.target .. columns.target + columns.length - 1
                      /\ y \in rows.target .. rows.target + rows.length - 1
                   THEN f[Spot(wide, x - columns.target + columns.from, y - rows.target + rows.from)]
                   ELSE f[Spot(wide, x, y)]
  <1>1. PICK ct \in Int, cf \in Int, length \in Int, rt \in Int, rf \in Int, n \in Nat :
            /\ ct = columns.target /\ cf = columns.from /\ length = columns.length
            /\ rt = rows.target /\ rf = rows.from /\ n = rows.length
    <2>1. /\ columns.target \in Int /\ columns.from \in Int /\ columns.length \in Int
          /\ rows.target \in Int /\ rows.from \in Int /\ rows.length \in Int
      BY DEF Spans
    <2>2. rows.length \in Nat
      BY <2>1
    <2> QED BY <2>1, <2>2, Zenon
  <1>2. /\ wide \in Nat \ {0} /\ high \in Nat \ {0}
        /\ \A x \in 0 .. wide - 1, y \in 0 .. high - 1 : Spot(wide, x, y) \in D
        /\ \A x, z \in 0 .. wide - 1, y, w \in Int : Spot(wide, x, y) = Spot(wide, z, w) => x = z /\ y = w
    BY Grid DEF Spot
  <1>3. /\ length > 0 /\ n > 0 /\ ct >= 0 /\ cf >= 0 /\ rt >= 0 /\ rf >= 0
        /\ ct + length <= wide /\ cf + length <= wide /\ rt + n <= high /\ rf + n <= high
        /\ wide \in Int /\ high \in Int
    BY <1>1, <1>2 DEF InScreen
  <1>4. PICK h : MoveSteps(h, n, f, wide, columns, rows)
    BY <1>1, MoveRowsSteps
  <1> USE DEF MoveSteps
  <1> DEFINE Before(i, k) == i \in 0 .. n - 1 /\ IF rt < rf THEN i < k ELSE i >= n - k
             Value(x, y, k) == IF x \in ct .. ct + length - 1 /\ Before(y - rt, k)
                               THEN f[Spot(wide, x - ct + cf, y - rt + rf)] ELSE f[Spot(wide, x, y)]
             Done == {k \in Nat : k <= n =>
                         /\ IsArray(h[k], D)
                         /\ \A x \in 0 .. wide - 1, y \in 0 .. high - 1 :
                                h[k][Spot(wide, x, y)] = Value(x, y, k)}
  <1>5. 0 \in Done
    <2>1. \A y \in 0 .. high - 1 : ~ Before(y - rt, 0)
      BY <1>3
    <2>2. h[0] = f
      BY <1>4
    <2> HIDE DEF Before
    <2> QED BY <2>1, <2>2
  <1>6. ASSUME NEW k \in Nat, k \in Done PROVE k + 1 \in Done
    <2>1. SUFFICES ASSUME k + 1 <= n
                   PROVE  /\ IsArray(h[k + 1], D)
                          /\ \A x \in 0 .. wide - 1, y \in 0 .. high - 1 :
                                 h[k + 1][Spot(wide, x, y)] = Value(x, y, k + 1)
      OBVIOUS
    <2>2. PICK i \in 0 .. n - 1 : i = IF rt < rf THEN k ELSE n - (k + 1)
      <3>1. (IF rt < rf THEN k ELSE n - (k + 1)) \in 0 .. n - 1
        BY <1>3, <2>1
      <3> QED BY <3>1
    <2>3. h[k + 1] = MoveRow(h[k], wide, columns, rows, i)
      <3>1. k + 1 \in 1 .. n /\ (k + 1) - 1 = k
        BY <2>1
      <3>2. RowOrder(rows)[k + 1] = i
        BY <1>1, <2>2, <3>1 DEF RowOrder
      <3> QED BY <1>4, <3>1, <3>2
    <2>4. /\ IsArray(h[k], D)
          /\ \A x \in 0 .. wide - 1, y \in 0 .. high - 1 : h[k][Spot(wide, x, y)] = Value(x, y, k)
      BY <1>6, <2>1
    <2>5. PICK to \in Int, from \in Int : /\ to = Spot(wide, ct, rt + i) /\ from = Spot(wide, cf, rf + i)
                                          /\ h[k + 1] = ShiftIn(h[k], D, to, from, length)
      <3>1. /\ Spot(wide, ct, rt + i) \in Int /\ Spot(wide, ct, rt + i) = (rows.target + i) * wide + columns.target
            /\ Spot(wide, cf, rf + i) \in Int /\ Spot(wide, cf, rf + i) = (rows.from + i) * wide + columns.from
        <4>1. \A a, z \in Int : Spot(wide, a, z) \in Int
          BY <1>2 DEF Spot
        <4>2. rt + i \in Int /\ rf + i \in Int
          OBVIOUS
        <4>3. rt + i = rows.target + i /\ rf + i = rows.from + i
          BY <1>1
        <4> QED BY <1>1, <4>1, <4>2, <4>3, Zenon DEF Spot
      <3>2. h[k + 1] = ShiftIn(h[k], D, Spot(wide, ct, rt + i), Spot(wide, cf, rf + i), length)
        BY <1>1, <2>3, <2>4, <3>1 DEF MoveRow, MemMove, ShiftIn, IsArray
      <3> QED BY <3>1, <3>2
    <2>6. ASSUME NEW x \in 0 .. wide - 1, NEW y \in 0 .. high - 1
          PROVE  /\ Spot(wide, x, y) \in to .. to + length - 1 <=> x \in ct .. ct + length - 1 /\ y = rt + i
                 /\ y = rt + i => Spot(wide, x, y) - to + from = Spot(wide, x - ct + cf, rf + i)
      <3>1. PICK u \in Int, v \in Int : u = (rt + i) * wide /\ v = (rf + i) * wide
        BY <1>2
      <3>2. to = u + ct /\ from = v + cf /\ Spot(wide, x - ct + cf, rf + i) = v + (x - ct + cf)
        BY <2>5, <3>1 DEF Spot
      <3>3. y = rt + i => Spot(wide, x, y) = u + x
        BY <3>1 DEF Spot
      <3>4. ASSUME Spot(wide, x, y) \in to .. to + length - 1
            PROVE  x \in ct .. ct + length - 1 /\ y = rt + i
        <4>1. PICK d \in 0 .. length - 1 : Spot(wide, x, y) = u + (ct + d)
          <5>1. PICK a \in Int : a = Spot(wide, x, y) /\ a >= u + ct /\ a <= u + ct + length - 1
            BY <3>2, <3>4
          <5>2. a - u - ct \in 0 .. length - 1 /\ a = u + (ct + (a - u - ct))
            BY <5>1
          <5> QED BY <5>1, <5>2
        <4>2. Spot(wide, ct + d, rt + i) = u + (ct + d)
          BY <3>1 DEF Spot
        <4>3. ct + d \in 0 .. wide - 1 /\ rt + i \in Int
          BY <1>3
        <4>4. x = ct + d /\ y = rt + i
          BY <1>2, <4>1, <4>2, <4>3
        <4> QED BY <4>4
      <3> QED BY <1>3, <3>2, <3>3, <3>4
    <2>7. ASSUME NEW x \in 0 .. wide - 1, NEW y \in 0 .. high - 1
          PROVE  h[k + 1][Spot(wide, x, y)] = Value(x, y, k + 1)
      <3>1. h[k + 1][Spot(wide, x, y)] = IF Spot(wide, x, y) \in to .. to + length - 1
                                 THEN h[k][Spot(wide, x, y) - to + from] ELSE h[k][Spot(wide, x, y)]
        BY <1>2, <2>5 DEF ShiftIn
      <3>2. CASE x \in ct .. ct + length - 1 /\ y = rt + i
        <4>1. x - ct + cf \in 0 .. wide - 1 /\ rf + i \in 0 .. high - 1
          BY <1>3, <3>2
        <4>2. ~ Before(rf + i - rt, k)
          BY <2>2, <2>1
        <4>3. h[k][Spot(wide, x - ct + cf, rf + i)] = f[Spot(wide, x - ct + cf, rf + i)]
          BY <2>4, <4>1, <4>2
        <4>4. h[k + 1][Spot(wide, x, y)] = f[Spot(wide, x - ct + cf, rf + i)]
          BY <2>6, <3>1, <3>2, <4>3
        <4>5. y - rt = i /\ y - rt + rf = rf + i /\ Before(y - rt, k + 1)
          BY <2>1, <2>2, <3>2
        <4> QED BY <3>2, <4>4, <4>5
      <3>3. CASE ~ (x \in ct .. ct + length - 1 /\ y = rt + i)
        <4>1. h[k + 1][Spot(wide, x, y)] = Value(x, y, k)
          BY <2>4, <2>6, <3>1, <3>3
        <4>2. y # rt + i => (Before(y - rt, k) <=> Before(y - rt, k + 1))
          <5>1. y # rt + i => y - rt # i
            OBVIOUS
          <5> QED BY <2>1, <2>2, <5>1
        <4> HIDE DEF Before
        <4> QED BY <3>3, <4>1, <4>2
      <3> QED BY <3>2, <3>3
    <2>8. IsArray(h[k + 1], D)
      BY <2>5 DEF ShiftIn, IsArray
    <2> QED BY <2>7, <2>8
  <1>7. n \in Done
    <2> HIDE DEF Done
    <2> QED BY <1>5, <1>6, Induction
  <1>8. ASSUME NEW x \in 0 .. wide - 1, NEW y \in 0 .. high - 1
        PROVE  MoveRows(f, wide, columns, rows)[Spot(wide, x, y)] =
                   IF x \in ct .. ct + length - 1 /\ y \in rt .. rt + n - 1
                   THEN f[Spot(wide, x - ct + cf, y - rt + rf)] ELSE f[Spot(wide, x, y)]
    <2>1. h[n][Spot(wide, x, y)] = Value(x, y, n)
      BY <1>7
    <2>2. Before(y - rt, n) <=> y \in rt .. rt + n - 1
      OBVIOUS
    <2> HIDE DEF Before
    <2> QED BY <1>4, <2>1, <2>2
  <1> QED BY <1>1, <1>8

(* So the cells of a rectangle end with what those of the other held.        *)
LEMMA CopiedRows ==
    ASSUME NEW columns \in Spans, NEW rows \in Spans, columns.length > 0, rows.length > 0,
           InScreen(columns, width), InScreen(rows, height), NEW f, IsScreen(f)
    PROVE  \A x \in 0 .. width - 1, y \in 0 .. height - 1 :
               MoveRows(f, width, columns, rows)[At(x, y)] =
                   IF /\ x \in columns.target .. columns.target + columns.length - 1
                      /\ y \in rows.target .. rows.target + rows.length - 1
                   THEN f[At(x - columns.target + columns.from, y - rows.target + rows.from)]
                   ELSE f[At(x, y)]
  <1>1. /\ width \in Nat \ {0} /\ height \in Nat \ {0}
        /\ Address = 0 .. width * height - 1 /\ IsArray(f, Address)
    BY Cells DEF Address, IsScreen, IsArray
  <1>2. \A x, y : At(x, y) = Spot(width, x, y)
    BY DEF At, Spot
  <1> HIDE DEF Address
  <1> QED BY <1>1, <1>2, CopiedGrid

-----------------------------------------------------------------------------
(* A copy writes into an array, it does not grow it.                        *)
LEMMA MovedDomain ==
    ASSUME NEW columns \in Spans, NEW rows \in Spans, NEW stride, NEW D, NEW f, IsArray(f, D)
    PROVE  IsArray(MoveRows(f, stride, columns, rows), D)
  <1>1. PICK n \in Nat : 1 .. n = 1 .. rows.length
    BY RowOrderRange
  <1>2. PICK m : MoveSteps(m, n, f, stride, columns, rows)
    BY <1>1, MoveRowsSteps
  <1> USE DEF MoveSteps
  <1> DEFINE Array == {k \in Nat : k <= n => IsArray(m[k], D)}
  <1>3. 0 \in Array
    BY <1>2
  <1>4. ASSUME NEW k \in Nat, k \in Array PROVE k + 1 \in Array
    <2>1. SUFFICES ASSUME k + 1 <= n PROVE IsArray(m[k + 1], D)
      OBVIOUS
    <2>2. k + 1 \in 1 .. n /\ (k + 1) - 1 = k /\ IsArray(m[k], D)
      BY <1>4, <2>1
    <2>3. m[k + 1] = MoveRow(m[k], stride, columns, rows, RowOrder(rows)[k + 1])
      BY <1>2, <2>2
    <2>4. DOMAIN m[k] = D
      BY <2>2 DEF IsArray
    <2> QED BY <2>3, <2>4 DEF MoveRow, MemMove, IsArray
  <1> HIDE DEF Array
  <1>5. n \in Array
    BY <1>3, <1>4, Induction
  <1> QED BY <1>2, <1>5 DEF Array

(* Drawing a glyph leaves an array of pixels.                               *)
LEMMA GlyphArray ==
    ASSUME NEW V, NEW buffer \in [Pixels -> V], NEW f, NEW x, NEW y, NEW c, NEW fg, NEW bg,
           fg % IntMod \in V, bg % IntMod \in V
    PROVE  SetGlyph(buffer, f, x, y, c, fg, bg) \in [Pixels -> V]
  BY DEF SetGlyph, Rect

(* The frame buffer after each of the characters that are drawn, whatever    *)
(* their order: the fold's function on sets of addresses.                    *)
DrawStep(it, s, drawn, fg, bg) ==
    IF s = {} THEN video_memory
    ELSE LET x == CHOOSE x \in s : TRUE
         IN  SetGlyph(it[s \ {x}], font, x % width, x \div width, drawn[x], fg, bg)
DrawSteps(it, drawn, fg, bg) ==
    /\ Set(drawn, fg, bg) = it[DOMAIN drawn]
    /\ \A s \in SUBSET DOMAIN drawn : it[s] = DrawStep(it, s, drawn, fg, bg)

LEMMA DrawStepsExist ==
    ASSUME NEW drawn, DOMAIN drawn \subseteq Address, driver # "text",
           IsArray(video_memory, Pixels), NEW fg, NEW bg
    PROVE  \E it : DrawSteps(it, drawn, fg, bg)
  <1> DEFINE S == DOMAIN drawn
             V == {fg % IntMod, bg % IntMod} \cup {video_memory[p] : p \in Pixels}
             A == [Pixels -> V]
             F == [e \in S \X A |->
                      SetGlyph(e[2], font, e[1] % width, e[1] \div width, drawn[e[1]], fg, bg)]
             C == [s \in (SUBSET S) \ {{}} |-> CHOOSE x \in s : TRUE]
             Step(it, s) ==
                 IF s = {} THEN video_memory
                 ELSE LET x == CHOOSE x \in s : TRUE
                      IN  SetGlyph(it[s \ {x}], font, x % width, x \div width, drawn[x], fg, bg)
  <1>1. IsFiniteSet(S)
    BY Cells, FS_Subset
  <1>2. video_memory \in A
    BY DEF IsArray
  <1>3. F \in [S \X A -> A]
    <2>1. \A a \in S, buffer \in A :
              SetGlyph(buffer, font, a % width, a \div width, drawn[a], fg, bg) \in A
      BY GlyphArray
    <2> HIDE DEF A, S
    <2> QED BY <2>1
  <1>4. C \in [(SUBSET S) \ {{}} -> S] /\ \A s \in (SUBSET S) \ {{}} : C[s] \in s
    OBVIOUS
  <1>5. \E it : it = [s \in SUBSET S |-> Step(it, s)]
    <2> HIDE DEF A, S, F, C
    <2>1. PICK it \in [SUBSET S -> A] : \A s \in SUBSET S : Iteration(it, s, video_memory, C, F)
      <3>1. Iterated(A, video_memory, SUBSET S, C, F)
        BY <1>1, <1>2, <1>3, <1>4, Iterates
      <3> QED BY <3>1 DEF Iterated
    <2>2. ASSUME NEW s \in SUBSET S PROVE it[s] = Step(it, s)
      <3>1. CASE s = {}
        BY <2>1, <3>1 DEF Iteration
      <3>2. CASE s # {}
        <4>1. PICK x \in S : x = C[s] /\ x = (CHOOSE y \in s : TRUE)
          BY <1>4, <3>2 DEF C
        <4>2. s \ {x} \in SUBSET S /\ it[s \ {x}] \in A /\ it[s] = F[<<x, it[s \ {x}]>>]
          BY <2>1, <3>2, <4>1 DEF Iteration
        <4>3. it[s] = SetGlyph(it[s \ {x}], font, x % width, x \div width, drawn[x], fg, bg)
          BY <4>2 DEF F
        <4> QED BY <3>2, <4>1, <4>3
      <3> QED BY <3>1, <3>2
    <2>3. it = [s \in SUBSET S |-> Step(it, s)]
      <3> HIDE DEF Step
      <3> QED BY <2>1, <2>2
    <2> QED BY <2>3
  <1>6. PICK fold : fold = CHOOSE it : it = [s \in SUBSET S |-> Step(it, s)]
    OBVIOUS
  <1>7. Set(drawn, fg, bg) = fold[S]
    BY <1>6 DEF Set, FoldSet, MapThenFoldSet
  <1>8. \A s \in SUBSET S : fold[s] = Step(fold, s)
    <2>1. fold = [s \in SUBSET S |-> Step(fold, s)]
      <3> HIDE DEF Step
      <3> QED BY <1>5, <1>6
    <2> HIDE DEF Step
    <2> QED BY <2>1
  <1>9. DrawSteps(fold, drawn, fg, bg)
    BY <1>7, <1>8, Zenon DEF DrawSteps, DrawStep
  <1> QED BY <1>9

(* It stays an array of pixels.                                             *)
LEMMA SetArray ==
    ASSUME NEW drawn, DOMAIN drawn \subseteq Address, driver # "text",
           IsArray(video_memory, Pixels), NEW fg, NEW bg
    PROVE  IsArray(Set(drawn, fg, bg), Pixels)
  <1>1. PICK it : DrawSteps(it, drawn, fg, bg)
    BY DrawStepsExist
  <1>2. Set(drawn, fg, bg) = DrawStep(it, DOMAIN drawn, drawn, fg, bg)
    BY <1>1 DEF DrawSteps
  <1> QED BY <1>2 DEF DrawStep, IsArray, SetGlyph

-----------------------------------------------------------------------------
(* The shape of the two arrays, which every call keeps.                      *)
Shape ==
    /\ driver \in {"text", "graphics"}
    /\ IsScreen(stored)
    /\ IsArray(video_memory, IF driver = "text" THEN Address ELSE Pixels)

(* What gpu_copy cuts is still a span; one inside the screen is not cut.    *)
LEMMA CutSpan ==
    ASSUME NEW s \in Spans, NEW edge \in Int
    PROVE  /\ Cut(s, edge) \in Spans
           /\ InScreen(s, edge) => Cut(s, edge) = s
  <1>1. \A t \in Spans : /\ CutFrom(t) \in Spans /\ CutTarget(t) \in Spans
                         /\ CutFromEnd(t, edge) \in Spans /\ CutTargetEnd(t, edge) \in Spans
    BY DEF CutFrom, CutTarget, CutFromEnd, CutTargetEnd, Span, Spans
  <1>2. Cut(s, edge) \in Spans
    BY <1>1 DEF Cut
  <1>3. ASSUME InScreen(s, edge)
        PROVE  /\ CutFrom(s) = s /\ CutTarget(s) = s
               /\ CutFromEnd(s, edge) = s /\ CutTargetEnd(s, edge) = s
    <2>1. PICK f \in Int, l \in Int, t \in Int : s = Span(f, l, t)
      BY DEF Span, Spans
    <2>2. f >= 0 /\ t >= 0 /\ f + l <= edge /\ t + l <= edge
      BY <1>3, <2>1 DEF InScreen, Span
    <2>3. /\ f + l >= edge => l - (edge - (f + l)) = l
          /\ t + l >= edge => l - (edge - (t + l)) = l
      BY <2>2
    <2> QED BY <2>1, <2>2, <2>3 DEF CutFrom, CutTarget, CutFromEnd, CutTargetEnd, Span
  <1> QED BY <1>2, <1>3 DEF Cut

(* Set, fill and messages keep the shape.                                   *)
LEMMA DrawShape ==
    ASSUME Shape, NEW drawn, DOMAIN drawn \subseteq Address, NEW fg, NEW bg, DrawIn(drawn, fg, bg),
           driver' = driver
    PROVE  Shape'
  <1>1. IsScreen(stored')
    BY DEF DrawIn, IsScreen
  <1>2. CASE driver = "text"
    BY <1>1, <1>2 DEF DrawIn, Set, Shape, IsArray
  <1>3. CASE driver # "text"
    BY <1>1, <1>3, SetArray DEF DrawIn, Shape
  <1> QED BY <1>2, <1>3

(* gpu_set's characters are on the screen and in its row or column.         *)
LEMMA LineCells ==
    ASSUME NEW x \in Int, NEW y \in Int, NEW string, NEW vertical \in BOOLEAN,
           NEW a \in DOMAIN Line(x, y, string, vertical)
    PROVE  /\ a \in Address
           /\ \E u \in 0 .. width - 1, v \in 0 .. height - 1 :
                  a = At(u, v) /\ IF vertical THEN u = x ELSE v = y
  <1>1. PICK n \in 0 .. Readable(string) - 1 :
            LET u == IF vertical THEN x ELSE x + n
                v == IF vertical THEN y + n ELSE y
            IN  a = At(u, v) /\ OnScreen(u, v)
    BY DEF Line
  <1>2. PICK u \in Int, v \in Int : /\ u = IF vertical THEN x ELSE x + n
                                    /\ v = IF vertical THEN y + n ELSE y
    OBVIOUS
  <1>3. a = At(u, v) /\ u \in 0 .. width - 1 /\ v \in 0 .. height - 1
    BY <1>1, <1>2, Cells DEF OnScreen
  <1>4. a \in Address
    BY <1>3, Cells
  <1> QED BY <1>2, <1>3, <1>4

(* gpu_fill's characters are on the screen.                                 *)
LEMMA RectangleCells ==
    ASSUME NEW x0 \in Int, NEW y0 \in Int, NEW x1 \in Int, NEW y1 \in Int, NEW c
    PROVE  DOMAIN Rectangle(x0, y0, x1, y1, c) \subseteq Address
  <1>1. \A a, b \in Int : Max({a, b}) \in {a, b} /\ Max({a, b}) >= b
    BY DEF Max
  <1>2. \A a, b \in Int : Min({a, b}) \in {a, b} /\ Min({a, b}) <= b
    BY DEF Min
  <1>3. width \in Int /\ height \in Int /\ 0 \in Int
    BY Cells
  <1>4. ASSUME NEW a \in DOMAIN Rectangle(x0, y0, x1, y1, c) PROVE a \in Address
    <2>1. PICK x \in Max({x0, 0}) .. Min({x1, width}) - 1,
               y \in Max({y0, 0}) .. Min({y1, height}) - 1 :
              a = At(x, y)
      BY <1>4 DEF Rectangle
    <2>2. x \in 0 .. width - 1
      <3>1. /\ Max({x0, 0}) \in Int /\ Max({x0, 0}) >= 0
            /\ Min({x1, width}) \in Int /\ Min({x1, width}) <= width
        BY <1>1, <1>2, <1>3
      <3> QED BY <1>3, <3>1
    <2>3. y \in 0 .. height - 1
      <3>1. /\ Max({y0, 0}) \in Int /\ Max({y0, 0}) >= 0
            /\ Min({y1, height}) \in Int /\ Min({y1, height}) <= height
        BY <1>1, <1>2, <1>3
      <3> QED BY <1>3, <3>1
    <2> QED BY <2>1, <2>2, <2>3, Cells
  <1> QED BY <1>4

(* The cells that gpu_set, gpu_fill and gpu_error_message draw.              *)
Drawn(x, y, string, vertical) ==
    IF x >= width \/ y >= height THEN << >> ELSE Line(x, y, string, vertical)
Filled(x, y, w, h, c) ==
    IF w <= 0 \/ h <= 0 \/ c = Invalid THEN << >> ELSE Rectangle(x, y, IntSum(x, w), IntSum(y, h), c)

(* A sum of ints is one, also when it wraps.                                 *)
LEMMA IntSums == \A m, n \in Int : IntSum(m, n) \in Int
  <1>1. PICK q \in Nat \ {0}, half \in Int : q = IntMod /\ half = IntMod \div 2
    BY VgaGraphicsAssumption
  <1>2. \A m, n \in Int : (m + n + half) % q \in Int
    OBVIOUS
  <1> QED BY <1>1, <1>2 DEF IntSum

(* All of them are addresses of the screen.                                 *)
LEMMA DrawnCells ==
    /\ \A x, y \in Int, vertical \in BOOLEAN : \A string :
           DOMAIN Drawn(x, y, string, vertical) \subseteq Address
    /\ \A x, y, w, h \in Int : \A c : DOMAIN Filled(x, y, w, h, c) \subseteq Address
    /\ \A message : DOMAIN Message(message) = Address
  <1>1. \A x, y \in Int, vertical \in BOOLEAN : \A string :
            DOMAIN Drawn(x, y, string, vertical) \subseteq Address
    BY LineCells DEF Drawn
  <1>2. \A x, y, w, h \in Int : \A c : DOMAIN Filled(x, y, w, h, c) \subseteq Address
    BY IntSums, RectangleCells DEF Filled
  <1>3. \A message : DOMAIN Message(message) = Address
    BY DEF Message
  <1> QED BY <1>1, <1>2, <1>3

(* gpu_init establishes the shape.                                          *)
LEMMA InitShape == Init => Shape
  BY DEF Init, Shape, IsScreen, IsArray

(* Every step keeps the shape.                                              *)
LEMMA NextShape == Shape /\ [Next]_vars => Shape'
  <1> SUFFICES ASSUME Shape, [Next]_vars PROVE Shape'
    OBVIOUS
  <1>1. CASE VgaGraphicsLoadFont
    BY <1>1 DEF VgaGraphicsLoadFont, Shape, IsScreen, IsArray
  <1>2. CASE NoFontFile
    <2>1. PICK message : DrawIn(Message(message), foreground', background') /\ driver' = driver
      BY <1>2 DEF NoFontFile
    <2> QED BY <2>1, DrawnCells, DrawShape
  <1>3. ASSUME NEW color \in Colors, NEW is_palette_index \in BOOLEAN,
               \/ GpuSetBackground(color, is_palette_index)
               \/ GpuSetForeground(color, is_palette_index)
        PROVE  Shape'
    BY <1>3 DEF GpuSetBackground, GpuSetForeground, SetColor, driver_vars, Shape, IsScreen, IsArray
  <1>4. ASSUME NEW x \in Positions, NEW y \in Positions, NEW string \in Strings,
               NEW vertical \in BOOLEAN, GpuSet(x, y, string, vertical)
        PROVE  Shape'
    <2>1. x \in Int /\ y \in Int
      BY GpuAssumption
    <2>2. DrawIn(Drawn(x, y, string, vertical), foreground, background) /\ driver' = driver
      BY <1>4 DEF GpuSet, Drawn, driver_vars
    <2> QED BY <2>1, <2>2, DrawnCells, DrawShape
  <1>5. ASSUME NEW x \in Positions, NEW y \in Positions, NEW w \in {0, 2, IntMod \div 2 - 1},
               NEW c \in Characters \cup {Invalid}, GpuFill(x, y, w, width, c)
        PROVE  Shape'
    <2>1. x \in Int /\ y \in Int /\ w \in Int /\ width \in Int
      BY GpuAssumption, VgaGraphicsAssumption
    <2>2. DrawIn(Filled(x, y, w, width, c), foreground, background) /\ driver' = driver
      BY <1>5 DEF GpuFill, Filled, driver_vars
    <2> QED BY <2>1, <2>2, DrawnCells, DrawShape
  <1>6. ASSUME NEW columns \in ColumnSpans, NEW rows \in RowSpans, GpuCopy(columns, rows)
        PROVE  Shape'
    <2>1. PICK cut_columns \in Spans, cut_rows \in Spans :
              cut_columns = Cut(columns, width) /\ cut_rows = Cut(rows, height)
      BY GpuAssumption, CutSpan DEF Spans
    <2>2. CASE UNCHANGED <<stored, video_memory>>
      BY <1>6, <2>2 DEF GpuCopy, driver_vars, Shape, IsScreen, IsArray
    <2>3. CASE /\ stored' = MoveRows(stored, width, cut_columns, cut_rows)
               /\ video_memory' = Copy(cut_columns, cut_rows)
      <3>1. driver' = driver
        BY <1>6 DEF GpuCopy, driver_vars
      <3>2. IsScreen(stored')
        BY <2>3, MovedDomain DEF Shape, IsScreen, IsArray
      <3>3. PICK scaled_columns \in Spans, scaled_rows \in Spans :
                /\ scaled_columns = Scaled(cut_columns, GlyphWidth)
                /\ scaled_rows = Scaled(cut_rows, GlyphHeight)
        <4>1. \A span \in Spans, size \in Nat : Scaled(span, size) \in Spans
          BY DEF Scaled, Span, Spans
        <4> QED BY <4>1, VgaGraphicsAssumption
      <3>4. IsArray(video_memory', IF driver = "text" THEN Address ELSE Pixels)
        BY <2>3, <3>3, MovedDomain DEF Copy, Shape
      <3> QED BY <3>1, <3>2, <3>4 DEF Shape
    <2> QED BY <1>6, <2>1, <2>2, <2>3 DEF GpuCopy
  <1>7. ASSUME NEW message \in Messages, GpuErrorMessage(message) PROVE Shape'
    <2>1. DrawIn(Message(message), foreground', background') /\ driver' = driver
      BY <1>7 DEF GpuErrorMessage, driver_vars
    <2> QED BY <2>1, DrawnCells, DrawShape
  <1>8. CASE UNCHANGED vars
    BY <1>8 DEF vars, driver_vars, Shape, IsScreen, IsArray
  <1> QED BY <1>1, <1>2, <1>3, <1>4, <1>5, <1>6, <1>7, <1>8 DEF Next

(* In every state gpu.c's cells and the driver's memory are full arrays.    *)
THEOREM ShapeKept == Spec => []Shape
  BY InitShape, NextShape, PTL DEF Spec

-----------------------------------------------------------------------------
(* The calls that draw say in last what they are. *)
LEMMA Calls ==
    ASSUME Next, calls' # calls
    PROVE  \/ \E x \in Positions, y \in Positions, string \in Strings, vertical \in BOOLEAN :
                  GpuSet(x, y, string, vertical) /\ last'.of = "set"
           \/ \E columns \in ColumnSpans, rows \in RowSpans :
                  GpuCopy(columns, rows) /\ last'.of = "copy"
           \/ last'.of \in {"fill", "message"}
  <1>1. ~ VgaGraphicsLoadFont /\ ~ NoFontFile
    BY DEF VgaGraphicsLoadFont, NoFontFile
  <1>2. \A color, is_palette_index : /\ ~ GpuSetBackground(color, is_palette_index)
                                     /\ ~ GpuSetForeground(color, is_palette_index)
    BY DEF GpuSetBackground, GpuSetForeground, SetColor
  <1>3. ASSUME NEW call, Drawing(call) PROVE last' = call
    BY <1>3 DEF Drawing
  <1>4. ASSUME NEW x, NEW y, NEW string, NEW vertical, GpuSet(x, y, string, vertical)
        PROVE  last'.of = "set"
    <2>1. Drawing([of |-> "set", x |-> x, y |-> y, vertical |-> vertical])
      BY <1>4 DEF GpuSet
    <2> QED BY <1>3, <2>1
  <1>5. ASSUME NEW x, NEW y, NEW w, NEW h, NEW c, GpuFill(x, y, w, h, c) PROVE last'.of = "fill"
    <2>1. Drawing([of |-> "fill"])
      BY <1>5 DEF GpuFill
    <2> QED BY <1>3, <2>1
  <1>6. ASSUME NEW columns, NEW rows, GpuCopy(columns, rows) PROVE last'.of = "copy"
    <2>1. Drawing([of |-> "copy", asked |-> <<columns, rows>>])
      BY <1>6 DEF GpuCopy
    <2> QED BY <1>3, <2>1
  <1>7. ASSUME NEW message, GpuErrorMessage(message) PROVE last'.of = "message"
    <2>1. Drawing([of |-> "message"])
      BY <1>7 DEF GpuErrorMessage
    <2> QED BY <1>3, <2>1
  <1> QED BY <1>1, <1>2, <1>4, <1>5, <1>6, <1>7 DEF Next

(* Cells outside of gpu_set's line keep what they held.                     *)
LEMMA SetStays ==
    ASSUME Shape, NEW x \in Positions, NEW y \in Positions, NEW string \in Strings,
           NEW vertical \in BOOLEAN, GpuSet(x, y, string, vertical)
    PROVE  \A u \in 0 .. width - 1, v \in 0 .. height - 1 :
               (IF vertical THEN u # x ELSE v # y) => stored'[At(u, v)] = stored[At(u, v)]
  <1>1. x \in Int /\ y \in Int
    BY GpuAssumption
  <1>2. DrawIn(Drawn(x, y, string, vertical), foreground, background)
    BY DEF GpuSet, Drawn
  <1>3. ASSUME NEW u \in 0 .. width - 1, NEW v \in 0 .. height - 1,
               IF vertical THEN u # x ELSE v # y
        PROVE  At(u, v) \notin DOMAIN Drawn(x, y, string, vertical)
    <2>1. SUFFICES ASSUME At(u, v) \in DOMAIN Line(x, y, string, vertical) PROVE FALSE
      BY DEF Drawn
    <2>2. PICK s \in 0 .. width - 1, t \in 0 .. height - 1 :
              At(u, v) = At(s, t) /\ IF vertical THEN s = x ELSE t = y
      BY <1>1, <2>1, LineCells
    <2>3. s = u /\ t = v
      BY <2>2, Cells
    <2> QED BY <1>3, <2>2, <2>3
  <1>4. \A u \in 0 .. width - 1, v \in 0 .. height - 1 : At(u, v) \in Address
    BY Cells
  <1> QED BY <1>2, <1>3, <1>4 DEF DrawIn

(* gpu_set (component/gpu.c) never draws outside the row, or the column, of  *)
(* its first character.                                                      *)
THEOREM LinesKept == Spec => SetStaysInLine
  <1>1. Shape /\ [Next]_vars =>
            [calls' # calls /\ last'.of = "set" =>
                \A x \in 0 .. width - 1, y \in 0 .. height - 1 :
                    (IF last'.vertical THEN x # last'.x ELSE y # last'.y) =>
                        stored'[At(x, y)] = stored[At(x, y)]]_vars
    <2> SUFFICES ASSUME Shape, Next, calls' # calls, last'.of = "set"
                 PROVE  \A x \in 0 .. width - 1, y \in 0 .. height - 1 :
                            (IF last'.vertical THEN x # last'.x ELSE y # last'.y) =>
                                stored'[At(x, y)] = stored[At(x, y)]
      OBVIOUS
    <2>1. PICK x \in Positions, y \in Positions, string \in Strings, vertical \in BOOLEAN :
              GpuSet(x, y, string, vertical)
      BY Calls
    <2>2. last'.x = x /\ last'.y = y /\ last'.vertical = vertical
      BY <2>1 DEF GpuSet, Drawing
    <2> QED BY <2>1, <2>2, SetStays
  <1> QED BY <1>1, ShapeKept, PTL DEF Spec, SetStaysInLine

(* Scaled up, a span on the screen stays on it.                              *)
LEMMA ScaledInScreen ==
    ASSUME NEW span \in Spans, NEW edge \in Nat, InScreen(span, edge), NEW s \in Nat \ {0},
           NEW end \in Nat, edge * s <= end
    PROVE  InScreen(Scaled(span, s), end) /\ Scaled(span, s) \in Spans
  <1>1. PICK f \in Int, l \in Int, t \in Int : span.from = f /\ span.length = l /\ span.target = t
    BY DEF Spans
  <1>2. f >= 0 /\ t >= 0 /\ f + l <= edge /\ t + l <= edge
    BY <1>1 DEF InScreen
  <1>3. \A x, y \in Int : x < y => x * s + s <= y * s
    BY Products
  <1>4. f * s >= 0 /\ t * s >= 0
    BY <1>2
  <1>5. f * s + l * s <= end /\ t * s + l * s <= end
    <2>1. (f + l) * s <= edge * s /\ (t + l) * s <= edge * s
      <3>1. \A x, y \in Int : x <= y => x * s <= y * s
        <4>1. ASSUME NEW x \in Int, NEW y \in Int, x <= y PROVE x * s <= y * s
          <5>1. PICK a \in Int, b \in Int : a = x * s /\ b = y * s
            OBVIOUS
          <5>2. x < y => a + s <= b
            BY <1>3, <5>1
          <5>3. x = y => a = b
            BY <5>1
          <5> QED BY <4>1, <5>1, <5>2, <5>3
        <4> QED BY <4>1
      <3> QED BY <1>2, <3>1
    <2>2. (f + l) * s = f * s + l * s /\ (t + l) * s = t * s + l * s
      OBVIOUS
    <2> QED BY <2>1, <2>2
  <1>6. Scaled(span, s) = [from |-> f * s, length |-> l * s, target |-> t * s]
    BY <1>1 DEF Scaled, Span
  <1> QED BY <1>4, <1>5, <1>6 DEF InScreen, Spans

(* A copy within a grid stays within its array.                              *)
LEMMA GridWithin ==
    ASSUME NEW columns \in Spans, NEW rows \in Spans, columns.length > 0,
           NEW w \in Nat \ {0}, NEW h \in Nat, InScreen(columns, w), InScreen(rows, h)
    PROVE  Within(columns, rows, w, w * h)
  <1>1. /\ columns.from \in Int /\ columns.target \in Int /\ columns.length \in Int
        /\ rows.from \in Int /\ rows.target \in Int /\ rows.length \in Int /\ w * h \in Nat
    BY DEF Spans
  <1>2. ASSUME NEW c \in Int, NEW r \in Int, c >= 0, r >= 0, c + columns.length <= w, r < h
        PROVE  Start(c, r, w) >= 0 /\ Start(c, r, w) + columns.length <= w * h
    <2>1. r * w + c \in 0 .. w * h - 1 /\ r * w + (c + columns.length - 1) \in 0 .. w * h - 1
      <3>1. c \in 0 .. w - 1 /\ c + columns.length - 1 \in 0 .. w - 1 /\ r \in 0 .. h - 1
        BY <1>1, <1>2
      <3> QED BY <3>1, Grid
    <2>2. PICK a \in Int, b \in Int : a = r * w /\ b = w * h
      BY <1>1
    <2> QED BY <1>1, <1>2, <2>1, <2>2 DEF Start
  <1>3. ASSUME NEW i \in 0 .. rows.length - 1,
               NEW start \in {Start(columns.target, rows.target + i, w),
                              Start(columns.from, rows.from + i, w)}
        PROVE  start >= 0 /\ start + columns.length <= w * h
    BY <1>1, <1>2, <1>3 DEF InScreen
  <1> QED BY <1>1, <1>3 DEF Within

(* The glyphs fit into the frame buffer.                                     *)
LEMMA GlyphGrid ==
    /\ vga_width \in Nat \ {0} /\ vga_height \in Nat \ {0}
    /\ GlyphWidth \in Nat \ {0} /\ GlyphHeight \in Nat \ {0}
    /\ width * GlyphWidth <= vga_width /\ height * GlyphHeight <= vga_height
  <1>1. \A s \in Nat \ {0}, n \in Nat : (n \div s) * s <= n
    OBVIOUS
  <1> QED BY <1>1, VgaGraphicsAssumption, GpuAssumption

(* A copy inside the screen reaches the arrays.                             *)
LEMMA InScreenInside ==
    ASSUME NEW columns \in Spans, NEW rows \in Spans, columns.length > 0,
           InScreen(columns, width), InScreen(rows, height)
    PROVE  Inside(columns, rows)
  <1>1. width \in Nat \ {0} /\ height \in Nat
    BY Cells
  <1>2. Within(columns, rows, width, width * height)
    BY <1>1, GridWithin
  <1>3. PICK C \in Spans, R \in Spans :
            C = Scaled(columns, GlyphWidth) /\ R = Scaled(rows, GlyphHeight)
            /\ InScreen(C, vga_width) /\ InScreen(R, vga_height)
    BY <1>1, GlyphGrid, ScaledInScreen
  <1>4. C.length > 0
    <2>1. columns.length \in Int /\ C.length = columns.length * GlyphWidth
      BY <1>3 DEF Spans, Scaled, Span
    <2> QED BY <2>1, GlyphGrid
  <1>5. Within(C, R, vga_width, vga_width * vga_height)
    BY <1>3, <1>4, GlyphGrid, GridWithin
  <1> QED BY <1>2, <1>3, <1>5 DEF Inside

(* A copy inside the screen is exact, also when nothing is to be moved.     *)
LEMMA CopyIsExact ==
    ASSUME Shape, NEW columns \in ColumnSpans, NEW rows \in RowSpans, GpuCopy(columns, rows),
           InScreen(columns, width), InScreen(rows, height)
    PROVE  CopiedExactly(columns, rows)
  <1>1. columns \in Spans /\ rows \in Spans /\ width \in Int /\ height \in Int
    BY GpuAssumption DEF Spans
  <1>2. Cut(columns, width) = columns /\ Cut(rows, height) = rows
    BY <1>1, CutSpan
  <1>3. CASE NothingToCopy(columns, rows)
    <2>1. stored' = stored
      BY <1>3 DEF GpuCopy
    <2>2. PICK ct \in Int, cf \in Int, cl \in Int, rt \in Int, rf \in Int, rl \in Int :
              /\ ct = columns.target /\ cf = columns.from /\ cl = columns.length
              /\ rt = rows.target /\ rf = rows.from /\ rl = rows.length
      BY <1>1 DEF Spans
    <2>3. cl <= 0 \/ rl <= 0 \/ (ct = cf /\ rt = rf)
      <3>1. ct + cl <= width /\ cf + cl <= width /\ rt + rl <= height /\ rf + rl <= height
        BY <2>2 DEF InScreen
      <3>2. \/ cl <= 0 \/ rl <= 0 \/ cf >= width \/ rf >= height
            \/ ct >= width \/ rt >= height \/ (ct = cf /\ rt = rf)
        BY <1>3, <2>2 DEF NothingToCopy
      <3> QED BY <1>1, <3>1, <3>2
    <2>4. ASSUME NEW x \in 0 .. width - 1, NEW y \in 0 .. height - 1
          PROVE  stored[At(x, y)] = IF x \in ct .. ct + cl - 1 /\ y \in rt .. rt + rl - 1
                                    THEN stored[At(x - ct + cf, y - rt + rf)] ELSE stored[At(x, y)]
      <3>1. ct = cf /\ rt = rf => x - ct + cf = x /\ y - rt + rf = y
        OBVIOUS
      <3>2. cl <= 0 => x \notin ct .. ct + cl - 1
        OBVIOUS
      <3>3. rl <= 0 => y \notin rt .. rt + rl - 1
        OBVIOUS
      <3> QED BY <2>3, <3>1, <3>2, <3>3
    <2> QED BY <2>1, <2>2, <2>4 DEF CopiedExactly
  <1>4. CASE ~ NothingToCopy(columns, rows)
    <2>1. columns.length > 0 /\ rows.length > 0
      BY <1>1, <1>4 DEF NothingToCopy, Spans
    <2>2. stored' = MoveRows(stored, width, columns, rows)
      BY <1>1, <1>2, <1>4, <2>1, InScreenInside DEF GpuCopy
    <2> QED BY <1>1, <2>1, <2>2, CopiedRows DEF CopiedExactly, Shape
  <1> QED BY <1>3, <1>4

(* gpu_copy between two rectangles of the screen reaches the driver, and the *)
(* one ends with what the other held.                                        *)
THEOREM CopiesExactly == Spec => CopyExact
  <1>1. Shape /\ [Next]_vars =>
            [calls' # calls /\ last'.of = "copy"
                 /\ InScreen(last'.asked[1], width) /\ InScreen(last'.asked[2], height) =>
                     CopiedExactly(last'.asked[1], last'.asked[2])]_vars
    <2> SUFFICES ASSUME Shape, Next, calls' # calls, last'.of = "copy",
                        InScreen(last'.asked[1], width), InScreen(last'.asked[2], height)
                 PROVE  CopiedExactly(last'.asked[1], last'.asked[2])
      OBVIOUS
    <2>1. PICK columns \in ColumnSpans, rows \in RowSpans : GpuCopy(columns, rows)
      BY Calls
    <2>2. last'.asked[1] = columns /\ last'.asked[2] = rows
      BY <2>1 DEF GpuCopy, Drawing
    <2> QED BY <2>1, <2>2, CopyIsExact
  <1> QED BY <1>1, ShapeKept, PTL DEF Spec, CopyExact

-----------------------------------------------------------------------------
(* On the text screen, video memory is the image of the cells that gpu_get   *)
(* returns.                                                                  *)
TextMirror == driver = "text" => \A a \in Address : video_memory[a] = Encode(stored[a])

(* Set, fill and messages write the same cells to both.                     *)
LEMMA DrawMirror ==
    ASSUME TextMirror, NEW drawn, NEW fg, NEW bg, DrawIn(drawn, fg, bg), driver' = driver
    PROVE  TextMirror'
  <1> SUFFICES ASSUME driver = "text", NEW a \in Address PROVE video_memory'[a] = Encode(stored'[a])
    BY DEF TextMirror, Encode, UnicodeToCp437
  <1>1. stored'[a] = IF a \in DOMAIN drawn THEN Cell(drawn[a], fg, bg) ELSE stored[a]
    BY DEF DrawIn
  <1>2. video_memory'[a] = IF a \in DOMAIN drawn THEN Encode(Cell(drawn[a], fg, bg))
                           ELSE video_memory[a]
    BY DEF DrawIn, Set
  <1> QED BY <1>1, <1>2 DEF TextMirror

(* Every step keeps the mirror: a copy moves the same cells in both.        *)
LEMMA NextMirror == Shape /\ TextMirror /\ [Next]_vars => TextMirror'
  <1> SUFFICES ASSUME Shape, TextMirror, [Next]_vars PROVE TextMirror'
    OBVIOUS
  <1>1. CASE VgaGraphicsLoadFont
    BY <1>1 DEF VgaGraphicsLoadFont, TextMirror, Encode
  <1>2. CASE NoFontFile
    <2>1. PICK message : DrawIn(Message(message), foreground', background') /\ driver' = driver
      BY <1>2 DEF NoFontFile
    <2> QED BY <2>1, DrawMirror
  <1>3. ASSUME NEW color \in Colors, NEW is_palette_index \in BOOLEAN,
               \/ GpuSetBackground(color, is_palette_index)
               \/ GpuSetForeground(color, is_palette_index)
        PROVE  TextMirror'
    BY <1>3 DEF GpuSetBackground, GpuSetForeground, SetColor, driver_vars, TextMirror, Encode, UnicodeToCp437
  <1>4. ASSUME NEW x \in Positions, NEW y \in Positions, NEW string \in Strings,
               NEW vertical \in BOOLEAN, GpuSet(x, y, string, vertical)
        PROVE  TextMirror'
    <2>1. DrawIn(Drawn(x, y, string, vertical), foreground, background) /\ driver' = driver
      BY <1>4 DEF GpuSet, Drawn, driver_vars
    <2> QED BY <2>1, DrawMirror
  <1>5. ASSUME NEW x \in Positions, NEW y \in Positions, NEW w \in {0, 2, IntMod \div 2 - 1},
               NEW c \in Characters \cup {Invalid}, GpuFill(x, y, w, width, c)
        PROVE  TextMirror'
    <2>1. DrawIn(Filled(x, y, w, width, c), foreground, background) /\ driver' = driver
      BY <1>5 DEF GpuFill, Filled, driver_vars
    <2> QED BY <2>1, DrawMirror
  <1>6. ASSUME NEW columns \in ColumnSpans, NEW rows \in RowSpans, GpuCopy(columns, rows)
        PROVE  TextMirror'
    <2>1. PICK cut_columns \in Spans, cut_rows \in Spans :
              cut_columns = Cut(columns, width) /\ cut_rows = Cut(rows, height)
      BY GpuAssumption, CutSpan DEF Spans
    <2>2. driver' = driver
      BY <1>6 DEF GpuCopy, driver_vars
    <2>3. CASE UNCHANGED <<stored, video_memory>>
      BY <2>2, <2>3 DEF TextMirror, Encode, UnicodeToCp437
    <2>4. CASE /\ Inside(cut_columns, cut_rows)
               /\ stored' = MoveRows(stored, width, cut_columns, cut_rows)
               /\ video_memory' = Copy(cut_columns, cut_rows)
      <3>1. SUFFICES ASSUME driver = "text", NEW a \in Address
                     PROVE  video_memory'[a] = Encode(stored'[a])
        BY <2>2 DEF TextMirror, Encode, UnicodeToCp437
      <3>2. IsScreen(stored) /\ IsScreen(video_memory)
        BY <3>1 DEF Shape, IsArray, IsScreen
      <3>3. PICK origin \in [Address -> Address] :
                \A f : IsScreen(f) =>
                    MoveRows(f, width, cut_columns, cut_rows) = [b \in Address |-> f[origin[b]]]
        BY <2>4, MovedCells
      <3>4. stored'[a] = stored[origin[a]]
        BY <2>4, <3>2, <3>3
      <3>5. video_memory'[a] = video_memory[origin[a]]
        BY <2>4, <3>1, <3>2, <3>3 DEF Copy
      <3>6. video_memory[origin[a]] = Encode(stored[origin[a]])
        BY <3>1, <3>3 DEF TextMirror
      <3> QED BY <3>4, <3>5, <3>6
    <2> QED BY <1>6, <2>1, <2>3, <2>4 DEF GpuCopy
  <1>7. ASSUME NEW message \in Messages, GpuErrorMessage(message) PROVE TextMirror'
    <2>1. DrawIn(Message(message), foreground', background') /\ driver' = driver
      BY <1>7 DEF GpuErrorMessage, driver_vars
    <2> QED BY <2>1, DrawMirror
  <1>8. CASE UNCHANGED vars
    BY <1>8 DEF vars, driver_vars, TextMirror, Encode, UnicodeToCp437
  <1> QED BY <1>1, <1>2, <1>3, <1>4, <1>5, <1>6, <1>7, <1>8 DEF Next

(* What the text driver shows is what gpu_get (component/gpu.c) returns,     *)
(* after any mixture of calls.                                               *)
THEOREM TextShowsStored == Spec => [](driver = "text" => Mirror)
  <1>1. Init => TextMirror
    BY DEF Init, TextMirror
  <1>2. Spec => []TextMirror
    BY <1>1, NextMirror, ShapeKept, PTL DEF Spec
  <1>3. TextMirror => (driver = "text" => Mirror)
    BY DEF TextMirror, Mirror
  <1> QED BY <1>2, <1>3, PTL

-----------------------------------------------------------------------------
(* The nearest colour is looked for from the palette's first to its last.    *)
Off(color, i) == Distance(color, palette[i + 1])

ClosestSteps(c, n, color) ==
    /\ c[0] = 0 /\ c[n] = FindClosestColor(color)
    /\ \A k \in 1 .. n : c[k] = IF Off(color, k - 1) < Off(color, c[k - 1]) THEN k - 1 ELSE c[k - 1]

(* The index that find_closest_color has after each colour it looked at.    *)
LEMMA FindClosestSteps ==
    ASSUME NEW color, NEW n \in Nat \ {0}, n = palette_size
    PROVE  \E c : ClosestSteps(c, n, color)
  <1> DEFINE S == 1 .. n
             A == 0 .. n - 1
             F == [e \in S \X A |->
                      IF Off(color, e[1] - 1) < Off(color, e[2]) THEN e[1] - 1 ELSE e[2]]
             C == [s \in (SUBSET S) \ {{}} |-> Max(s)]
             Step(it, s) ==
                 IF s = {} THEN 0
                 ELSE LET m == Max(s)
                          i == [j \in 1 .. n |-> j - 1][m]
                      IN  IF Off(color, i) < Off(color, it[s \ {m}]) THEN i ELSE it[s \ {m}]
  <1>1. IsFiniteSet(S) /\ 0 \in A /\ F \in [S \X A -> A]
    <2>1. IsFiniteSet(S)
      BY FS_Interval
    <2>2. 0 \in A /\ \A i \in S : i - 1 \in A
      OBVIOUS
    <2>3. F \in [S \X A -> A]
      <3> HIDE DEF A, S
      <3> QED BY <2>2
    <2> QED BY <2>1, <2>2, <2>3
  <1>2. \A s \in (SUBSET S) \ {{}} : Max(s) \in s /\ \A y \in s : y <= Max(s)
    BY Maxima
  <1>3. C \in [(SUBSET S) \ {{}} -> S] /\ \A s \in (SUBSET S) \ {{}} : C[s] \in s
    BY <1>2
  <1>4. \E it : it = [s \in SUBSET S |-> Step(it, s)]
    <2> HIDE DEF A, S, F, C
    <2>1. Iterated(A, 0, SUBSET S, C, F)
      BY <1>1, <1>3, Iterates
    <2>2. PICK it \in [SUBSET S -> A] : \A s \in SUBSET S : Iteration(it, s, 0, C, F)
      BY <2>1 DEF Iterated
    <2>3. ASSUME NEW s \in SUBSET S PROVE it[s] = Step(it, s)
      <3>1. CASE s = {}
        BY <2>2, <3>1 DEF Iteration
      <3>2. CASE s # {}
        <4>1. PICK m \in S : m = C[s] /\ m = Max(s)
          BY <1>3, <3>2 DEF C
        <4>2. s \ {m} \in SUBSET S /\ it[s \ {m}] \in A /\ it[s] = F[<<m, it[s \ {m}]>>]
          BY <2>2, <3>2, <4>1 DEF Iteration
        <4>3. it[s] = IF Off(color, m - 1) < Off(color, it[s \ {m}]) THEN m - 1 ELSE it[s \ {m}]
          BY <4>2 DEF F
        <4>4. [j \in 1 .. n |-> j - 1][m] = m - 1
          BY DEF S
        <4> QED BY <3>2, <4>1, <4>3, <4>4
      <3> QED BY <3>1, <3>2
    <2>4. it = [s \in SUBSET S |-> Step(it, s)]
      <3> HIDE DEF Step
      <3> QED BY <2>2, <2>3
    <2> QED BY <2>4
  <1>5. PICK fold : fold = CHOOSE it : it = [s \in SUBSET S |-> Step(it, s)]
    OBVIOUS
  <1>6. FindClosestColor(color) = fold[S]
    BY <1>5 DEF FindClosestColor, FoldLeft, MapThenFoldSet, Off
  <1> HIDE DEF Step
  <1>7. fold = [s \in SUBSET S |-> Step(fold, s)]
    BY <1>4, <1>5
  <1>8. \A s \in SUBSET S : fold[s] = Step(fold, s)
    BY <1>7
  <1> DEFINE c == [k \in 0 .. n |-> fold[1 .. k]]
  <1>9. c[0] = 0
    <2>1. 1 .. 0 = {} /\ {} \in SUBSET S /\ 0 \in 0 .. n
      OBVIOUS
    <2>2. fold[{}] = 0
      BY <1>8, <2>1 DEF Step
    <2> QED BY <2>1, <2>2
  <1>10. ASSUME NEW k \in 1 .. n
         PROVE  c[k] = IF Off(color, k - 1) < Off(color, c[k - 1]) THEN k - 1 ELSE c[k - 1]
    <2>1. PICK s : s = 1 .. k
      OBVIOUS
    <2>2. /\ s \in SUBSET S /\ s \in SUBSET (1 .. k) /\ s # {} /\ k \in s /\ s \ {k} = 1 .. k - 1
          /\ k \in Nat /\ \A y \in s : y \in Int /\ y <= k
      BY <2>1
    <2>3. Max(s) = k
      <3>1. PICK max : max = Max(s)
        OBVIOUS
      <3>2. max \in s /\ \A y \in s : y <= max
        BY <2>2, <3>1, Maxima
      <3>3. max = k
        BY <2>2, <3>2
      <3> QED BY <3>1, <3>3
    <2>4. [j \in 1 .. n |-> j - 1][k] = k - 1
      OBVIOUS
    <2>5. fold[s] = IF Off(color, k - 1) < Off(color, fold[1 .. k - 1]) THEN k - 1
                    ELSE fold[1 .. k - 1]
      BY <1>8, <2>2, <2>3, <2>4 DEF Step
    <2>6. c[k] = fold[s] /\ c[k - 1] = fold[1 .. k - 1]
      BY <2>1
    <2> HIDE DEF c
    <2> QED BY <2>5, <2>6
  <1>11. c[n] = FindClosestColor(color)
    BY <1>6
  <1> HIDE DEF c
  <1> QED BY <1>9, <1>10, <1>11 DEF ClosestSteps

(* It is an index of the palette.                                           *)
LEMMA ClosestInPalette ==
    ASSUME NEW color, palette_size > 0
    PROVE  FindClosestColor(color) \in 0 .. palette_size - 1
  <1>1. PICK n \in Nat \ {0} : n = palette_size
    BY GpuAssumption DEF palette_size
  <1>2. PICK c : ClosestSteps(c, n, color)
    BY <1>1, FindClosestSteps
  <1> DEFINE Found == {k \in Nat : k <= n => c[k] \in 0 .. n - 1}
  <1>3. 0 \in Found
    BY <1>2 DEF ClosestSteps
  <1>4. ASSUME NEW k \in Nat, k \in Found PROVE k + 1 \in Found
    <2>1. SUFFICES ASSUME k + 1 <= n PROVE c[k + 1] \in 0 .. n - 1
      OBVIOUS
    <2>2. k + 1 \in 1 .. n /\ (k + 1) - 1 = k /\ k \in 0 .. n - 1 /\ c[k] \in 0 .. n - 1
      BY <1>4, <2>1
    <2>3. c[k + 1] = IF Off(color, k) < Off(color, c[k]) THEN k ELSE c[k]
      BY <1>2, <2>2 DEF ClosestSteps
    <2> QED BY <2>2, <2>3
  <1> HIDE DEF Found
  <1>5. n \in Found
    BY <1>3, <1>4, Induction
  <1> QED BY <1>1, <1>2, <1>5 DEF Found, ClosestSteps

(* Two colours are a number of shades apart.                                 *)
LEMMA DistanceIsNumber ==
    ASSUME NEW color \in Int, NEW other \in Int
    PROVE  Distance(color, other) \in Int
  <1>1. PICK q \in Nat \ {0} : q = Shade
    BY GpuAssumption
  <1>2. PICK qq \in Nat \ {0} : qq = q * q
    <2>1. q * q \in Nat /\ q * q # 0
      OBVIOUS
    <2> QED BY <2>1
  <1>3. ASSUME NEW c \in Int
        PROVE  \E m \in Int, n \in Int, o \in Int : Channels(c) = <<m, n, o>>
    <2>1. (c \div qq) % q \in Int /\ (c \div q) % q \in Int /\ c % q \in Int
      OBVIOUS
    <2> QED BY <1>1, <1>2, <2>1 DEF Channels
  <1>4. \A m, n \in Int : Apart(m, n) \in Int
    BY DEF Apart
  <1>5. PICK m \in Int, n \in Int, o \in Int : Channels(color) = <<m, n, o>>
    BY <1>3
  <1>6. PICK u \in Int, v \in Int, w \in Int : Channels(other) = <<u, v, w>>
    BY <1>3
  <1>7. PICK a \in Int, b \in Int, c \in Int : a = Apart(m, u) /\ b = Apart(n, v) /\ c = Apart(o, w)
    BY <1>4
  <1> QED BY <1>5, <1>6, <1>7 DEF Distance

(* No colour of the palette is nearer, and none before it as near.          *)
LEMMA ClosestIsNearest ==
    ASSUME NEW color \in Int, palette_size > 0
    PROVE  Nearest(color, FindClosestColor(color))
  <1>1. PICK n \in Nat \ {0} : n = palette_size /\ n = Len(palette)
    BY GpuAssumption DEF palette_size
  <1>2. \A i \in 0 .. n - 1 : Off(color, i) \in Int
    <2>1. \A i \in 0 .. n - 1 : palette[i + 1] \in Int
      BY <1>1, GpuAssumption
    <2> QED BY <2>1, DistanceIsNumber DEF Off
  <1>3. PICK c : ClosestSteps(c, n, color)
    BY <1>1, FindClosestSteps
  <1> DEFINE Found == {k \in Nat : k <= n =>
                 /\ c[k] \in 0 .. n - 1 /\ c[k] <= k
                 /\ \A i \in 0 .. k - 1 :
                        /\ Off(color, c[k]) <= Off(color, i)
                        /\ i < c[k] => Off(color, c[k]) < Off(color, i)}
  <1>4. 0 \in Found
    BY <1>3 DEF ClosestSteps
  <1>5. ASSUME NEW k \in Nat, k \in Found PROVE k + 1 \in Found
    <2>1. SUFFICES ASSUME k + 1 <= n
                   PROVE  /\ c[k + 1] \in 0 .. n - 1 /\ c[k + 1] <= k + 1
                          /\ \A i \in 0 .. k :
                                 /\ Off(color, c[k + 1]) <= Off(color, i)
                                 /\ i < c[k + 1] => Off(color, c[k + 1]) < Off(color, i)
      OBVIOUS
    <2>2. /\ k + 1 \in 1 .. n /\ (k + 1) - 1 = k /\ k \in 0 .. n - 1
          /\ c[k] \in 0 .. n - 1 /\ c[k] <= k
          /\ \A i \in 0 .. k - 1 : /\ Off(color, c[k]) <= Off(color, i)
                                   /\ i < c[k] => Off(color, c[k]) < Off(color, i)
      BY <1>5, <2>1
    <2>3. c[k + 1] = IF Off(color, k) < Off(color, c[k]) THEN k ELSE c[k]
      BY <1>3, <2>2 DEF ClosestSteps
    <2>4. CASE Off(color, k) < Off(color, c[k])
      BY <1>2, <2>1, <2>2, <2>3, <2>4
    <2>5. CASE ~ (Off(color, k) < Off(color, c[k]))
      BY <1>2, <2>1, <2>2, <2>3, <2>5
    <2> QED BY <2>4, <2>5
  <1> HIDE DEF Found
  <1>6. n \in Found
    BY <1>4, <1>5, Induction
  <1> QED BY <1>1, <1>3, <1>6 DEF Found, ClosestSteps, Nearest, Off

(* A colour that is not an index of the palette becomes the first of the     *)
(* nearest (gpu_find_closest_color in component/gpu.c).                      *)
THEOREM NearestIsFound == Spec => ClosestColor
  <1>1. [Next]_vars =>
            [palette_size > 0 => \A color \in Colors :
                /\ GpuSetBackground(color, FALSE) => Nearest(color, background')
                /\ GpuSetForeground(color, FALSE) => Nearest(color, foreground')]_vars
    <2> SUFFICES ASSUME palette_size > 0, NEW color \in Colors
                 PROVE  /\ GpuSetBackground(color, FALSE) => Nearest(color, background')
                        /\ GpuSetForeground(color, FALSE) => Nearest(color, foreground')
      OBVIOUS
    <2>1. color \in Int
      BY GpuAssumption
    <2>2. Nearest(color, FindClosestColor(color))
      BY <2>1, ClosestIsNearest
    <2>3. palette_size # 0
      BY GpuAssumption DEF palette_size
    <2>4. \A result : SetColor(color, FALSE, result) => result = FindClosestColor(color)
      BY <2>3 DEF SetColor
    <2> QED BY <2>2, <2>4 DEF GpuSetBackground, GpuSetForeground
  <1> QED BY <1>1, PTL DEF Spec, ClosestColor

-----------------------------------------------------------------------------
(* Every colour is an index of the palette.                                  *)
Index(color) == color \in 0 .. palette_size - 1
Indexes ==
    palette_size > 0 =>
        /\ Index(foreground) /\ Index(background)
        /\ \A a \in Address : Index(stored[a].foreground) /\ Index(stored[a].background)
Counted == calls \in 0 .. MaxCalls /\ outside \in BOOLEAN
IInv == Shape /\ Indexes /\ Counted

(* The comparison with a size_t lets no negative index through.             *)
LEMMA PaletteIndexIsIndex ==
    ASSUME NEW color \in Colors, PaletteIndex(color)
    PROVE  Index(color)
  <1>1. PICK m \in Nat \ {0}, half \in Int, n \in Int, c \in Int :
            m = IntMod /\ half = m \div 2 /\ n = palette_size /\ c = color
    BY GpuAssumption, VgaGraphicsAssumption DEF palette_size
  <1>2. 2 * half <= m /\ -half <= c /\ c <= half - 1 /\ n <= half /\ c % m < n
    BY <1>1, GpuAssumption DEF PaletteIndex, palette_size
  <1>3. c % m \in 0 .. m - 1 /\ (c >= 0 => c % m = c)
    BY <1>1, <1>2
  <1>4. c < 0 => c % m = c + m
    BY <1>1, <1>2
  <1> QED BY <1>1, <1>2, <1>3, <1>4 DEF Index

(* The colours that gpu_init and gpu_error_message set are indices.         *)
LEMMA DefaultIsIndex ==
    ASSUME NEW color, palette_size > 0
    PROVE  Index(Default(color))
  BY ClosestInPalette, GpuAssumption DEF Default, Index, palette_size

(* Drawing in colours that are indices keeps all of them indices.           *)
LEMMA DrawIndexes ==
    ASSUME Shape, Indexes, NEW drawn, NEW fg, NEW bg, DrawIn(drawn, fg, bg), driver' = driver,
           palette_size > 0 => Index(fg) /\ Index(bg),
           foreground' \in {foreground, fg}, background' \in {background, bg}
    PROVE  Indexes'
  <1> SUFFICES ASSUME palette_size > 0
               PROVE  /\ Index(foreground') /\ Index(background')
                      /\ \A a \in Address : Index(stored'[a].foreground) /\ Index(stored'[a].background)
    BY DEF Indexes, Index, palette_size
  <1>1. Index(foreground') /\ Index(background')
    BY DEF Indexes
  <1>2. ASSUME NEW a \in Address PROVE Index(stored'[a].foreground) /\ Index(stored'[a].background)
    <2>1. stored'[a] = IF a \in DOMAIN drawn THEN Cell(drawn[a], fg, bg) ELSE stored[a]
      BY DEF DrawIn
    <2>2. CASE a \in DOMAIN drawn
      BY <2>1, <2>2 DEF Cell
    <2>3. CASE a \notin DOMAIN drawn
      BY <2>1, <2>3 DEF Indexes
    <2> QED BY <2>2, <2>3
  <1> QED BY <1>1, <1>2

(* Every step does; a copy only brings colours that were on the screen.     *)
LEMMA NextIndexes == Shape /\ Indexes /\ [Next]_vars => Indexes'
  <1> SUFFICES ASSUME Shape, Indexes, [Next]_vars PROVE Indexes'
    OBVIOUS
  <1>1. CASE VgaGraphicsLoadFont
    BY <1>1 DEF VgaGraphicsLoadFont, Indexes, Index, palette_size
  <1>2. CASE NoFontFile
    <2>1. PICK message : DrawIn(Message(message), foreground', background') /\ driver' = driver
      BY <1>2 DEF NoFontFile
    <2>2. palette_size > 0 => Index(foreground') /\ Index(background')
      BY <1>2, DefaultIsIndex DEF NoFontFile
    <2> QED BY <2>1, <2>2, DrawIndexes
  <1>3. ASSUME NEW color \in Colors, NEW is_palette_index \in BOOLEAN,
               \/ GpuSetBackground(color, is_palette_index)
               \/ GpuSetForeground(color, is_palette_index)
        PROVE  Indexes'
    <2>1. driver' = driver /\ stored' = stored
      BY <1>3 DEF GpuSetBackground, GpuSetForeground, SetColor, driver_vars
    <2>2. ASSUME NEW result, SetColor(color, is_palette_index, result), palette_size > 0
          PROVE  Index(result)
      <3>1. palette_size # 0
        BY <2>2, GpuAssumption DEF palette_size
      <3>2. CASE is_palette_index
        <4>1. PaletteIndex(color) /\ result = color
          BY <2>2, <3>1, <3>2 DEF SetColor
        <4> QED BY <4>1, PaletteIndexIsIndex
      <3>3. CASE ~ is_palette_index
        <4>1. result = FindClosestColor(color)
          BY <2>2, <3>1, <3>3 DEF SetColor
        <4> QED BY <2>2, <4>1, ClosestInPalette DEF Index
      <3> QED BY <3>2, <3>3
    <2>3. palette_size > 0 => Index(foreground') /\ Index(background')
      BY <1>3, <2>2 DEF GpuSetBackground, GpuSetForeground, Indexes
    <2> QED BY <2>1, <2>3 DEF Indexes, Index, palette_size
  <1>4. ASSUME NEW x \in Positions, NEW y \in Positions, NEW string \in Strings,
               NEW vertical \in BOOLEAN, GpuSet(x, y, string, vertical)
        PROVE  Indexes'
    <2>1. DrawIn(Drawn(x, y, string, vertical), foreground, background) /\ driver' = driver
          /\ foreground' = foreground /\ background' = background
      BY <1>4 DEF GpuSet, Drawn, driver_vars
    <2>2. palette_size > 0 => Index(foreground) /\ Index(background)
      BY DEF Indexes
    <2> QED BY <2>1, <2>2, DrawIndexes
  <1>5. ASSUME NEW x \in Positions, NEW y \in Positions, NEW w \in {0, 2, IntMod \div 2 - 1},
               NEW c \in Characters \cup {Invalid}, GpuFill(x, y, w, width, c)
        PROVE  Indexes'
    <2>1. DrawIn(Filled(x, y, w, width, c), foreground, background) /\ driver' = driver
          /\ foreground' = foreground /\ background' = background
      BY <1>5 DEF GpuFill, Filled, driver_vars
    <2>2. palette_size > 0 => Index(foreground) /\ Index(background)
      BY DEF Indexes
    <2> QED BY <2>1, <2>2, DrawIndexes
  <1>6. ASSUME NEW columns \in ColumnSpans, NEW rows \in RowSpans, GpuCopy(columns, rows)
        PROVE  Indexes'
    <2>1. PICK cut_columns \in Spans, cut_rows \in Spans :
              cut_columns = Cut(columns, width) /\ cut_rows = Cut(rows, height)
      BY GpuAssumption, CutSpan DEF Spans
    <2>2. driver' = driver /\ foreground' = foreground /\ background' = background
      BY <1>6 DEF GpuCopy, driver_vars
    <2>3. CASE stored' = stored
      BY <2>2, <2>3 DEF Indexes, Index, palette_size
    <2>4. CASE /\ Inside(cut_columns, cut_rows)
               /\ stored' = MoveRows(stored, width, cut_columns, cut_rows)
      <3>1. PICK origin \in [Address -> Address] :
                \A f : IsScreen(f) =>
                    MoveRows(f, width, cut_columns, cut_rows) = [b \in Address |-> f[origin[b]]]
        BY <2>4, MovedCells
      <3>2. \A a \in Address : origin[a] \in Address /\ stored'[a] = stored[origin[a]]
        BY <2>4, <3>1 DEF Shape
      <3> QED BY <2>2, <3>2 DEF Indexes, Index, palette_size
    <2> QED BY <1>6, <2>1, <2>3, <2>4 DEF GpuCopy
  <1>7. ASSUME NEW message \in Messages, GpuErrorMessage(message) PROVE Indexes'
    <2>1. DrawIn(Message(message), foreground', background') /\ driver' = driver
      BY <1>7 DEF GpuErrorMessage, driver_vars
    <2>2. palette_size > 0 => Index(foreground') /\ Index(background')
      BY <1>7, DefaultIsIndex DEF GpuErrorMessage
    <2> QED BY <2>1, <2>2, DrawIndexes
  <1>8. CASE UNCHANGED vars
    BY <1>8 DEF vars, driver_vars, Indexes, Index, palette_size
  <1> QED BY <1>1, <1>2, <1>3, <1>4, <1>5, <1>6, <1>7, <1>8 DEF Next

(* The calls stay within their bound.                                       *)
LEMMA NextCounted == Counted /\ [Next]_vars => Counted'
  <1> SUFFICES ASSUME Counted, [Next]_vars PROVE Counted'
    OBVIOUS
  <1>1. ASSUME NEW call, Drawing(call) PROVE calls' \in 0 .. MaxCalls
    <2>1. MaxCalls \in Nat
      BY GpuAssumption
    <2>2. calls' = calls + 1 /\ calls < MaxCalls
      BY <1>1 DEF Drawing
    <2> QED BY <2>1, <2>2 DEF Counted
  <1>2. CASE VgaGraphicsLoadFont \/ NoFontFile
    BY <1>2 DEF VgaGraphicsLoadFont, NoFontFile, Counted
  <1>3. ASSUME NEW color, NEW is_palette_index,
               \/ GpuSetBackground(color, is_palette_index)
               \/ GpuSetForeground(color, is_palette_index)
        PROVE  Counted'
    BY <1>3 DEF GpuSetBackground, GpuSetForeground, SetColor, Counted
  <1>4. ASSUME NEW x, NEW y, NEW string, NEW vertical, GpuSet(x, y, string, vertical)
        PROVE  Counted'
    <2>1. /\ Drawing([of |-> "set", x |-> x, y |-> y, vertical |-> vertical])
          /\ outside' = outside
      BY <1>4 DEF GpuSet
    <2> QED BY <1>1, <2>1 DEF Counted
  <1>5. ASSUME NEW x, NEW y, NEW w, NEW h, NEW c, GpuFill(x, y, w, h, c) PROVE Counted'
    <2>1. Drawing([of |-> "fill"]) /\ outside' = outside
      BY <1>5 DEF GpuFill
    <2> QED BY <1>1, <2>1 DEF Counted
  <1>6. ASSUME NEW columns, NEW rows, GpuCopy(columns, rows) PROVE Counted'
    <2>1. /\ Drawing([of |-> "copy", asked |-> <<columns, rows>>])
          /\ outside' = outside \/ outside' = TRUE
      BY <1>6 DEF GpuCopy
    <2> QED BY <1>1, <2>1 DEF Counted
  <1>7. ASSUME NEW message, GpuErrorMessage(message) PROVE Counted'
    <2>1. Drawing([of |-> "message"]) /\ outside' = outside
      BY <1>7 DEF GpuErrorMessage
    <2> QED BY <1>1, <2>1 DEF Counted
  <1>8. CASE UNCHANGED vars
    BY <1>8 DEF vars, Counted
  <1> QED BY <1>2, <1>3, <1>4, <1>5, <1>6, <1>7, <1>8 DEF Next

(* No colour that is current or stored lies outside the palette, so that     *)
(* gpu_get and the getters (component/gpu.c) never read past its end.        *)
THEOREM ColorsAreIndices == Spec => []TypeOK
  <1>1. Init => Indexes /\ Counted
    <2> SUFFICES ASSUME Init PROVE Indexes /\ Counted
      OBVIOUS
    <2>1. palette_size > 0 => Index(foreground) /\ Index(background)
      BY DefaultIsIndex DEF Init
    <2>2. \A a \in Address : stored[a].foreground = foreground /\ stored[a].background = background
      BY DEF Init, Cell
    <2>3. Counted
      <3>1. MaxCalls \in Nat
        BY GpuAssumption
      <3>2. calls \in 0 .. MaxCalls
        <4>1. calls = 0
          BY Zenon DEF Init
        <4> QED BY <3>1, <4>1
      <3>3. outside \in BOOLEAN
        BY Zenon DEF Init
      <3> QED BY <3>2, <3>3 DEF Counted
    <2> QED BY <2>1, <2>2, <2>3 DEF Indexes
  <1>2. Spec => []IInv
    BY <1>1, InitShape, NextShape, NextIndexes, NextCounted, PTL DEF Spec, IInv
  <1>3. IInv => TypeOK
    <2> SUFFICES ASSUME IInv PROVE TypeOK
      OBVIOUS
    <2>1. DOMAIN video_memory = IF driver = "text" THEN Address ELSE Pixels
      BY DEF IInv, Shape, IsArray
    <2> QED BY <2>1 DEF IInv, Indexes, Index, Counted, TypeOK
  <1> QED BY <1>2, <1>3, PTL

-----------------------------------------------------------------------------
(* A set of numbers has a minimum.                                           *)
LEMMA Minima ==
    ASSUME NEW s \in SUBSET Nat, s # {}
    PROVE  Min(s) \in s /\ \A y \in s : Min(s) <= y
  <1> DEFINE R == OpToRel(<, Nat)
  <1>1. IsWellFoundedOn(R, Nat)
    BY NatLessThanWellFounded
  <1>2. \A m, n \in Nat : m < n => <<m, n>> \in R
    BY DEF OpToRel
  <1> HIDE DEF R
  <1>3. PICK x \in s : \A y \in s : ~ (<<y, x>> \in R)
    BY <1>1, WFMin
  <1>4. \A y \in s : x <= y
    <2>1. \A y \in s : x \in Nat /\ y \in Nat /\ ~ (y < x)
      BY <1>2, <1>3
    <2> QED BY <2>1
  <1>5. \E z \in s : \A y \in s : z <= y
    BY <1>3, <1>4
  <1> QED BY <1>5 DEF Min

(* A line's text ends before its newline, or with the file, and the next     *)
(* line begins behind that.                                                  *)
LEMMA TextEnds ==
    ASSUME NEW data \in FontFiles, NEW start \in 0 .. Len(data)
    PROVE  /\ TextEnd(data, start) \in start .. Len(data)
           /\ TextEnd(data, start) = Len(data) \/ data[TextEnd(data, start) + 1] = Newline
           /\ \A j \in start .. TextEnd(data, start) - 1 : data[j + 1] # Newline
  <1>1. PICK n \in Nat : n = Len(data)
    BY GpuAssumption
  <1> DEFINE Ends == {e \in start .. n : e = n \/ data[e + 1] = Newline}
  <1>2. Ends \in SUBSET Nat /\ n \in Ends
    BY <1>1
  <1>3. PICK e \in Ends : \A f \in Ends : e <= f
    <2> HIDE DEF Ends
    <2> QED BY <1>2, Minima
  <1>4. ASSUME NEW j \in start .. e - 1 PROVE data[j + 1] # Newline
    <2>1. j \in start .. n /\ j < e
      BY <1>1, <1>3
    <2>2. j \notin Ends
      BY <1>3, <2>1
    <2> QED BY <2>1, <2>2
  <1>5. \E f \in start .. Len(data) : /\ f = Len(data) \/ data[f + 1] = Newline
                                      /\ \A j \in start .. f - 1 : data[j + 1] # Newline
    BY <1>1, <1>3, <1>4
  <1> QED BY <1>5 DEF TextEnd

LEMMA LineEnds ==
    ASSUME NEW data \in FontFiles, NEW start \in 0 .. Len(data) - 1
    PROVE  /\ LineEnd(data, start) \in start .. Len(data) - 1
           /\ LineEnd(data, start) = IF TextEnd(data, start) < Len(data) THEN TextEnd(data, start)
                                     ELSE Len(data) - 1
  <1>1. PICK n \in Nat, e \in Nat :
            /\ n = Len(data) /\ e \in start .. n
            /\ e = TextEnd(data, start) /\ (e = n \/ data[e + 1] = Newline)
            /\ \A j \in start .. e - 1 : data[j + 1] # Newline
    <2>1. Len(data) \in Nat
      BY GpuAssumption
    <2>2. start \in 0 .. Len(data)
      BY <2>1
    <2>3. PICK e : /\ e = TextEnd(data, start) /\ e \in start .. Len(data)
                   /\ e = Len(data) \/ data[e + 1] = Newline
                   /\ \A j \in start .. e - 1 : data[j + 1] # Newline
      BY <2>2, TextEnds
    <2>4. e \in Nat
      BY <2>1, <2>2, <2>3
    <2> QED BY <2>1, <2>3, <2>4, Zenon
  <1> DEFINE IsEnd(i) == /\ data[i + 1] = Newline \/ i = n - 1
                         /\ \A j \in start .. i - 1 : data[j + 1] # Newline
  <1>2. PICK i \in start .. n - 1 : i = IF e < n THEN e ELSE n - 1
    BY <1>1
  <1>3. IsEnd(i)
    <2>1. CASE e < n
      BY <1>1, <1>2, <2>1
    <2>2. CASE ~ (e < n)
      <3>1. e = n /\ i = n - 1
        BY <1>1, <1>2, <2>2
      <3>2. \A j \in start .. i - 1 : j \in start .. e - 1
        BY <1>1, <3>1
      <3> QED BY <1>1, <3>1, <3>2
    <2> QED BY <2>1, <2>2
  <1>4. ASSUME NEW k \in start .. n - 1, IsEnd(k) PROVE k = i
    <2>1. ~ (i < k)
      <3>1. SUFFICES ASSUME i < k PROVE FALSE
        OBVIOUS
      <3>2. i \in start .. k - 1 /\ i # n - 1
        BY <3>1
      <3> QED BY <1>3, <1>4, <3>2
    <2>2. ~ (k < i)
      <3>1. SUFFICES ASSUME k < i PROVE FALSE
        OBVIOUS
      <3>2. k \in start .. i - 1 /\ k # n - 1
        BY <3>1
      <3> QED BY <1>3, <1>4, <3>2
    <2> QED BY <2>1, <2>2
  <1>5. LineEnd(data, start) = CHOOSE k \in start .. n - 1 : IsEnd(k)
    BY <1>1 DEF LineEnd
  <1>6. LineEnd(data, start) = i
    <2> HIDE DEF IsEnd
    <2> QED BY <1>3, <1>4, <1>5
  <1> QED BY <1>1, <1>2, <1>6

NextLine(data, start) == LineEnd(data, start) + 1

LEMMA NextLines ==
    ASSUME NEW data \in FontFiles, NEW start \in LineStarts(data)
    PROVE  /\ NextLine(data, start) \in start + 1 .. Len(data)
           /\ NextLine(data, start) \in LineStarts(data) \/ NextLine(data, start) = Len(data)
           /\ \A t \in LineStarts(data) : t > start => t >= NextLine(data, start)
  <1>1. PICK n \in Nat : n = Len(data)
    BY GpuAssumption
  <1>2. start \in 0 .. n - 1 /\ start \in 0 .. n
    BY <1>1 DEF LineStarts
  <1>3. PICK e \in start .. n : /\ e = TextEnd(data, start) /\ (e = n \/ data[e + 1] = Newline)
                                /\ \A j \in start .. e - 1 : data[j + 1] # Newline
    BY <1>1, <1>2, TextEnds
  <1>4. PICK i \in start .. n - 1 : i = LineEnd(data, start) /\ i = IF e < n THEN e ELSE n - 1
    BY <1>1, <1>2, <1>3, LineEnds
  <1>5. i + 1 \in start + 1 .. n
    <2>1. i \in start .. n - 1 /\ start \in Nat
      BY <1>2
    <2> QED BY <2>1
  <1>6. i + 1 \in LineStarts(data) \/ i + 1 = n
    <2>1. CASE e < n
      <3>1. i = e /\ data[i + 1] = Newline
        BY <1>3, <1>4, <2>1
      <3>2. i + 1 = n \/ i + 1 \in 0 .. n - 1
        BY <1>2, <1>5
      <3> QED BY <1>1, <3>1, <3>2 DEF LineStarts
    <2>2. CASE ~ (e < n)
      BY <1>1, <1>4, <2>2
    <2> QED BY <2>1, <2>2
  <1>7. ASSUME NEW t \in LineStarts(data), t > start PROVE t >= i + 1
    <2>1. t \in 0 .. n - 1 /\ data[t] = Newline
      BY <1>1, <1>2, <1>7 DEF LineStarts
    <2>2. SUFFICES ASSUME t < i + 1 PROVE FALSE
      BY <1>2, <2>1
    <2>3. t - 1 \in start .. e - 1 /\ (t - 1) + 1 = t
      BY <1>1, <1>2, <1>4, <1>7, <2>1, <2>2
    <2>4. data[t] # Newline
      BY <1>3, <2>3
    <2> QED BY <2>1, <2>4
  <1> QED BY <1>1, <1>4, <1>5, <1>6, <1>7 DEF NextLine

-----------------------------------------------------------------------------
(* The loader's recursion: what the lines from start on give.                *)
LoadLines(it, data, start) ==
    IF start = Len(data) THEN << >>
    ELSE IF Code(data, start) >= FontSize THEN << >>
    ELSE Over(it[NextLine(data, start)], LoadSingleCharacter(data, start, Code(data, start)))

(* The recursive function that the loader defines exists.                    *)
LEMMA LoadLinesExists ==
    ASSUME NEW data \in FontFiles
    PROVE  \E it : it = [s \in 0 .. Len(data) |-> LoadLines(it, data, s)]
  <1>1. PICK n \in Nat : n = Len(data)
    BY GpuAssumption
  <1>2. \A s \in 0 .. n - 1 : NextLine(data, s) \in s + 1 .. n
    <2>1. ASSUME NEW s \in 0 .. n - 1 PROVE NextLine(data, s) \in s + 1 .. n
      <3>1. PICK i : i = LineEnd(data, s) /\ i \in s .. n - 1
        BY <1>1, LineEnds
      <3>2. i + 1 \in s + 1 .. n
        BY <3>1
      <3> QED BY <3>1, <3>2 DEF NextLine
    <2> QED BY <2>1
  <1> DEFINE From(k) == {s \in 0 .. n : n - s <= k}
             Done == {k \in Nat : \E it : it = [s \in From(k) |-> LoadLines(it, data, s)]}
  <1>3. 0 \in Done
    <2> DEFINE it == [s \in From(0) |-> << >>]
    <2>1. \A s \in From(0) : s = n
      OBVIOUS
    <2>2. \A f : \A s \in From(0) : LoadLines(f, data, s) = << >>
      BY <1>1, <2>1 DEF LoadLines
    <2>3. it = [s \in From(0) |-> LoadLines(it, data, s)]
      <3>1. it = [s \in From(0) |-> << >>]
        OBVIOUS
      <3> HIDE DEF it, From
      <3> QED BY <2>2, <3>1
    <2> HIDE DEF it, From
    <2> QED BY <2>3
  <1>4. ASSUME NEW k \in Nat, k \in Done PROVE k + 1 \in Done
    <2>1. PICK h : h = [s \in From(k) |-> LoadLines(h, data, s)]
      BY <1>4
    <2> DEFINE it == [s \in From(k + 1) |-> LoadLines(h, data, s)]
    <2>2. \A s \in From(k) : s \in From(k + 1)
      OBVIOUS
    <2>3. \A s \in From(k) : it[s] = h[s]
      <3>1. \A s \in From(k) : h[s] = LoadLines(h, data, s)
        <4> HIDE DEF From
        <4> QED BY <2>1
      <3>2. \A s \in From(k + 1) : it[s] = LoadLines(h, data, s)
        <4> HIDE DEF From
        <4> QED OBVIOUS
      <3> HIDE DEF it, From
      <3> QED BY <2>2, <3>1, <3>2
    <2>4. \A s \in From(k + 1) : s # n => NextLine(data, s) \in From(k)
      <3>1. ASSUME NEW s \in From(k + 1), s # n PROVE NextLine(data, s) \in From(k)
        <4>1. PICK next : next = NextLine(data, s) /\ next \in s + 1 .. n
          BY <1>2, <3>1
        <4> QED BY <3>1, <4>1
      <3> QED BY <3>1
    <2>5. \A s \in From(k + 1) : LoadLines(h, data, s) = LoadLines(it, data, s)
      <3> HIDE DEF it, From
      <3> QED BY <1>1, <2>3, <2>4 DEF LoadLines
    <2>6. it = [s \in From(k + 1) |-> LoadLines(it, data, s)]
      <3>1. it = [s \in From(k + 1) |-> LoadLines(h, data, s)]
        OBVIOUS
      <3> HIDE DEF it, From
      <3> QED BY <2>5, <3>1
    <2> HIDE DEF it, From
    <2> QED BY <2>6
  <1>5. n \in Done
    <2> HIDE DEF Done
    <2> QED BY <1>3, <1>4, Induction
  <1>6. From(n) = 0 .. n
    OBVIOUS
  <1> HIDE DEF From
  <1> QED BY <1>1, <1>5, <1>6

LoadedBy(from, data) ==
    /\ LoadFont(data) = Over(from[0], NoFont)
    /\ \A s \in 0 .. Len(data) : from[s] = LoadLines(from, data, s)

LEMMA LoadFontLines ==
    ASSUME NEW data \in FontFiles
    PROVE  \E from : LoadedBy(from, data)
  <1>1. PICK from : from = CHOOSE it : it = [s \in 0 .. Len(data) |-> LoadLines(it, data, s)]
    OBVIOUS
  <1>2. from = [s \in 0 .. Len(data) |-> LoadLines(from, data, s)]
    BY <1>1, LoadLinesExists
  <1>3. LoadFont(data) = Over(from[0], NoFont)
    BY <1>1 DEF LoadFont, LoadLines, Code, NextLine
  <1>4. \A s \in 0 .. Len(data) : from[s] = LoadLines(from, data, s)
    BY <1>2
  <1> QED BY <1>3, <1>4 DEF LoadedBy

(* What the lines from start on give is in Glyphs, and none of theirs is     *)
(* missing.                                                                  *)
RowsFit(data, f) == \A c, row : <<c, row>> \in DOMAIN f => f[<<c, row>>] = Glyphs[c][row + 1]
HasLines(data, f, start) ==
    \A t \in LineStarts(data) : t >= start /\ ~ (Code(data, t) >= FontSize) =>
        \A row \in Rows(data, t) : <<Code(data, t), row>> \in DOMAIN f
Loaded(data, f, start) == RowsFit(data, f) /\ HasLines(data, f, start)

(* A line has a colon. *)
LEMMA ColonFound ==
    ASSUME NEW data \in FontFiles, NEW start \in LineStarts(data)
    PROVE  LineColon(data, start) \in start .. Len(data) - 1
  <1>1. PICK n \in Nat : n = Len(data)
    BY GpuAssumption
  <1>2. start \in 0 .. n - 1 /\ start \in 0 .. n
    BY <1>1 DEF LineStarts
  <1>3. PICK e \in start .. n : e = TextEnd(data, start)
    BY <1>1, <1>2, TextEnds
  <1>4. \E k \in start .. e - 1 : data[k + 1] = Colon
    BY <1>3, GpuAssumption DEF Describes, LineDescribes
  <1>5. PICK k \in Nat : k \in start .. e - 1 /\ data[k + 1] = Colon
    BY <1>2, <1>3, <1>4
  <1> DEFINE Colons == {j \in start .. n - 1 : data[j + 1] = Colon}
  <1>6. Colons \in SUBSET Nat /\ k \in Colons
    BY <1>1, <1>2, <1>3, <1>5
  <1>7. PICK first \in Colons : \A j \in Colons : first <= j
    <2> HIDE DEF Colons
    <2> QED BY <1>6, Minima
  <1>8. ASSUME NEW j \in start .. first - 1 PROVE data[j + 1] # Colon
    <2>1. j \in start .. n - 1 /\ j < first
      BY <1>7
    <2>2. j \notin Colons
      BY <1>7, <2>1
    <2> QED BY <2>1, <2>2
  <1>9. \E f \in start .. Len(data) - 1 :
            data[f + 1] = Colon /\ \A j \in start .. f - 1 : data[j + 1] # Colon
    BY <1>1, <1>7, <1>8
  <1> QED BY <1>9 DEF LineColon

(* A row that the loader takes has both of its digits in the line.           *)
LEMMA RowsTaken ==
    ASSUME NEW data \in FontFiles, NEW start \in LineStarts(data), NEW row \in 0 .. GlyphHeight - 1
    PROVE  row \in Rows(data, start) <=>
               ~ (2 * row >= TextEnd(data, start) - LineColon(data, start) - 1)
  <1>1. PICK n \in Nat : n = Len(data)
    BY GpuAssumption
  <1>2. start \in 0 .. n - 1 /\ start \in 0 .. n
    BY <1>1 DEF LineStarts
  <1>3. PICK e \in start .. n : e = TextEnd(data, start)
    BY <1>1, <1>2, TextEnds
  <1>4. PICK i \in start .. n - 1 : i = LineEnd(data, start) /\ i = IF e < n THEN e ELSE n - 1
    BY <1>1, <1>2, <1>3, LineEnds
  <1>5. LineDescribes(data, start)
    BY GpuAssumption DEF Describes
  <1>6. PICK colon \in start .. n - 1 : colon = LineColon(data, start)
    BY <1>1, ColonFound
  <1>7. (e - colon - 1) % 2 = 0
    BY <1>3, <1>5, <1>6 DEF LineDescribes
  <1>8. row \in Rows(data, start) <=> colon + 1 + 2 * row < i
    BY <1>4, <1>6 DEF Rows
  <1>9. GlyphHeight \in Nat /\ row \in Nat /\ colon \in Int /\ e \in Int /\ n \in Int
    BY <1>2, VgaGraphicsAssumption
  <1>10. colon + 1 + 2 * row < i <=> ~ (2 * row >= e - colon - 1)
    BY <1>3, <1>4, <1>7, <1>9
  <1> QED BY <1>3, <1>6, <1>8, <1>10

(* A line's rows are those of its glyph.                                     *)
LEMMA LineLoads ==
    ASSUME NEW data \in FontFiles, NEW start \in LineStarts(data), ~ (Code(data, start) >= FontSize)
    PROVE  RowsFit(data, LoadSingleCharacter(data, start, Code(data, start)))
  <1>1. LineDescribes(data, start)
    BY GpuAssumption DEF Describes
  <1>2. PICK code, f : code = Code(data, start) /\ f = LoadSingleCharacter(data, start, code)
    OBVIOUS
  <1>3. DOMAIN f = {code} \X Rows(data, start)
    BY <1>2 DEF LoadSingleCharacter
  <1>4. ASSUME NEW row \in Rows(data, start)
        PROVE  f[<<code, row>>] = Glyphs[code][row + 1]
    <2>1. row \in 0 .. GlyphHeight - 1
      BY DEF Rows
    <2>2. ~ (2 * row >= TextEnd(data, start) - LineColon(data, start) - 1)
      BY <2>1, RowsTaken
    <2>3. Glyphs[code][row + 1] =
              HexNumber(SubSeq(data, LineColon(data, start) + 2 + 2 * row,
                               LineColon(data, start) + 3 + 2 * row))
      BY <1>1, <1>2, <2>1, <2>2 DEF LineDescribes
    <2>4. f[<<code, row>>] =
              HexNumber(SubSeq(data, LineColon(data, start) + 2 + 2 * row,
                               (LineColon(data, start) + 2 + 2 * row) + 1))
      BY <1>2 DEF LoadSingleCharacter
    <2>5. (LineColon(data, start) + 2 + 2 * row) + 1 = LineColon(data, start) + 3 + 2 * row
      <3>1. PICK n \in Nat : n = Len(data)
        BY GpuAssumption
      <3>2. LineColon(data, start) \in Int /\ row \in Int
        BY <2>1, <3>1, ColonFound DEF LineStarts
      <3> QED BY <3>2
    <2> QED BY <2>3, <2>4, <2>5
  <1>5. \A c, row : <<c, row>> \in DOMAIN f => c = code /\ row \in Rows(data, start)
    BY <1>3
  <1>6. \A c, row : <<c, row>> \in DOMAIN f => f[<<c, row>>] = Glyphs[c][row + 1]
    BY <1>4, <1>5
  <1> QED BY <1>2, <1>6 DEF RowsFit

(* Line after line, what is loaded is what the file describes.               *)
LEMMA LinesLoad ==
    ASSUME NEW data \in FontFiles, NEW from, LoadedBy(from, data)
    PROVE  Loaded(data, from[0], 0)
  <1>1. PICK n \in Nat : n = Len(data)
    BY GpuAssumption
  <1> DEFINE Line0(s) == s \in LineStarts(data) \/ s = n
             Good == {k \in Nat : \A s \in 0 .. n : Line0(s) /\ n - s <= k =>
                                       Loaded(data, from[s], s)}
  <1>2. \A s \in 0 .. n : from[s] = LoadLines(from, data, s)
    BY <1>1 DEF LoadedBy
  <1>3. LineStarts(data) \subseteq 0 .. n - 1
    BY <1>1 DEF LineStarts
  <1>4. ASSUME NEW s, from[s] = << >>, \A t \in LineStarts(data) : t >= s => Code(data, t) >= FontSize
        PROVE  Loaded(data, from[s], s)
    BY <1>4 DEF Loaded, RowsFit, HasLines
  <1>5. Loaded(data, from[n], n)
    <2>1. from[n] = << >>
      BY <1>1, <1>2 DEF LoadLines
    <2>2. \A t \in LineStarts(data) : ~ (t >= n)
      BY <1>3
    <2> QED BY <1>4, <2>1, <2>2
  <1>6. 0 \in Good
    <2>1. \A s \in 0 .. n : n - s <= 0 => s = n
      OBVIOUS
    <2> HIDE DEF Line0
    <2> QED BY <1>5, <2>1
  <1>7. ASSUME NEW k \in Nat, k \in Good PROVE k + 1 \in Good
    <2>1. ASSUME NEW s \in 0 .. n, Line0(s), n - s <= k + 1 PROVE Loaded(data, from[s], s)
      <3>1. CASE s = n
        BY <1>5, <3>1
      <3>2. CASE s # n /\ Code(data, s) >= FontSize
        <4>1. s \in LineStarts(data) /\ LineDescribes(data, s)
          BY <2>1, <3>2, GpuAssumption DEF Describes
        <4>2. \A t \in LineStarts(data) : t > s => Code(data, t) >= FontSize
          BY <3>2, <4>1 DEF LineDescribes
        <4>3. \A t \in LineStarts(data) : t >= s => t = s \/ t > s
          BY <1>3
        <4>4. from[s] = << >>
          BY <1>1, <1>2, <3>2 DEF LoadLines
        <4> QED BY <1>4, <3>2, <4>2, <4>3, <4>4
      <3>3. CASE s # n /\ ~ (Code(data, s) >= FontSize)
        <4>1. s \in LineStarts(data)
          BY <2>1, <3>3
        <4>2. PICK next : /\ next = NextLine(data, s) /\ next \in s + 1 .. n
                          /\ next \in LineStarts(data) \/ next = n
                          /\ \A t \in LineStarts(data) : t > s => t >= next
          BY <1>1, <4>1, NextLines
        <4>3. Loaded(data, from[next], next)
          <5>1. next \in 0 .. n /\ n - next <= k
            BY <2>1, <4>2
          <5> QED BY <1>7, <4>2, <5>1
        <4>4. PICK g, f : /\ g = LoadSingleCharacter(data, s, Code(data, s)) /\ f = from[next]
                          /\ from[s] = Over(f, g)
          BY <1>1, <1>2, <3>3, <4>2 DEF LoadLines
        <4>5. RowsFit(data, g) /\ RowsFit(data, f) /\ HasLines(data, f, next)
          BY <3>3, <4>1, <4>3, <4>4, LineLoads DEF Loaded
        <4>6. /\ DOMAIN from[s] = DOMAIN f \cup DOMAIN g
              /\ \A x \in DOMAIN from[s] : from[s][x] = IF x \in DOMAIN f THEN f[x] ELSE g[x]
          BY <4>4 DEF Over
        <4>7. RowsFit(data, from[s])
          BY <4>5, <4>6 DEF RowsFit
        <4>8. ASSUME NEW t \in LineStarts(data), t >= s, ~ (Code(data, t) >= FontSize),
                     NEW row \in Rows(data, t)
              PROVE  <<Code(data, t), row>> \in DOMAIN from[s]
          <5>1. CASE t = s
            <6>1. DOMAIN g = {Code(data, s)} \X Rows(data, s)
              BY <4>4 DEF LoadSingleCharacter
            <6> QED BY <4>6, <4>8, <5>1, <6>1
          <5>2. CASE t # s
            <6>1. t > s /\ t >= next
              BY <1>3, <4>2, <4>8, <5>2
            <6>2. <<Code(data, t), row>> \in DOMAIN f
              BY <4>5, <4>8, <6>1 DEF HasLines
            <6> QED BY <4>6, <6>2
          <5> QED BY <5>1, <5>2
        <4>9. HasLines(data, from[s], s)
          BY <4>8 DEF HasLines
        <4> QED BY <4>7, <4>9 DEF Loaded
      <3> QED BY <3>1, <3>2, <3>3
    <2> QED BY <2>1
  <1>8. n \in Good
    <2> HIDE DEF Good
    <2> QED BY <1>6, <1>7, Induction
  <1>9. Line0(0) /\ 0 \in 0 .. n /\ n - 0 <= n
    BY <1>1 DEF LineStarts
  <1> QED BY <1>8, <1>9

(* The font that is read has the glyphs that its file describes, and blank   *)
(* ones for the rest (vgagraphics_load_font in component/vgagraphics.c).     *)
LEMMA FontsRead ==
    ASSUME NEW data \in FontFiles, NEW c \in 0 .. FontSize - 1, NEW row \in 0 .. GlyphHeight - 1
    PROVE  LoadFont(data)[<<c, row>>] = Glyphs[c][row + 1]
  <1>1. PICK from : LoadedBy(from, data)
    BY LoadFontLines
  <1>2. PICK f : f = from[0] /\ LoadFont(data) = Over(f, NoFont) /\ Loaded(data, f, 0)
    BY <1>1, LinesLoad DEF LoadedBy
  <1>3. <<c, row>> \in DOMAIN NoFont /\ NoFont[<<c, row>>] = 0
    BY DEF NoFont
  <1>4. LoadFont(data)[<<c, row>>] = IF <<c, row>> \in DOMAIN f THEN f[<<c, row>>] ELSE 0
    BY <1>2, <1>3 DEF Over
  <1>5. CASE <<c, row>> \in DOMAIN f
    BY <1>2, <1>4, <1>5 DEF Loaded, RowsFit
  <1>6. CASE <<c, row>> \notin DOMAIN f
    <2>1. Glyphs[c][row + 1] = 0
      <3>1. CASE \E t \in LineStarts(data) : Code(data, t) = c
        <4>1. PICK t \in LineStarts(data) : Code(data, t) = c
          BY <3>1
        <4>2. ~ (c >= FontSize) /\ t >= 0
          BY GpuAssumption, VgaGraphicsAssumption DEF LineStarts
        <4>3. row \notin Rows(data, t)
          BY <1>2, <1>6, <4>1, <4>2 DEF Loaded, HasLines
        <4>4. 2 * row >= TextEnd(data, t) - LineColon(data, t) - 1
          BY <4>3, RowsTaken
        <4>5. LineDescribes(data, t)
          BY GpuAssumption DEF Describes
        <4> QED BY <4>1, <4>2, <4>4, <4>5 DEF LineDescribes
      <3>2. CASE \A t \in LineStarts(data) : Code(data, t) # c
        <4>1. row + 1 \in 1 .. GlyphHeight
          BY VgaGraphicsAssumption
        <4> QED BY <3>2, <4>1, GpuAssumption DEF Describes
      <3> QED BY <3>1, <3>2
    <2> QED BY <1>4, <1>6, <2>1
  <1> QED BY <1>5, <1>6

(* The pixels of the cell at cx, cy: columns i and rows j of its glyph.      *)
Columns == 0 .. width - 1
Lines == 0 .. height - 1
Across == 0 .. GlyphWidth - 1
Down == 0 .. GlyphHeight - 1

(* The cells' glyphs fit on the screen.                                      *)
LEMMA GlyphFits ==
    ASSUME NEW cx \in Columns, NEW cy \in Lines, NEW i \in Across, NEW j \in Down
    PROVE  /\ cx * GlyphWidth + i \in 0 .. vga_width - 1
           /\ cy * GlyphHeight + j \in 0 .. vga_height - 1
           /\ PixelAt(cx, cy, i, j) \in Pixels
           /\ PixelAt(cx, cy, i, j) % vga_width = cx * GlyphWidth + i
           /\ PixelAt(cx, cy, i, j) \div vga_width = cy * GlyphHeight + j
  <1>1. /\ vga_width \in Nat \ {0} /\ vga_height \in Nat \ {0}
        /\ GlyphWidth \in Nat \ {0} /\ GlyphHeight \in Nat \ {0}
        /\ width \in Nat \ {0} /\ height \in Nat \ {0}
        /\ width = vga_width \div GlyphWidth /\ height = vga_height \div GlyphHeight
    BY VgaGraphicsAssumption, GpuAssumption
  <1>2. GlyphWidth * width <= vga_width /\ GlyphHeight * height <= vga_height
    BY <1>1
  <1>3. cx * GlyphWidth + i \in 0 .. GlyphWidth * width - 1
    BY <1>1, Grid DEF Columns, Across
  <1>4. cy * GlyphHeight + j \in 0 .. GlyphHeight * height - 1
    BY <1>1, Grid DEF Lines, Down
  <1>5. PICK x \in 0 .. vga_width - 1, y \in 0 .. vga_height - 1 :
            x = cx * GlyphWidth + i /\ y = cy * GlyphHeight + j
    <2>1. PICK a \in Nat, b \in Nat : a = GlyphWidth * width /\ b = GlyphHeight * height
      BY <1>1
    <2> QED BY <1>1, <1>2, <1>3, <1>4, <2>1
  <1>6. y * vga_width + x \in Pixels
    BY <1>1, Grid DEF Pixels
  <1>7. (y * vga_width + x) \div vga_width = y /\ (y * vga_width + x) % vga_width = x
    BY <1>1, Grid
  <1> QED BY <1>5, <1>6, <1>7 DEF PixelAt

(* The picture of a cell, as IsSet reads the glyph that the font holds.      *)
Lit(c, i, j) == IsSet(Glyph(c)[j + 1], i)
Dot(cell, i, j) == (IF Lit(cell.character, i, j) THEN cell.foreground ELSE cell.background) % IntMod
ShowsAt(cx, cy, i, j) == video_memory[PixelAt(cx, cy, i, j)] = Dot(stored[At(cx, cy)], i, j)
PixelMirror ==
    \A cx \in Columns, cy \in Lines, i \in Across, j \in Down :
        At(cx, cy) \notin disturbed => ShowsAt(cx, cy, i, j)

(* It is the picture that Mirror speaks of.                                  *)
LEMMA PictureIsDot ==
    ASSUME NEW cx \in Columns, NEW cy \in Lines, NEW i \in Across, NEW j \in Down
    PROVE  Picture(PixelAt(cx, cy, i, j)) = Dot(stored[At(cx, cy)], i, j)
  <1>1. /\ GlyphWidth \in Nat \ {0} /\ GlyphHeight \in Nat \ {0} /\ cx \in Int /\ cy \in Int
        /\ (2 ^ GlyphWidth) \div (2 ^ (i + 1)) = 2 ^ (GlyphWidth - 1 - i)
    BY VgaGraphicsAssumption, Cells DEF Across, Columns, Lines
  <1>2. PICK p : p = PixelAt(cx, cy, i, j)
    OBVIOUS
  <1>3. p % vga_width = cx * GlyphWidth + i /\ p \div vga_width = cy * GlyphHeight + j
    BY <1>2, GlyphFits
  <1>4. /\ (cx * GlyphWidth + i) \div GlyphWidth = cx /\ (cx * GlyphWidth + i) % GlyphWidth = i
        /\ (cy * GlyphHeight + j) \div GlyphHeight = cy /\ (cy * GlyphHeight + j) % GlyphHeight = j
    BY <1>1, Grid DEF Across, Down
  <1>5. Picture(p) =
            (IF (Glyph(stored[At(cx, cy)].character)[j + 1] \div (2 ^ (GlyphWidth - 1 - i))) % 2 = 1
             THEN stored[At(cx, cy)].foreground ELSE stored[At(cx, cy)].background) % IntMod
    BY <1>1, <1>3, <1>4 DEF Picture
  <1> QED BY <1>2, <1>5 DEF Dot, Lit, IsSet

LEMMA MirrorOfPixels == driver # "text" /\ PixelMirror => Mirror
  <1> SUFFICES ASSUME driver # "text", PixelMirror,
                      NEW x \in 0 .. width * GlyphWidth - 1, NEW y \in 0 .. height * GlyphHeight - 1,
                      At(x \div GlyphWidth, y \div GlyphHeight) \notin disturbed
               PROVE  video_memory[y * vga_width + x] = Picture(y * vga_width + x)
    BY DEF Mirror
  <1>1. /\ GlyphWidth \in Nat \ {0} /\ GlyphHeight \in Nat \ {0}
        /\ width \in Nat \ {0} /\ height \in Nat \ {0}
    BY VgaGraphicsAssumption, Cells
  <1>2. \A s \in Nat \ {0}, n \in Nat \ {0} : \A z \in 0 .. n * s - 1 :
            \E c \in 0 .. n - 1, d \in 0 .. s - 1 : z = c * s + d
    <2>1. ASSUME NEW s \in Nat \ {0}, NEW n \in Nat \ {0}, NEW z \in 0 .. n * s - 1
          PROVE  \E c \in 0 .. n - 1, d \in 0 .. s - 1 : z = c * s + d
      <3>1. PICK c \in Int, d \in 0 .. s - 1 : z = c * s + d
        <4>1. z \div s \in Int /\ z % s \in 0 .. s - 1 /\ z = (z \div s) * s + (z % s)
          OBVIOUS
        <4> QED BY <4>1
      <3>2. c >= 0
        <4>1. c < 0 => c * s + s <= 0
          <5>1. c < 0 => c * s + s <= 0 * s
            BY Products
          <5> QED BY <5>1
        <4> QED BY <3>1, <4>1
      <3>3. c < n
        <4>1. PICK a \in Int, b \in Int : a = c * s /\ b = n * s
          OBVIOUS
        <4>2. n < c => b + s <= a
          BY <4>1, Products
        <4>3. n = c => a = b
          BY <4>1
        <4>4. a + d <= b - 1 /\ d >= 0
          BY <3>1, <4>1
        <4> QED BY <4>2, <4>3, <4>4
      <3>4. c \in 0 .. n - 1
        BY <3>2, <3>3
      <3> QED BY <3>1, <3>4, Zenon
    <2> QED BY <2>1
  <1>3. PICK cx \in Columns, i \in Across : x = cx * GlyphWidth + i
    BY <1>1, <1>2 DEF Columns, Across
  <1>4. PICK cy \in Lines, j \in Down : y = cy * GlyphHeight + j
    BY <1>1, <1>2 DEF Lines, Down
  <1>5. y * vga_width + x = PixelAt(cx, cy, i, j)
    BY <1>3, <1>4 DEF PixelAt
  <1>6. ShowsAt(cx, cy, i, j)
    <2>1. \A s \in Nat \ {0} : \A c \in Int, d \in 0 .. s - 1 : (c * s + d) \div s = c
      OBVIOUS
    <2>2. x \div GlyphWidth = cx /\ y \div GlyphHeight = cy
      BY <1>1, <1>3, <1>4, <2>1 DEF Columns, Across, Lines, Down
    <2> QED BY <2>2 DEF PixelMirror
  <1> QED BY <1>5, <1>6, PictureIsDot DEF ShowsAt

-----------------------------------------------------------------------------
(* The driver's set draws the glyph into the pixels of its cell, and no      *)
(* other's.                                                                  *)
Colored(on, fg, bg) == (IF on THEN fg ELSE bg) % IntMod

RowsOf(f, c, rows) == \A j \in Down : f[<<c % FontSize, j>>] = rows[j + 1]
Drew(new, old, x, y, rows, fg, bg) ==
    \A cx \in Columns, cy \in Lines, i \in Across, j \in Down :
        new[PixelAt(cx, cy, i, j)] =
            IF cx = x /\ cy = y THEN Colored(IsSet(rows[j + 1], i), fg, bg)
            ELSE old[PixelAt(cx, cy, i, j)]

LEMMA GlyphPixels ==
    ASSUME NEW buffer, NEW f, NEW x \in Columns, NEW y \in Lines, NEW c, NEW fg, NEW bg,
           NEW rows, RowsOf(f, c, rows)
    PROVE  Drew(SetGlyph(buffer, f, x, y, c, fg, bg), buffer, x, y, rows, fg, bg)
  <1> SUFFICES ASSUME NEW cx \in Columns, NEW cy \in Lines, NEW i \in Across, NEW j \in Down
               PROVE  SetGlyph(buffer, f, x, y, c, fg, bg)[PixelAt(cx, cy, i, j)] =
                          IF cx = x /\ cy = y THEN Colored(IsSet(rows[j + 1], i), fg, bg)
                          ELSE buffer[PixelAt(cx, cy, i, j)]
    BY DEF Drew
  <1>1. /\ GlyphWidth \in Nat \ {0} /\ GlyphHeight \in Nat \ {0}
        /\ x \in Int /\ y \in Int /\ cx \in Int /\ cy \in Int
    BY VgaGraphicsAssumption, Cells DEF Columns, Lines
  <1>2. PICK p \in Pixels, px \in Int, py \in Int :
            /\ p = PixelAt(cx, cy, i, j) /\ px = cx * GlyphWidth + i /\ py = cy * GlyphHeight + j
            /\ p % vga_width = px /\ p \div vga_width = py
    BY GlyphFits
  <1>3. PICK left \in Int, top \in Int : left = x * GlyphWidth /\ top = y * GlyphHeight
    BY <1>1
  <1>4. px \in left .. left + GlyphWidth - 1 <=> cx = x
    <2>1. cx = x => px = left + i
      BY <1>2, <1>3
    <2>2. ASSUME px \in left .. left + GlyphWidth - 1 PROVE cx = x
      <3>1. PICK d \in Across : px = left + d
        <4>1. px - left \in Across /\ px = left + (px - left)
          BY <1>1, <2>2 DEF Across
        <4> QED BY <4>1
      <3>2. cx * GlyphWidth + i = x * GlyphWidth + d
        BY <1>2, <1>3, <3>1
      <3> QED BY <1>1, <3>2, Grid DEF Across
    <2> QED BY <1>1, <2>1, <2>2 DEF Across
  <1>5. py \in top .. top + GlyphHeight - 1 <=> cy = y
    <2>1. cy = y => py = top + j
      BY <1>2, <1>3
    <2>2. ASSUME py \in top .. top + GlyphHeight - 1 PROVE cy = y
      <3>1. PICK d \in Down : py = top + d
        <4>1. py - top \in Down /\ py = top + (py - top)
          BY <1>1, <2>2 DEF Down
        <4> QED BY <4>1
      <3>2. cy * GlyphHeight + j = y * GlyphHeight + d
        BY <1>2, <1>3, <3>1
      <3> QED BY <1>1, <3>2, Grid DEF Down
    <2> QED BY <1>1, <2>1, <2>2 DEF Down
  <1>6. cx = x /\ cy = y => px - left = i /\ py - top = j
    BY <1>1, <1>2, <1>3 DEF Across, Down
  <1> DEFINE Inked == /\ px \in left .. left + GlyphWidth - 1
                      /\ py \in top .. top + GlyphHeight - 1
                      /\ IsSet(f[<<c % FontSize, py - top>>], px - left)
             Cleared == px \in left .. left + GlyphWidth - 1 /\ py \in top .. top + GlyphHeight - 1
  <1>7. SetGlyph(buffer, f, x, y, c, fg, bg)[p] =
            IF Inked THEN fg % IntMod ELSE IF Cleared THEN bg % IntMod ELSE buffer[p]
    BY <1>2, <1>3 DEF SetGlyph, Rect
  <1>8. CASE cx = x /\ cy = y
    <2>1. Cleared /\ (Inked <=> IsSet(rows[j + 1], i))
      BY <1>4, <1>5, <1>6, <1>8 DEF RowsOf
    <2> QED BY <1>2, <1>7, <1>8, <2>1 DEF Colored
  <1>9. CASE ~ (cx = x /\ cy = y)
    <2>1. ~ Cleared /\ ~ Inked
      BY <1>4, <1>5, <1>9
    <2> QED BY <1>2, <1>7, <1>9, <2>1
  <1> QED BY <1>8, <1>9

(* Every address is a cell of the screen.                                    *)
LEMMA CellOfAddress ==
    ASSUME NEW a \in Address
    PROVE  a % width \in Columns /\ a \div width \in Lines /\ a = At(a % width, a \div width)
  <1>1. width \in Nat \ {0} /\ height \in Nat \ {0} /\ a \in Int /\ a >= 0 /\ a <= width * height - 1
    BY Cells DEF Address
  <1>2. PICK q \in Int, r \in 0 .. width - 1 : q = a \div width /\ r = a % width /\ a = q * width + r
    <2>1. a \div width \in Int /\ a % width \in 0 .. width - 1 /\ a = (a \div width) * width + (a % width)
      BY <1>1
    <2> QED BY <2>1
  <1>3. q >= 0
    <2>1. q < 0 => q * width + width <= 0 * width
      BY <1>1, Products
    <2> QED BY <1>1, <1>2, <2>1
  <1>4. q < height
    <2>1. PICK b \in Int, t \in Int : b = q * width /\ t = height * width /\ t = width * height
      BY <1>1
    <2>2. height < q => t + width <= b
      BY <1>1, <2>1, Products
    <2>3. height = q => t = b
      BY <2>1
    <2> QED BY <1>1, <1>2, <2>1, <2>2, <2>3
  <1> QED BY <1>1, <1>2, <1>3, <1>4 DEF At, Columns, Lines

(* What is drawn shows in the pixels of its cells, and only there.           *)
LEMMA DrawnPixels ==
    ASSUME NEW drawn, DOMAIN drawn \subseteq Address, driver # "text",
           IsArray(video_memory, Pixels), NEW fg, NEW bg, NEW G,
           \A a \in DOMAIN drawn : RowsOf(font, drawn[a], G[a]),
           NEW cx \in Columns, NEW cy \in Lines, NEW i \in Across, NEW j \in Down
    PROVE  Set(drawn, fg, bg)[PixelAt(cx, cy, i, j)] =
               IF At(cx, cy) \in DOMAIN drawn
               THEN Colored(IsSet(G[At(cx, cy)][j + 1], i), fg, bg)
               ELSE video_memory[PixelAt(cx, cy, i, j)]
  <1>1. PICK it : DrawSteps(it, drawn, fg, bg)
    BY DrawStepsExist
  <1>2. PICK S, at, p : S = DOMAIN drawn /\ at = At(cx, cy) /\ p = PixelAt(cx, cy, i, j)
    OBVIOUS
  <1> DEFINE Shown(s) == it[s][p] = IF at \in s THEN Colored(IsSet(G[at][j + 1], i), fg, bg)
                                    ELSE video_memory[p]
             Good == {k \in Nat : \A s \in SUBSET S : Cardinality(s) = k => Shown(s)}
  <1>3. IsFiniteSet(S) /\ \A s \in SUBSET S : IsFiniteSet(s) /\ Cardinality(s) \in Nat
    BY <1>2, Cells, FS_Subset, FS_CardinalityType
  <1>4. 0 \in Good
    <2>1. ASSUME NEW s \in SUBSET S, Cardinality(s) = 0 PROVE Shown(s)
      <3>1. s = {}
        BY <1>3, <2>1, FS_EmptySet
      <3>2. it[s] = video_memory
        BY <1>1, <1>2, <3>1 DEF DrawSteps, DrawStep
      <3> QED BY <3>1, <3>2
    <2> QED BY <2>1
  <1>5. ASSUME NEW k \in Nat, k \in Good PROVE k + 1 \in Good
    <2>1. ASSUME NEW s \in SUBSET S, Cardinality(s) = k + 1 PROVE Shown(s)
      <3> PICK size : size = Cardinality(s)
        OBVIOUS
      <3>0. size = k + 1 /\ size # 0 /\ size - 1 = k
        BY <1>5, <2>1
      <3>1. s # {}
        BY <1>3, <3>0, FS_EmptySet
      <3>2. PICK a \in s : a = CHOOSE b \in s : TRUE
        BY <3>1
      <3>3. Cardinality(s \ {a}) = k /\ s \ {a} \in SUBSET S
        <4>1. IsFiniteSet(s) /\ s \ {a} \in SUBSET S
          BY <1>3
        <4>2. Cardinality(s \ {a}) = Cardinality(s) - 1
          BY <4>1, FS_RemoveElement
        <4> QED BY <3>0, <4>1, <4>2
      <3>4. Shown(s \ {a})
        BY <1>5, <3>3
      <3>5. it[s] = SetGlyph(it[s \ {a}], font, a % width, a \div width, drawn[a], fg, bg)
        BY <1>1, <1>2, <3>1, <3>2 DEF DrawSteps, DrawStep
      <3>6. a \in Address /\ a \in DOMAIN drawn
        BY <1>2
      <3>7. PICK x \in Columns, y \in Lines : x = a % width /\ y = a \div width /\ a = At(x, y)
        BY <3>6, CellOfAddress
      <3>8. RowsOf(font, drawn[a], G[a])
        BY <3>6
      <3>9. it[s][p] = IF cx = x /\ cy = y THEN Colored(IsSet(G[a][j + 1], i), fg, bg)
                       ELSE it[s \ {a}][p]
        <4>1. PICK rows, c, buffer : rows = G[a] /\ c = drawn[a] /\ buffer = it[s \ {a}]
          OBVIOUS
        <4>2. RowsOf(font, c, rows)
          BY <3>8, <4>1
        <4>3. Drew(SetGlyph(buffer, font, x, y, c, fg, bg), buffer, x, y, rows, fg, bg)
          BY <4>2, GlyphPixels
        <4>4. it[s] = SetGlyph(buffer, font, x, y, c, fg, bg)
          BY <3>5, <3>7, <4>1
        <4> QED BY <1>2, <4>1, <4>3, <4>4 DEF Drew
      <3>10. cx = x /\ cy = y <=> at = a
        BY <1>2, <3>7, Cells DEF Columns, Lines
      <3> QED BY <3>4, <3>9, <3>10
    <2> QED BY <2>1
  <1>6. Cardinality(S) \in Good
    <2> HIDE DEF Good
    <2> QED BY <1>3, <1>4, <1>5, Induction
  <1>7. Shown(S)
    BY <1>6
  <1> QED BY <1>1, <1>2, <1>7 DEF DrawSteps

(* Without columns or rows nothing moves.                                    *)
LEMMA CopiedNothing ==
    ASSUME NEW columns \in Spans, NEW rows \in Spans, columns.length <= 0 \/ rows.length <= 0,
           NEW stride \in Int, NEW D, NEW f, IsArray(f, D)
    PROVE  MoveRows(f, stride, columns, rows) = f
  <1>1. PICK n \in Nat : /\ 1 .. n = 1 .. rows.length /\ (rows.length <= 0 => n = 0)
                         /\ \A k \in 1 .. n : RowOrder(rows)[k] \in 0 .. rows.length - 1
    <2>1. PICK n \in Nat : /\ 1 .. n = 1 .. rows.length
                           /\ \A k \in 1 .. n : RowOrder(rows)[k] \in 0 .. rows.length - 1
      BY RowOrderRange
    <2>2. rows.length <= 0 => n = 0
      <3>1. rows.length \in Int
        BY DEF Spans
      <3>2. n # 0 => 1 \in 1 .. n
        OBVIOUS
      <3>3. rows.length <= 0 => 1 \notin 1 .. rows.length
        BY <3>1
      <3> QED BY <2>1, <3>2, <3>3
    <2> QED BY <2>1, <2>2
  <1>2. PICK m : MoveSteps(m, n, f, stride, columns, rows)
    BY <1>1, MoveRowsSteps
  <1> USE DEF MoveSteps
  <1>3. CASE rows.length <= 0
    BY <1>1, <1>2, <1>3
  <1>4. CASE columns.length <= 0
    <2> DEFINE Same == {k \in Nat : k <= n => m[k] = f}
    <2>1. 0 \in Same
      BY <1>2
    <2>2. ASSUME NEW k \in Nat, k \in Same PROVE k + 1 \in Same
      <3>1. SUFFICES ASSUME k + 1 <= n PROVE m[k + 1] = f
        OBVIOUS
      <3>2. k + 1 \in 1 .. n /\ (k + 1) - 1 = k /\ m[k] = f
        BY <2>2, <3>1
      <3>3. m[k + 1] = MoveRow(f, stride, columns, rows, RowOrder(rows)[k + 1])
        BY <1>2, <3>2
      <3>4. MoveRow(f, stride, columns, rows, RowOrder(rows)[k + 1]) = f
        <4>1. PICK to, from, i : /\ i = RowOrder(rows)[k + 1]
                                 /\ to = (rows.target + i) * stride + columns.target
                                 /\ from = (rows.from + i) * stride + columns.from
          OBVIOUS
        <4>2. MemMove(f, to, from, columns.length) = f
          <5>1. \A a \in D : a \notin to .. to + columns.length - 1
            <6>1. i \in Int /\ rows.target \in Int /\ columns.target \in Int /\ columns.length \in Int
              BY <1>1, <3>2, <4>1 DEF Spans
            <6>2. PICK r \in Int : r = rows.target + i
              BY <6>1
            <6>3. to \in Int
              BY <4>1, <6>1, <6>2
            <6> QED BY <1>4, <6>1, <6>3
          <5> QED BY <5>1 DEF MemMove, IsArray
        <4> QED BY <4>1, <4>2 DEF MoveRow
      <3> QED BY <3>3, <3>4
    <2> HIDE DEF Same
    <2>3. n \in Same
      BY <2>1, <2>2, Induction
    <2> QED BY <1>2, <2>3 DEF Same
  <1> QED BY <1>3, <1>4 DEF Spans

(* A place is in a range of glyphs exactly if its cell is in the range.      *)
LEMMA ScaledRange ==
    ASSUME NEW s \in Nat \ {0}, NEW c \in Int, NEW t \in Int, NEW n \in Int, NEW i \in 0 .. s - 1
    PROVE  c * s + i \in t * s .. t * s + n * s - 1 <=> c \in t .. t + n - 1
  <1>1. PICK a \in Int, b \in Int, e \in Int, u \in Int :
            a = c * s /\ b = t * s /\ e = n * s /\ u = (t + n) * s /\ u = b + e
    OBVIOUS
  <1>2. /\ c < t => a + s <= b
        /\ t < c => b + s <= a
        /\ c < t + n => a + s <= u
        /\ t + n < c => u + s <= a
    BY <1>1, Products
  <1>3. (c = t => a = b) /\ (c = t + n => a = u)
    BY <1>1
  <1>4. a + i \in b .. b + e - 1 <=> c \in t .. t + n - 1
    BY <1>1, <1>2, <1>3
  <1> QED BY <1>1, <1>4

(* On the graphics screen a copy moves whole glyphs.                         *)
LEMMA CopiedPixels ==
    ASSUME NEW columns \in Spans, NEW rows \in Spans, columns.length > 0, rows.length > 0,
           InScreen(columns, width), InScreen(rows, height), NEW f, IsArray(f, Pixels),
           NEW cx \in Columns, NEW cy \in Lines, NEW i \in Across, NEW j \in Down
    PROVE  MoveRows(f, vga_width, Scaled(columns, GlyphWidth), Scaled(rows, GlyphHeight))
                   [PixelAt(cx, cy, i, j)] =
               IF /\ cx \in columns.target .. columns.target + columns.length - 1
                  /\ cy \in rows.target .. rows.target + rows.length - 1
               THEN f[PixelAt(cx - columns.target + columns.from, cy - rows.target + rows.from, i, j)]
               ELSE f[PixelAt(cx, cy, i, j)]
  <1>1. PICK ct \in Int, cf \in Int, cl \in Int, rt \in Int, rf \in Int, rl \in Int :
            /\ ct = columns.target /\ cf = columns.from /\ cl = columns.length
            /\ rt = rows.target /\ rf = rows.from /\ rl = rows.length
    BY DEF Spans
  <1>2. /\ vga_width \in Nat \ {0} /\ vga_height \in Nat \ {0}
        /\ GlyphWidth \in Nat \ {0} /\ GlyphHeight \in Nat \ {0}
        /\ width \in Nat /\ height \in Nat
        /\ width * GlyphWidth <= vga_width /\ height * GlyphHeight <= vga_height
    BY GlyphGrid, Cells
  <1>3. PICK C \in Spans, R \in Spans :
            C = Scaled(columns, GlyphWidth) /\ R = Scaled(rows, GlyphHeight)
            /\ InScreen(C, vga_width) /\ InScreen(R, vga_height)
    BY <1>2, ScaledInScreen
  <1>4. /\ C.from = cf * GlyphWidth /\ C.target = ct * GlyphWidth /\ C.length = cl * GlyphWidth
        /\ R.from = rf * GlyphHeight /\ R.target = rt * GlyphHeight /\ R.length = rl * GlyphHeight
    BY <1>1, <1>3 DEF Scaled, Span
  <1>5. C.length > 0 /\ R.length > 0
    BY <1>1, <1>2, <1>4
  <1>6. PICK x \in 0 .. vga_width - 1, y \in 0 .. vga_height - 1 :
            /\ x = cx * GlyphWidth + i /\ y = cy * GlyphHeight + j
            /\ Spot(vga_width, x, y) = PixelAt(cx, cy, i, j)
    BY GlyphFits DEF Spot, PixelAt
  <1>7. MoveRows(f, vga_width, C, R)[Spot(vga_width, x, y)] =
            IF /\ x \in C.target .. C.target + C.length - 1
               /\ y \in R.target .. R.target + R.length - 1
            THEN f[Spot(vga_width, x - C.target + C.from, y - R.target + R.from)]
            ELSE f[Spot(vga_width, x, y)]
    BY <1>2, <1>3, <1>5, CopiedGrid DEF Pixels
  <1>8. x \in C.target .. C.target + C.length - 1 <=> cx \in ct .. ct + cl - 1
    BY <1>2, <1>4, <1>6, ScaledRange DEF Across, Columns
  <1>9. y \in R.target .. R.target + R.length - 1 <=> cy \in rt .. rt + rl - 1
    BY <1>2, <1>4, <1>6, ScaledRange DEF Down, Lines
  <1>10. /\ x - C.target + C.from = (cx - ct + cf) * GlyphWidth + i
         /\ y - R.target + R.from = (cy - rt + rf) * GlyphHeight + j
    BY <1>2, <1>4, <1>6 DEF Across, Columns, Down, Lines
  <1>11. Spot(vga_width, x - C.target + C.from, y - R.target + R.from)
             = PixelAt(cx - ct + cf, cy - rt + rf, i, j)
    BY <1>10 DEF Spot, PixelAt
  <1> QED BY <1>1, <1>3, <1>6, <1>7, <1>8, <1>9, <1>11

-----------------------------------------------------------------------------
(* The characters that a string is read as are characters.                   *)
LEMMA ReadableCharacters ==
    ASSUME NEW string \in Seq(Characters \cup {Invalid}), NEW n \in 0 .. Readable(string) - 1
    PROVE  string[n + 1] \in Characters
  <1> DEFINE I == {i \in 1 .. Len(string) : string[i] = Invalid}
  <1>1. Len(string) \in Nat /\ \A i \in 1 .. Len(string) : string[i] \in Characters \cup {Invalid}
    OBVIOUS
  <1>2. Readable(string) = IF (IF I # {} THEN Min(I) ELSE 0) = 0 THEN Len(string)
                           ELSE (IF I # {} THEN Min(I) ELSE 0) - 1
    BY DEF Readable, SelectInSeq
  <1>3. CASE I = {}
    <2>1. Readable(string) = Len(string)
      BY <1>2, <1>3
    <2>2. n + 1 \in 1 .. Len(string)
      BY <1>1, <2>1
    <2> QED BY <1>1, <1>3, <2>2
  <1>4. CASE I # {}
    <2>1. I \in SUBSET Nat
      OBVIOUS
    <2>2. PICK bad \in I : bad = Min(I) /\ \A y \in I : bad <= y
      <3> HIDE DEF I
      <3> QED BY <1>4, <2>1, Minima
    <2>3. bad \in 1 .. Len(string)
      OBVIOUS
    <2>4. Readable(string) = bad - 1
      <3> HIDE DEF I
      <3>1. bad # 0
        BY <2>3
      <3> QED BY <1>2, <1>4, <2>2, <3>1
    <2>5. n + 1 \in 1 .. Len(string) /\ n + 1 < bad
      BY <1>1, <2>3, <2>4
    <2>6. n + 1 \notin I
      BY <2>2, <2>5
    <2> QED BY <1>1, <2>5, <2>6
  <1> QED BY <1>3, <1>4

LEMMA LineCharacters ==
    ASSUME NEW x, NEW y, NEW string \in Seq(Characters \cup {Invalid}), NEW vertical,
           NEW a \in DOMAIN Line(x, y, string, vertical)
    PROVE  Line(x, y, string, vertical)[a] \in Characters
  <1> DEFINE X(n) == IF vertical THEN x ELSE x + n
             Y(n) == IF vertical THEN y + n ELSE y
             seen == {n \in 0 .. Readable(string) - 1 : OnScreen(X(n), Y(n))}
  <1>1. Line(x, y, string, vertical) =
            [b \in {At(X(n), Y(n)) : n \in seen} |->
                string[(CHOOSE n \in seen : At(X(n), Y(n)) = b) + 1]]
    BY DEF Line
  <1>2. a \in {At(X(n), Y(n)) : n \in seen}
    BY <1>1
  <1>3. PICK n \in seen : n = CHOOSE m \in seen : At(X(m), Y(m)) = a
    BY <1>2
  <1>4. Line(x, y, string, vertical)[a] = string[n + 1]
    BY <1>1, <1>2, <1>3
  <1> QED BY <1>4, ReadableCharacters

LEMMA MessageCharacters ==
    ASSUME NEW message \in Messages, NEW a \in Address
    PROVE  Message(message)[a] \in Characters
  <1> DEFINE seen == {n \in DOMAIN message : message[n] \notin {Newline, Gap} /\ Place(message, n)[2] < height}
             Where(n) == At(Place(message, n)[1], Place(message, n)[2])
  <1>1. message \in Seq(Characters \cup {Newline, Gap}) /\ Space \in Characters
    BY GpuAssumption
  <1>2. \A n \in seen : message[n] \in Characters
    BY <1>1
  <1>3. Message(message)[a] = IF \E n \in seen : Where(n) = a
                              THEN message[CHOOSE n \in seen : Where(n) = a] ELSE Space
    BY DEF Message
  <1>4. CASE \E n \in seen : Where(n) = a
    <2>1. (CHOOSE n \in seen : Where(n) = a) \in seen
      BY <1>4
    <2> HIDE DEF seen, Where
    <2> QED BY <1>2, <1>3, <1>4, <2>1
  <1> QED BY <1>1, <1>3, <1>4

(* Whichever call draws.                                                     *)
LEMMA DrawnCharacters ==
    /\ \A x, y, vertical : \A string \in Strings : \A a \in DOMAIN Drawn(x, y, string, vertical) :
           Drawn(x, y, string, vertical)[a] \in Characters
    /\ \A x, y, w, h : \A c \in Characters \cup {Invalid} : \A a \in DOMAIN Filled(x, y, w, h, c) :
           Filled(x, y, w, h, c)[a] \in Characters
    /\ \A message \in Messages, a \in Address : Message(message)[a] \in Characters
  <1>1. ASSUME NEW x, NEW y, NEW vertical, NEW string \in Strings,
               NEW a \in DOMAIN Drawn(x, y, string, vertical)
        PROVE  Drawn(x, y, string, vertical)[a] \in Characters
    <2>1. string \in Seq(Characters \cup {Invalid})
      BY GpuAssumption
    <2>2. Drawn(x, y, string, vertical) = Line(x, y, string, vertical)
      BY DEF Drawn
    <2> QED BY <2>1, <2>2, LineCharacters
  <1>2. ASSUME NEW x, NEW y, NEW w, NEW h, NEW c \in Characters \cup {Invalid},
               NEW a \in DOMAIN Filled(x, y, w, h, c)
        PROVE  Filled(x, y, w, h, c)[a] \in Characters
    <2>1. /\ c # Invalid
          /\ Filled(x, y, w, h, c) = Rectangle(x, y, IntSum(x, w), IntSum(y, h), c)
      BY DEF Filled
    <2>2. Rectangle(x, y, IntSum(x, w), IntSum(y, h), c)[a] = c
      <3>1. \A S : \A b \in DOMAIN [e \in S |-> c] : [e \in S |-> c][b] = c
        OBVIOUS
      <3>2. \E S : Rectangle(x, y, IntSum(x, w), IntSum(y, h), c) = [e \in S |-> c]
        <4> DEFINE S == {At(u, v) : u \in Max({x, 0}) .. Min({IntSum(x, w), width}) - 1,
                                    v \in Max({y, 0}) .. Min({IntSum(y, h), height}) - 1}
        <4>1. Rectangle(x, y, IntSum(x, w), IntSum(y, h), c) = [e \in S |-> c]
          BY DEF Rectangle
        <4> HIDE DEF S
        <4> QED BY <4>1
      <3> QED BY <2>1, <3>1, <3>2
    <2> QED BY <2>1, <2>2
  <1> QED BY <1>1, <1>2, MessageCharacters

-----------------------------------------------------------------------------
(* On the graphics screen: what is stored are characters that the font may   *)
(* have, blank ones until it is read; the font is the file's, or empty; and  *)
(* each pixel is that of its cell's glyph.                                   *)
Kept == \A a \in Address : stored[a].character \in Characters
Blank == font_hex = "not read" => \A a \in Address : stored[a].character = Space
Font ==
    IF font_hex = "found" THEN \E data \in FontFiles : font = LoadFont(data) ELSE font = NoFont
Graphics == driver = "graphics" => Kept /\ Blank /\ Font /\ PixelMirror

(* The font has the glyph of every character.                                *)
LEMMA FontHasGlyphs ==
    ASSUME Font, NEW c \in Characters
    PROVE  RowsOf(font, c, Glyph(c))
  <1>1. c \in Nat /\ FontSize \in Nat \ {0} /\ GlyphHeight \in Nat \ {0}
    BY GpuAssumption, VgaGraphicsAssumption
  <1>2. PICK k \in 0 .. FontSize - 1 : k = c % FontSize
    BY <1>1
  <1>3. CASE font_hex = "found"
    <2>1. \A j \in Down : font[<<k, j>>] = Glyphs[k][j + 1]
      BY <1>2, <1>3, FontsRead DEF Font, Down
    <2> QED BY <1>2, <1>3, <2>1 DEF RowsOf, Glyph
  <1>4. CASE font_hex # "found"
    <2>1. \A j \in Down : font[<<k, j>>] = 0
      BY <1>4 DEF Font, NoFont, Down
    <2>2. \A j \in Down : [row \in 1 .. GlyphHeight |-> 0][j + 1] = 0
      BY <1>1 DEF Down
    <2> QED BY <1>2, <1>4, <2>1, <2>2 DEF RowsOf, Glyph
  <1> QED BY <1>3, <1>4

(* Nothing of a blank glyph is lit.                                          *)
LEMMA BlankIsDark ==
    ASSUME NEW i \in Across, NEW j \in Down
    PROVE  ~ Lit(Space, i, j)
  <1>1. PICK power \in Nat \ {0} : power = 2 ^ (GlyphWidth - 1 - i)
    <2>1. GlyphWidth - 1 - i \in 0 .. GlyphWidth - 1
      BY VgaGraphicsAssumption DEF Across
    <2> QED BY <2>1, VgaGraphicsAssumption
  <1>2. Glyph(Space)[j + 1] = 0
    <2>1. Glyph(Space) = [row \in 1 .. GlyphHeight |-> 0]
      BY GpuAssumption DEF Glyph
    <2>2. j + 1 \in 1 .. GlyphHeight
      BY VgaGraphicsAssumption DEF Down
    <2> QED BY <2>1, <2>2
  <1>3. 0 \div power = 0 /\ 0 % 2 # 1
    BY <1>1
  <1> QED BY <1>1, <1>2, <1>3 DEF Lit, IsSet

(* Drawing keeps the pixels those of the cells.                              *)
LEMMA DrawGraphics ==
    ASSUME Shape, driver = "graphics", NEW drawn, DOMAIN drawn \subseteq Address,
           NEW fg, NEW bg, DrawIn(drawn, fg, bg),
           \A a \in DOMAIN drawn : RowsOf(font, drawn[a], Glyph(drawn[a])'),
           DOMAIN drawn = Address \/ (PixelMirror /\ font_hex' = font_hex)
    PROVE  PixelMirror'
  <1> SUFFICES ASSUME NEW cx \in Columns, NEW cy \in Lines, NEW i \in Across, NEW j \in Down,
                      At(cx, cy) \notin disturbed'
               PROVE  ShowsAt(cx, cy, i, j)'
    BY DEF PixelMirror
  <1>1. PICK G : G = [a \in DOMAIN drawn |-> Glyph(drawn[a])']
    OBVIOUS
  <1>2. PICK at, p : at \in Address /\ at = At(cx, cy) /\ p = PixelAt(cx, cy, i, j)
    BY Cells DEF Columns, Lines
  <1>3. video_memory' = Set(drawn, fg, bg) /\ IsArray(video_memory, Pixels)
    BY DEF DrawIn, Shape
  <1>4. video_memory'[p] = IF at \in DOMAIN drawn THEN Colored(IsSet(G[at][j + 1], i), fg, bg)
                           ELSE video_memory[p]
    <2>1. \A a \in DOMAIN drawn : RowsOf(font, drawn[a], G[a])
      BY <1>1
    <2>2. Set(drawn, fg, bg)[PixelAt(cx, cy, i, j)] =
              IF At(cx, cy) \in DOMAIN drawn
              THEN Colored(IsSet(G[At(cx, cy)][j + 1], i), fg, bg)
              ELSE video_memory[PixelAt(cx, cy, i, j)]
      BY <1>3, <2>1, DrawnPixels
    <2> QED BY <1>2, <1>3, <2>2
  <1>5. stored'[at] = IF at \in DOMAIN drawn THEN Cell(drawn[at], fg, bg) ELSE stored[at]
    BY <1>2 DEF DrawIn
  <1>6. CASE at \in DOMAIN drawn
    <2>1. G[at] = Glyph(drawn[at])' /\ stored'[at] = Cell(drawn[at], fg, bg)
      BY <1>1, <1>5, <1>6
    <2>2. Dot(stored[at], i, j)' = Colored(IsSet(G[at][j + 1], i), fg, bg)
      BY <2>1 DEF Dot, Lit, Cell, Colored, Glyph
    <2> QED BY <1>2, <1>4, <1>6, <2>2 DEF ShowsAt
  <1>7. CASE at \notin DOMAIN drawn
    <2>1. font_hex' = font_hex /\ ShowsAt(cx, cy, i, j)
      <3>1. At(cx, cy) \notin disturbed
        BY <1>2, <1>7 DEF DrawIn
      <3> QED BY <1>2, <1>7, <3>1 DEF PixelMirror
    <2>2. stored'[at] = stored[at] /\ video_memory'[p] = video_memory[p]
      BY <1>4, <1>5, <1>7
    <2> QED BY <1>2, <2>1, <2>2 DEF ShowsAt, Dot, Lit, Glyph
  <1> QED BY <1>6, <1>7

(* A character is stored in each cell that is drawn.                         *)
LEMMA DrawKept ==
    ASSUME Kept, NEW drawn, \A a \in DOMAIN drawn : drawn[a] \in Characters,
           NEW fg, NEW bg, DrawIn(drawn, fg, bg)
    PROVE  Kept'
  <1>1. ASSUME NEW a \in Address PROVE stored'[a].character \in Characters
    <2>1. stored'[a] = IF a \in DOMAIN drawn THEN Cell(drawn[a], fg, bg) ELSE stored[a]
      BY DEF DrawIn
    <2> QED BY <2>1 DEF Kept, Cell
  <1> QED BY <1>1 DEF Kept

(* A call that draws, in a font that was read or is missing.                 *)
LEMMA DrawStepGraphics ==
    ASSUME Shape, Graphics, NEW drawn, DOMAIN drawn \subseteq Address,
           \A a \in DOMAIN drawn : drawn[a] \in Characters,
           NEW fg, NEW bg, DrawIn(drawn, fg, bg), driver' = driver, font' = font,
           \/ font_hex' = font_hex /\ font_hex # "not read"
           \/ DOMAIN drawn = Address /\ font_hex = "not read" /\ font_hex' = "not found"
    PROVE  Graphics'
  <1> SUFFICES ASSUME driver = "graphics" PROVE Kept' /\ Blank' /\ Font' /\ PixelMirror'
    BY DEF Graphics
  <1>1. Kept /\ Font /\ PixelMirror
    BY DEF Graphics
  <1>2. Kept'
    BY <1>1, DrawKept
  <1>3. Blank' /\ Font'
    BY <1>1 DEF Blank, Font
  <1>4. ASSUME NEW a \in DOMAIN drawn PROVE RowsOf(font, drawn[a], Glyph(drawn[a])')
    <2>1. PICK c \in Characters : c = drawn[a]
      OBVIOUS
    <2>2. RowsOf(font, c, Glyph(c))
      BY <1>1, FontHasGlyphs
    <2>3. Glyph(c)' = Glyph(c)
      BY DEF Glyph
    <2> QED BY <2>1, <2>2, <2>3
  <1>5. PixelMirror'
    BY <1>1, <1>4, DrawGraphics
  <1> QED BY <1>2, <1>3, <1>5

(* A range within a row that lies in the array is in a row of the screen.    *)
LEMMA RowInScreen ==
    ASSUME NEW c \in Int, NEW r \in Int, NEW length \in Int, c >= 0, length > 0,
           c + length <= width, At(c, r) >= 0, At(c, r) + length <= width * height
    PROVE  r \in Lines
  <1>1. PICK w \in Nat \ {0}, h \in Nat \ {0} : w = width /\ h = height
    BY Cells
  <1>2. PICK a \in Int, b \in Int : a = r * w /\ b = h * w /\ b = w * h
    BY <1>1
  <1>3. a + c >= 0 /\ a + c + length <= b /\ c + length <= w
    BY <1>1, <1>2 DEF At
  <1>4. r < 0 => a + w <= 0
    <2>1. r < 0 => r * w + w <= 0 * w
      BY Products
    <2>2. 0 * w = 0
      OBVIOUS
    <2> QED BY <1>2, <2>1, <2>2
  <1>5. h < r => b + w <= a
    BY <1>1, <1>2, Products
  <1>6. h = r => b = a
    BY <1>2
  <1> QED BY <1>1, <1>3, <1>4, <1>5, <1>6 DEF Lines

LEMMA RowsInScreen ==
    ASSUME NEW columns \in Spans, NEW rows \in Spans, Inside(columns, rows),
           columns.length > 0, rows.length > 0, InScreen(columns, width)
    PROVE  InScreen(rows, height)
  <1>1. PICK ct \in Int, cf \in Int, cl \in Int, rt \in Int, rf \in Int, rl \in Int :
            /\ ct = columns.target /\ cf = columns.from /\ cl = columns.length
            /\ rt = rows.target /\ rf = rows.from /\ rl = rows.length
    BY DEF Spans
  <1>2. /\ cf >= 0 /\ ct >= 0 /\ cf + cl <= width /\ ct + cl <= width /\ cl > 0 /\ rl > 0
        /\ height \in Int
    BY <1>1, Cells DEF InScreen
  <1>3. ASSUME NEW i \in 0 .. rl - 1 PROVE rt + i \in Lines /\ rf + i \in Lines
    <2>1. /\ At(ct, rt + i) >= 0 /\ At(ct, rt + i) + cl <= width * height
          /\ At(cf, rf + i) >= 0 /\ At(cf, rf + i) + cl <= width * height
      BY <1>1, <1>2 DEF Inside, Within, Start, At
    <2>2. PICK t \in Int, f \in Int : t = rt + i /\ f = rf + i
      OBVIOUS
    <2>3. t \in Lines /\ f \in Lines
      BY <1>2, <2>1, <2>2, RowInScreen
    <2> QED BY <2>2, <2>3
  <1>4. 0 \in 0 .. rl - 1 /\ rl - 1 \in 0 .. rl - 1
    BY <1>2
  <1>5. rt + 0 \in Lines /\ rf + 0 \in Lines /\ rt + (rl - 1) \in Lines /\ rf + (rl - 1) \in Lines
    BY <1>3, <1>4
  <1> QED BY <1>1, <1>2, <1>5 DEF Lines, InScreen

(* A place that no row is moved to keeps what it holds.                      *)
LEMMA UnmovedStays ==
    ASSUME NEW columns \in Spans, NEW rows \in Spans, NEW stride \in Int, NEW D, NEW f,
           IsArray(f, D), NEW a \in D, a \notin Targets(columns, rows, stride)
    PROVE  MoveRows(f, stride, columns, rows)[a] = f[a]
  <1>1. PICK n \in Nat : /\ 1 .. n = 1 .. rows.length
                         /\ \A k \in 1 .. n : RowOrder(rows)[k] \in 0 .. rows.length - 1
    BY RowOrderRange
  <1>2. PICK m : MoveSteps(m, n, f, stride, columns, rows)
    BY <1>1, MoveRowsSteps
  <1> USE DEF MoveSteps
  <1> DEFINE Same == {k \in Nat : k <= n => DOMAIN m[k] = D /\ m[k][a] = f[a]}
  <1>3. 0 \in Same
    BY <1>2 DEF IsArray
  <1>4. ASSUME NEW k \in Nat, k \in Same PROVE k + 1 \in Same
    <2>1. SUFFICES ASSUME k + 1 <= n PROVE DOMAIN m[k + 1] = D /\ m[k + 1][a] = f[a]
      OBVIOUS
    <2>2. k + 1 \in 1 .. n /\ (k + 1) - 1 = k /\ DOMAIN m[k] = D /\ m[k][a] = f[a]
      BY <1>4, <2>1
    <2>3. PICK i \in 0 .. rows.length - 1 : i = RowOrder(rows)[k + 1]
      BY <1>1, <2>2
    <2>4. PICK to, from : /\ to = (rows.target + i) * stride + columns.target
                          /\ from = (rows.from + i) * stride + columns.from
      OBVIOUS
    <2>5. m[k + 1] = MemMove(m[k], to, from, columns.length)
      BY <1>2, <2>2, <2>3, <2>4 DEF MoveRow
    <2>6. a \notin to .. to + columns.length - 1
      BY <2>4 DEF Targets, Start
    <2> QED BY <2>2, <2>5, <2>6 DEF MemMove
  <1> HIDE DEF Same
  <1>5. n \in Same
    BY <1>3, <1>4, Induction
  <1> QED BY <1>2, <1>5 DEF Same

(* A cell that a copy over a side of the screen does not reach stays, and so *)
(* do its pixels.                                                            *)
LEMMA Unreached ==
    ASSUME NEW columns, NEW rows, NEW cx \in Columns, NEW cy \in Lines,
           At(cx, cy) \notin Reached(columns, rows)
    PROVE  /\ At(cx, cy) \notin Targets(columns, rows, width)
           /\ \A i \in Across, j \in Down :
                  PixelAt(cx, cy, i, j) \notin
                      Targets(Scaled(columns, GlyphWidth), Scaled(rows, GlyphHeight), vga_width)
  <1> DEFINE reached(c) ==
                 \/ At(c[1], c[2]) \in Targets(columns, rows, width)
                 \/ \E i \in Across, j \in Down : PixelAt(c[1], c[2], i, j) \in
                       Targets(Scaled(columns, GlyphWidth), Scaled(rows, GlyphHeight), vga_width)
  <1>1. Reached(columns, rows) =
            {At(c[1], c[2]) : c \in {cell \in Columns \X Lines : reached(cell)}}
    BY DEF Reached, Columns, Lines, Across, Down
  <1>2. ~ reached(<<cx, cy>>)
    <2>1. SUFFICES ASSUME reached(<<cx, cy>>) PROVE FALSE
      OBVIOUS
    <2>2. <<cx, cy>> \in {c \in Columns \X Lines : reached(c)}
      BY <2>1
    <2> QED BY <1>1, <2>2
  <1> QED BY <1>2

(* The cell that a copy between parts of the screen puts into another.       *)
Source(columns, rows, cx, cy, sx, sy) ==
    IF /\ cx \in columns.target .. columns.target + columns.length - 1
       /\ cy \in rows.target .. rows.target + rows.length - 1
    THEN sx = cx - columns.target + columns.from /\ sy = cy - rows.target + rows.from
    ELSE sx = cx /\ sy = cy

(* It was disturbed, if the copy is.                                         *)
LEMMA Uncarried ==
    ASSUME NEW columns, NEW rows, NEW cx \in Columns, NEW cy \in Lines, NEW sx, NEW sy,
           Source(columns, rows, cx, cy, sx, sy), At(cx, cy) \notin Carried(columns, rows)
    PROVE  At(sx, sy) \notin disturbed
  <1> DEFINE carried(c) ==
                 IF /\ c[1] \in columns.target .. columns.target + columns.length - 1
                    /\ c[2] \in rows.target .. rows.target + rows.length - 1
                 THEN At(c[1] - columns.target + columns.from, c[2] - rows.target + rows.from)
                          \in disturbed
                 ELSE At(c[1], c[2]) \in disturbed
  <1>1. Carried(columns, rows) = {At(c[1], c[2]) : c \in {cell \in Columns \X Lines : carried(cell)}}
    BY DEF Carried, Columns, Lines
  <1>2. ~ carried(<<cx, cy>>)
    <2>1. SUFFICES ASSUME carried(<<cx, cy>>) PROVE FALSE
      OBVIOUS
    <2>2. <<cx, cy>> \in {c \in Columns \X Lines : carried(c)}
      BY <2>1
    <2> QED BY <1>1, <2>2
  <1> QED BY <1>2 DEF Source

(* A copy, whichever parts of the screen it moves.                           *)
LEMMA CopyGraphics ==
    ASSUME Shape, Graphics, NEW columns \in Spans, NEW rows \in Spans, Inside(columns, rows),
           driver = "graphics", stored' = MoveRows(stored, width, columns, rows),
           video_memory' = Copy(columns, rows), disturbed' = Disturbed(columns, rows),
           UNCHANGED driver_vars
    PROVE  Kept' /\ PixelMirror'
  <1>1. Kept /\ PixelMirror /\ IsScreen(stored) /\ IsArray(stored, Address) /\ IsArray(video_memory, Pixels)
    BY DEF Graphics, Shape, IsScreen, IsArray
  <1>2. PICK C \in Spans, R \in Spans : /\ C = Scaled(columns, GlyphWidth)
                                        /\ R = Scaled(rows, GlyphHeight)
                                        /\ video_memory' = MoveRows(video_memory, vga_width, C, R)
                                        /\ C.length = columns.length * GlyphWidth
                                        /\ R.length = rows.length * GlyphHeight
    <2>1. \A span \in Spans, size \in Nat :
              Scaled(span, size) \in Spans /\ Scaled(span, size).length = span.length * size
      BY DEF Scaled, Span, Spans
    <2>2. GlyphWidth \in Nat /\ GlyphHeight \in Nat
      BY VgaGraphicsAssumption
    <2> QED BY <2>1, <2>2 DEF Copy
  <1>3. /\ columns.length \in Int /\ rows.length \in Int /\ width \in Int /\ vga_width \in Int
        /\ GlyphWidth \in Nat /\ GlyphHeight \in Nat
    BY Cells, VgaGraphicsAssumption DEF Spans
  <1>4. Kept'
    <2>1. PICK origin \in [Address -> Address] :
              \A f : IsScreen(f) =>
                  MoveRows(f, width, columns, rows) = [b \in Address |-> f[origin[b]]]
      BY MovedCells
    <2>2. \A a \in Address : origin[a] \in Address /\ stored'[a] = stored[origin[a]]
      BY <1>1, <2>1
    <2> QED BY <1>1, <2>2 DEF Kept
  <1>5. SUFFICES ASSUME NEW cx \in Columns, NEW cy \in Lines, NEW i \in Across, NEW j \in Down,
                        At(cx, cy) \notin disturbed'
                 PROVE  ShowsAt(cx, cy, i, j)'
    BY <1>4 DEF PixelMirror
  <1>6. SUFFICES \E sx \in Columns, sy \in Lines :
                     /\ At(sx, sy) \notin disturbed
                     /\ stored'[At(cx, cy)] = stored[At(sx, sy)]
                     /\ video_memory'[PixelAt(cx, cy, i, j)] = video_memory[PixelAt(sx, sy, i, j)]
    <2>1. PICK sx \in Columns, sy \in Lines :
              /\ At(sx, sy) \notin disturbed
              /\ stored'[At(cx, cy)] = stored[At(sx, sy)]
              /\ video_memory'[PixelAt(cx, cy, i, j)] = video_memory[PixelAt(sx, sy, i, j)]
      BY <1>6
    <2>2. ShowsAt(sx, sy, i, j)
      BY <1>1, <2>1 DEF PixelMirror
    <2> QED BY <2>1, <2>2 DEF ShowsAt, Dot, Lit, Glyph, driver_vars
  <1>7. CASE ~ InScreen(columns, width)
    <2>1. At(cx, cy) \notin disturbed /\ At(cx, cy) \notin Reached(columns, rows)
      BY <1>5, <1>7 DEF Disturbed
    <2>2. /\ At(cx, cy) \notin Targets(columns, rows, width)
          /\ PixelAt(cx, cy, i, j) \notin Targets(C, R, vga_width)
      BY <1>2, <2>1, Unreached
    <2>3. At(cx, cy) \in Address /\ PixelAt(cx, cy, i, j) \in Pixels
      BY Cells, GlyphFits DEF Columns, Lines
    <2>4. stored'[At(cx, cy)] = stored[At(cx, cy)]
      BY <1>1, <1>3, <2>2, <2>3, UnmovedStays
    <2>5. video_memory'[PixelAt(cx, cy, i, j)] = video_memory[PixelAt(cx, cy, i, j)]
      BY <1>1, <1>2, <1>3, <2>2, <2>3, UnmovedStays
    <2> QED BY <2>1, <2>4, <2>5
  <1>8. CASE InScreen(columns, width)
    <2>1. \A sx, sy : Source(columns, rows, cx, cy, sx, sy) => At(sx, sy) \notin disturbed
      BY <1>5, <1>8, Uncarried DEF Disturbed
    <2>2. CASE columns.length <= 0 \/ rows.length <= 0
      <3>1. stored' = stored
        BY <1>1, <1>3, <2>2, CopiedNothing
      <3>2. C.length <= 0 \/ R.length <= 0
        BY <1>2, <1>3, <2>2
      <3>3. video_memory' = video_memory
        BY <1>1, <1>2, <1>3, <3>2, CopiedNothing
      <3>4. Source(columns, rows, cx, cy, cx, cy)
        <4>1. /\ columns.target \in Int /\ rows.target \in Int
          BY DEF Spans
        <4>2. \A t, l, z \in Int : l <= 0 => z \notin t .. t + l - 1
          OBVIOUS
        <4> QED BY <1>3, <2>2, <4>1, <4>2 DEF Source, Columns, Lines
      <3> QED BY <2>1, <3>1, <3>3, <3>4
    <2>3. CASE columns.length > 0 /\ rows.length > 0
      <3>1. PICK ct \in Int, cf \in Int, cl \in Int, rt \in Int, rf \in Int, rl \in Int :
                /\ ct = columns.target /\ cf = columns.from /\ cl = columns.length
                /\ rt = rows.target /\ rf = rows.from /\ rl = rows.length
        BY DEF Spans
      <3>2. InScreen(rows, height)
        BY <1>8, <2>3, RowsInScreen
      <3>3. stored'[At(cx, cy)] =
                IF cx \in ct .. ct + cl - 1 /\ cy \in rt .. rt + rl - 1
                THEN stored[At(cx - ct + cf, cy - rt + rf)] ELSE stored[At(cx, cy)]
        BY <1>1, <1>8, <2>3, <3>1, <3>2, CopiedRows DEF Columns, Lines
      <3>4. video_memory'[PixelAt(cx, cy, i, j)] =
                IF cx \in ct .. ct + cl - 1 /\ cy \in rt .. rt + rl - 1
                THEN video_memory[PixelAt(cx - ct + cf, cy - rt + rf, i, j)]
                ELSE video_memory[PixelAt(cx, cy, i, j)]
        BY <1>1, <1>2, <1>8, <2>3, <3>1, <3>2, CopiedPixels
      <3>5. PICK sx \in Columns, sy \in Lines :
                IF cx \in ct .. ct + cl - 1 /\ cy \in rt .. rt + rl - 1
                THEN sx = cx - ct + cf /\ sy = cy - rt + rf ELSE sx = cx /\ sy = cy
        <4>1. /\ cf >= 0 /\ cf + cl <= width /\ rf >= 0 /\ rf + rl <= height
              /\ width \in Int /\ height \in Int
          BY <1>8, <3>1, <3>2, Cells DEF InScreen
        <4>2. cx \in ct .. ct + cl - 1 => cx - ct + cf \in Columns
          BY <3>1, <4>1 DEF Columns
        <4>3. cy \in rt .. rt + rl - 1 => cy - rt + rf \in Lines
          BY <3>1, <4>1 DEF Lines
        <4> QED BY <4>2, <4>3
      <3>6. At(sx, sy) \notin disturbed
        BY <2>1, <3>1, <3>5 DEF Source
      <3> QED BY <3>3, <3>4, <3>5, <3>6
    <2> QED BY <1>3, <2>2, <2>3
  <1> QED BY <1>7, <1>8

(* Every step keeps the pixels those of the cells.                           *)
LEMMA NextGraphics == Shape /\ Graphics /\ [Next]_vars => Graphics'
  <1> SUFFICES ASSUME Shape, Graphics, [Next]_vars PROVE Graphics'
    OBVIOUS
  <1>1. CASE VgaGraphicsLoadFont
    <2> SUFFICES ASSUME driver = "graphics" PROVE Kept' /\ Blank' /\ Font' /\ PixelMirror'
      BY <1>1 DEF VgaGraphicsLoadFont, Graphics
    <2>1. /\ Kept /\ Blank /\ PixelMirror /\ stored' = stored /\ video_memory' = video_memory
          /\ disturbed' = disturbed
          /\ font_hex = "not read" /\ font_hex' = "found" /\ \E data \in FontFiles : font' = LoadFont(data)
      BY <1>1 DEF Graphics, VgaGraphicsLoadFont
    <2>2. Kept' /\ Blank' /\ Font'
      BY <2>1 DEF Kept, Blank, Font
    <2>3. ASSUME NEW cx \in Columns, NEW cy \in Lines, NEW i \in Across, NEW j \in Down,
                 At(cx, cy) \notin disturbed
          PROVE  ShowsAt(cx, cy, i, j)'
      <3>1. PICK at, p : at \in Address /\ at = At(cx, cy) /\ p = PixelAt(cx, cy, i, j)
        BY Cells DEF Columns, Lines
      <3>2. stored[at].character = Space /\ stored'[at] = stored[at]
        BY <2>1, <3>1 DEF Blank
      <3>3. ~ Lit(Space, i, j) /\ ~ Lit(Space, i, j)'
        <4>1. ~ Lit(Space, i, j)
          BY BlankIsDark
        <4>2. Glyph(Space)' = Glyph(Space)
          BY GpuAssumption DEF Glyph
        <4> QED BY <4>1, <4>2 DEF Lit
      <3>4. video_memory[p] = Dot(stored[at], i, j)
        BY <2>1, <2>3, <3>1 DEF PixelMirror, ShowsAt
      <3>5. Dot(stored[at], i, j)' = Dot(stored[at], i, j)
        BY <3>2, <3>3 DEF Dot
      <3> QED BY <2>1, <3>1, <3>4, <3>5 DEF ShowsAt
    <2> QED BY <2>1, <2>2, <2>3 DEF PixelMirror
  <1>2. CASE NoFontFile
    <2>1. PICK message \in Messages : DrawIn(Message(message), foreground', background')
      BY <1>2 DEF NoFontFile
    <2>2. driver' = driver /\ font' = font /\ font_hex = "not read" /\ font_hex' = "not found"
      BY <1>2 DEF NoFontFile
    <2> QED BY <2>1, <2>2, DrawnCells, DrawnCharacters, DrawStepGraphics
  <1>3. ASSUME NEW color \in Colors, NEW is_palette_index \in BOOLEAN,
               \/ GpuSetBackground(color, is_palette_index)
               \/ GpuSetForeground(color, is_palette_index)
        PROVE  Graphics'
    <2>1. UNCHANGED <<driver, font, font_hex, stored, video_memory, disturbed>>
      BY <1>3 DEF GpuSetBackground, GpuSetForeground, SetColor, driver_vars
    <2> QED BY <2>1 DEF Graphics, Kept, Blank, Font, PixelMirror, ShowsAt, Dot, Lit, Glyph
  <1>4. ASSUME NEW x \in Positions, NEW y \in Positions, NEW string \in Strings,
               NEW vertical \in BOOLEAN, GpuSet(x, y, string, vertical)
        PROVE  Graphics'
    <2>1. x \in Int /\ y \in Int
      BY GpuAssumption
    <2>2. /\ DrawIn(Drawn(x, y, string, vertical), foreground, background)
          /\ driver' = driver /\ font' = font /\ font_hex' = font_hex
      BY <1>4 DEF GpuSet, Drawn, driver_vars
    <2>3. font_hex # "not read"
      BY <1>4 DEF GpuSet, Drawing
    <2> QED BY <2>1, <2>2, <2>3, DrawnCells, DrawnCharacters, DrawStepGraphics
  <1>5. ASSUME NEW x \in Positions, NEW y \in Positions, NEW w \in {0, 2, IntMod \div 2 - 1},
               NEW c \in Characters \cup {Invalid}, GpuFill(x, y, w, width, c)
        PROVE  Graphics'
    <2>1. x \in Int /\ y \in Int /\ w \in Int /\ width \in Int
      BY GpuAssumption, VgaGraphicsAssumption
    <2>2. /\ DrawIn(Filled(x, y, w, width, c), foreground, background)
          /\ driver' = driver /\ font' = font /\ font_hex' = font_hex
      BY <1>5 DEF GpuFill, Filled, driver_vars
    <2>3. font_hex # "not read"
      BY <1>5 DEF GpuFill, Drawing
    <2> QED BY <2>1, <2>2, <2>3, DrawnCells, DrawnCharacters, DrawStepGraphics
  <1>6. ASSUME NEW columns \in ColumnSpans, NEW rows \in RowSpans, GpuCopy(columns, rows)
        PROVE  Graphics'
    <2>1. PICK cut_columns \in Spans, cut_rows \in Spans :
              cut_columns = Cut(columns, width) /\ cut_rows = Cut(rows, height)
      BY GpuAssumption, CutSpan DEF Spans
    <2>2. UNCHANGED driver_vars
      BY <1>6 DEF GpuCopy
    <2>3. CASE UNCHANGED <<stored, video_memory, disturbed>>
      BY <2>2, <2>3 DEF driver_vars, Graphics, Kept, Blank, Font, PixelMirror, ShowsAt, Dot, Lit, Glyph
    <2>4. CASE /\ Inside(cut_columns, cut_rows)
               /\ stored' = MoveRows(stored, width, cut_columns, cut_rows)
               /\ video_memory' = Copy(cut_columns, cut_rows)
               /\ disturbed' = Disturbed(cut_columns, cut_rows)
      <3> SUFFICES ASSUME driver = "graphics" PROVE Kept' /\ Blank' /\ Font' /\ PixelMirror'
        BY <2>2 DEF Graphics, driver_vars
      <3>1. Kept' /\ PixelMirror'
        BY <2>2, <2>4, CopyGraphics
      <3>2. font_hex # "not read"
        BY <1>6 DEF GpuCopy, Drawing
      <3>3. Blank' /\ Font'
        BY <2>2, <3>2 DEF Graphics, Blank, Font, driver_vars
      <3> QED BY <3>1, <3>3
    <2> QED BY <1>6, <2>1, <2>3, <2>4 DEF GpuCopy
  <1>7. ASSUME NEW message \in Messages, GpuErrorMessage(message) PROVE Graphics'
    <2>1. /\ DrawIn(Message(message), foreground', background')
          /\ driver' = driver /\ font' = font /\ font_hex' = font_hex
      BY <1>7 DEF GpuErrorMessage, driver_vars
    <2>2. font_hex # "not read"
      BY <1>7 DEF GpuErrorMessage, Drawing
    <2> QED BY <2>1, <2>2, DrawnCells, DrawnCharacters, DrawStepGraphics
  <1>8. CASE UNCHANGED vars
    BY <1>8 DEF vars, driver_vars, Graphics, Kept, Blank, Font, PixelMirror, ShowsAt, Dot, Lit, Glyph
  <1> QED BY <1>1, <1>2, <1>3, <1>4, <1>5, <1>6, <1>7, <1>8 DEF Next

(* gpu_init leaves a screen of blank glyphs.                                 *)
LEMMA InitGraphics == Init => Graphics
  <1> SUFFICES ASSUME Init, driver = "graphics" PROVE Kept /\ Blank /\ Font /\ PixelMirror
    BY DEF Graphics
  <1>1. \A a \in Address : stored[a] = Cell(Space, foreground, background)
    BY DEF Init
  <1>2. Kept /\ Blank
    <2>1. Space \in Characters
      BY GpuAssumption
    <2>2. \A a \in Address : stored[a].character = Space
      BY <1>1 DEF Cell
    <2> QED BY <2>1, <2>2 DEF Kept, Blank
  <1>3. Font
    BY DEF Init, Font
  <1>4. ASSUME NEW cx \in Columns, NEW cy \in Lines, NEW i \in Across, NEW j \in Down
        PROVE  ShowsAt(cx, cy, i, j)
    <2>1. At(cx, cy) \in Address /\ PixelAt(cx, cy, i, j) \in Pixels
      BY Cells, GlyphFits DEF Columns, Lines
    <2>2. video_memory[PixelAt(cx, cy, i, j)] = background % IntMod
      BY <2>1 DEF Init
    <2>3. ~ Lit(Space, i, j)
      BY BlankIsDark
    <2> QED BY <1>1, <2>1, <2>2, <2>3 DEF ShowsAt, Dot, Cell
  <1> QED BY <1>2, <1>3, <1>4 DEF PixelMirror

(* The screen shows what gpu_get (component/gpu.c) returns, as text and in   *)
(* the glyphs of the font file, after any mixture of calls inside the        *)
(* arrays; on the graphics screen but for the cells that a copy over a side  *)
(* of it has reached, until they are drawn or copied to again.               *)
THEOREM ScreenShowsStored == Spec => []Mirror
  <1>1. Spec => []Graphics
    BY InitGraphics, NextGraphics, ShapeKept, PTL DEF Spec
  <1>2. Shape /\ Graphics /\ (driver = "text" => Mirror) => Mirror
    BY MirrorOfPixels DEF Shape, Graphics
  <1> QED BY <1>1, <1>2, ShapeKept, TextShowsStored, PTL

=============================================================================
