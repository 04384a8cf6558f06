---------------------------- MODULE InitrdProofs ----------------------------
(***************************************************************************)
(* For every archive, every set of paths and offsets and any size of the   *)
(* heap: no two open files have the same handle.  Uniqueness alone is not  *)
(* inductive, as a new handle is only compared with the newest one: what   *)
(* is kept is that handles fall strictly from the head of the list on.     *)
(* So a handle is found at one place, and other calls leave it its file.   *)
(***************************************************************************)
EXTENDS Initrd, SequenceTheorems, WellFoundedInduction, TLAPS

(* The list of open files, as far as handles are concerned: records whose    *)
(* handles are numbers, falling from the head on.                            *)
Falling(list) ==
    /\ \E S : list \in Seq(S)
    /\ \A i \in 1 .. Len(list) :
           list[i].handle_num \in Nat /\ "handle_num" \in DOMAIN list[i]
    /\ \A i, j \in 1 .. Len(list) : i < j => list[j].handle_num < list[i].handle_num

IInv == Falling(open_files)

-----------------------------------------------------------------------------
(* find_open_file returns a place in the list, or none; as handles fall, at  *)
(* most one place has the handle.                                            *)
LEMMA FoundIsPlace ==
    ASSUME NEW handle, Falling(open_files), FindOpenFile(handle) # 0
    PROVE  FindOpenFile(handle) \in 1 .. Len(open_files)
  <1> DEFINE I == {i \in 1 .. Len(open_files) : open_files[i].handle_num = handle}
  <1>1. FindOpenFile(handle) = IF I # {} THEN CHOOSE x \in I : \A y \in I : x =< y ELSE 0
    BY DEF FindOpenFile, SelectInSeq, Min
  <1>2. PICK x \in I : TRUE
    BY <1>1
  <1>3. Len(open_files) \in Nat
    BY LenProperties DEF Falling
  <1>4. \A y \in I : x = y
    BY <1>3 DEF Falling
  <1>5. \A y \in I : x =< y
    BY <1>3, <1>4
  <1> QED BY <1>1, <1>2, <1>5

(* Putting a file with the next handle in front keeps the order. *)
LEMMA AddNewest ==
    ASSUME NEW list, NEW x, Falling(list), "handle_num" \in DOMAIN x,
           x.handle_num = IF list = <<>> THEN 0 ELSE Head(list).handle_num + 1
    PROVE  Falling(<<x>> \o list)
  <1>1. PICK S : list \in Seq(S)
    BY DEF Falling
  <1> DEFINE T == S \cup {x}
             new == <<x>> \o list
  <1>2. list \in Seq(T) /\ <<x>> \in Seq(T) /\ Len(<<x>>) = 1 /\ <<x>>[1] = x
    BY <1>1, SeqMonotonic
  <1>3. Len(list) \in Nat /\ (list # <<>> => Len(list) > 0 /\ Head(list) = list[1])
    BY <1>1, EmptySeq, LenProperties
  <1>4. /\ new \in Seq(T) /\ Len(new) = 1 + Len(list)
        /\ \A i \in 1 .. 1 + Len(list) : new[i] = IF i <= 1 THEN x ELSE list[i - 1]
    BY <1>2, ConcatProperties
  <1>5. x.handle_num \in Nat /\ \A j \in 1 .. Len(list) : list[j].handle_num < x.handle_num
    <2>1. CASE list = <<>>
      BY <2>1, EmptySeq
    <2>2. CASE list # <<>>
      <3>1. 1 \in 1 .. Len(list) /\ list[1].handle_num \in Nat /\ x.handle_num = list[1].handle_num + 1
        BY <2>2, <1>3 DEF Falling
      <3>2. ASSUME NEW j \in 1 .. Len(list) PROVE list[j].handle_num < x.handle_num
        BY <3>1, <1>3 DEF Falling
      <3> QED BY <3>1, <3>2
    <2> QED BY <2>1, <2>2
  <1>6. ASSUME NEW i \in 1 .. Len(new)
        PROVE  new[i].handle_num \in Nat /\ "handle_num" \in DOMAIN new[i]
    <2>1. CASE i = 1
      BY <2>1, <1>4, <1>5
    <2>2. CASE i # 1
      BY <2>2, <1>3, <1>4 DEF Falling
    <2> QED BY <2>1, <2>2
  <1>7. ASSUME NEW i \in 1 .. Len(new), NEW j \in 1 .. Len(new), i < j
        PROVE  new[j].handle_num < new[i].handle_num
    <2>1. j - 1 \in 1 .. Len(list) /\ new[j] = list[j - 1]
      BY <1>3, <1>4, <1>7
    <2>2. CASE i = 1
      BY <2>1, <2>2, <1>4, <1>5
    <2>3. CASE i # 1
      <3>1. i - 1 \in 1 .. Len(list) /\ new[i] = list[i - 1] /\ i - 1 < j - 1
        BY <2>3, <1>3, <1>4, <1>7
      <3> QED BY <3>1, <2>1 DEF Falling
    <2> QED BY <2>2, <2>3
  <1> QED BY <1>4, <1>6, <1>7 DEF Falling

(* Taking one file out leaves the others in their order. *)
LEMMA Removed ==
    ASSUME NEW list, Falling(list), NEW at \in 1 .. Len(list)
    PROVE  /\ \E S : RemoveAt(list, at) \in Seq(S)
           /\ Len(RemoveAt(list, at)) = Len(list) - 1
           /\ \A i \in 1 .. Len(list) - 1 :
                  RemoveAt(list, at)[i] = IF i <= at - 1 THEN list[i] ELSE list[i + 1]
  <1>1. PICK S : list \in Seq(S)
    BY DEF Falling
  <1> DEFINE front == SubSeq(list, 1, at - 1)
             back == SubSeq(list, at + 1, Len(list))
             new == RemoveAt(list, at)
  <1>2. Len(list) \in Nat /\ \A i \in 1 .. Len(list) : list[i] \in S
    BY <1>1, ElementOfSeq, LenProperties
  <1>3. /\ front \in Seq(S) /\ Len(front) = at - 1
        /\ \A i \in 1 .. at - 1 : front[i] = list[i]
    <2>1. /\ front \in Seq(S)
          /\ Len(front) = IF 1 <= at - 1 THEN (at - 1) - 1 + 1 ELSE 0
          /\ \A i \in 1 .. (at - 1) - 1 + 1 : front[i] = list[1 + i - 1]
      <3>1. \A i \in 1 .. at - 1 : list[i] \in S
        BY <1>2
      <3> QED BY <3>1, SubSeqProperties
    <2> QED BY <2>1
  <1>4. /\ back \in Seq(S) /\ Len(back) = Len(list) - at
        /\ \A i \in 1 .. Len(list) - at : back[i] = list[at + i]
    <2>1. /\ back \in Seq(S)
          /\ Len(back) = IF at + 1 <= Len(list) THEN Len(list) - (at + 1) + 1 ELSE 0
          /\ \A i \in 1 .. Len(list) - (at + 1) + 1 : back[i] = list[(at + 1) + i - 1]
      <3>1. \A i \in at + 1 .. Len(list) : list[i] \in S
        BY <1>2
      <3> QED BY <3>1, <1>2, SubSeqProperties
    <2> QED BY <2>1, <1>2
  <1>5. /\ new \in Seq(S) /\ Len(new) = Len(list) - 1
        /\ \A i \in 1 .. Len(list) - 1 : new[i] = IF i <= at - 1 THEN list[i] ELSE list[i + 1]
    <2>1. new = front \o back
      BY DEF RemoveAt
    <2>2. /\ new \in Seq(S) /\ Len(new) = Len(front) + Len(back)
          /\ \A i \in 1 .. Len(front) + Len(back) :
                 new[i] = IF i <= Len(front) THEN front[i] ELSE back[i - Len(front)]
      <3>1. front \in Seq(S) /\ back \in Seq(S)
        BY <1>3, <1>4
      <3> HIDE DEF front, back
      <3> QED BY <2>1, <3>1, ConcatProperties
    <2>3. Len(front) + Len(back) = Len(list) - 1
      <3>1. Len(front) = at - 1 /\ Len(back) = Len(list) - at
        BY <1>3, <1>4
      <3> HIDE DEF front, back
      <3> QED BY <3>1, <1>2
    <2>4. ASSUME NEW i \in 1 .. Len(list) - 1
          PROVE  new[i] = IF i <= at - 1 THEN list[i] ELSE list[i + 1]
      <3>1. new[i] = IF i <= at - 1 THEN front[i] ELSE back[i - (at - 1)]
        BY <2>2, <2>3, <1>3
      <3>2. CASE i <= at - 1
        BY <3>1, <3>2, <1>2, <1>3
      <3>3. CASE ~ (i <= at - 1)
        <4>1. i - (at - 1) \in 1 .. Len(list) - at /\ at + (i - (at - 1)) = i + 1
          BY <3>3, <1>2
        <4> QED BY <4>1, <3>1, <3>3, <1>4
      <3> QED BY <3>2, <3>3
    <2> QED BY <2>2, <2>3, <2>4
  <1> QED BY <1>5

LEMMA RemoveKeeps ==
    ASSUME NEW list, Falling(list), NEW at \in 1 .. Len(list)
    PROVE  Falling(RemoveAt(list, at))
  <1> DEFINE new == RemoveAt(list, at)
  <1>1. Len(list) \in Nat
    BY LenProperties DEF Falling
  <1>2. /\ \E S : new \in Seq(S)
        /\ Len(new) = Len(list) - 1
        /\ \A i \in 1 .. Len(list) - 1 : new[i] = IF i <= at - 1 THEN list[i] ELSE list[i + 1]
    BY Removed
  <1> HIDE DEF new
  <1> DEFINE Old(i) == IF i <= at - 1 THEN i ELSE i + 1
  <1>3. \A i \in 1 .. Len(new) : Old(i) \in 1 .. Len(list) /\ new[i] = list[Old(i)]
    BY <1>1, <1>2
  <1>4. \A i, j \in 1 .. Len(new) : i < j => Old(i) < Old(j)
    BY <1>1, <1>2
  <1> QED
    <2>1. \A i \in 1 .. Len(new) : new[i].handle_num \in Nat /\ "handle_num" \in DOMAIN new[i]
      BY <1>3 DEF Falling
    <2>2. \A i, j \in 1 .. Len(new) : i < j => new[j].handle_num < new[i].handle_num
      <3> HIDE DEF Old
      <3> QED BY <1>3, <1>4 DEF Falling
    <2>3. Falling(new)
      BY <2>1, <2>2, <1>2 DEF Falling
    <2> QED BY <2>3 DEF new

(* Moving a read position changes no handle. *)
LEMMA MoveKeeps ==
    ASSUME NEW list, Falling(list), NEW at \in 1 .. Len(list), NEW pos
    PROVE  Falling([list EXCEPT ![at].read_pos = pos])
  <1>1. PICK S : list \in Seq(S)
    BY DEF Falling
  <1> DEFINE x == [list[at] EXCEPT !.read_pos = pos]
             T == S \cup {x}
             new == [list EXCEPT ![at] = x]
  <1>2. list \in Seq(T)
    BY <1>1, SeqMonotonic
  <1>3. /\ new \in Seq(T) /\ Len(new) = Len(list)
        /\ \A j \in 1 .. Len(list) : new[j] = IF j = at THEN x ELSE list[j]
    BY <1>2, ExceptSeq
  <1>4. "handle_num" \in DOMAIN x /\ x.handle_num = list[at].handle_num
    BY DEF Falling
  <1>5. \A j \in 1 .. Len(new) : /\ new[j].handle_num = list[j].handle_num
                                 /\ "handle_num" \in DOMAIN new[j]
    BY <1>3, <1>4 DEF Falling
  <1>6. Falling(new)
    BY <1>3, <1>5 DEF Falling
  <1> QED BY <1>6

-----------------------------------------------------------------------------
(* The four outcomes a step can have for the list. *)
LEMMA StepKeeps ==
    ASSUME IInv,
           \/ UNCHANGED open_files
           \/ \E header : open_files' = <<OpenFile(header)>> \o open_files
           \/ \E at \in 1 .. Len(open_files) : open_files' = RemoveAt(open_files, at)
           \/ \E at \in 1 .. Len(open_files) : \E pos :
                  open_files' = [open_files EXCEPT ![at].read_pos = pos]
    PROVE  IInv'
  <1>1. CASE UNCHANGED open_files
    BY <1>1 DEF IInv, Falling
  <1>2. ASSUME NEW header, open_files' = <<OpenFile(header)>> \o open_files
        PROVE  IInv'
    <2>1. /\ "handle_num" \in DOMAIN OpenFile(header)
          /\ OpenFile(header).handle_num =
                 IF open_files = <<>> THEN 0 ELSE Head(open_files).handle_num + 1
      BY DEF OpenFile, NextHandle
    <2>2. Falling(<<OpenFile(header)>> \o open_files)
      BY <2>1, AddNewest DEF IInv
    <2> QED BY <2>2, <1>2 DEF IInv
  <1>3. ASSUME NEW at \in 1 .. Len(open_files), open_files' = RemoveAt(open_files, at)
        PROVE  IInv'
    BY <1>3, RemoveKeeps DEF IInv
  <1>4. ASSUME NEW at \in 1 .. Len(open_files), NEW pos,
               open_files' = [open_files EXCEPT ![at].read_pos = pos]
        PROVE  IInv'
    BY <1>4, MoveKeeps DEF IInv
  <1> QED BY <1>1, <1>2, <1>3, <1>4

LEMMA InitHolds == Init => IInv
  <1>1. Init => open_files = <<>>
    BY DEF Init
  <1>2. Falling(<<>>)
    BY EmptySeq DEF Falling
  <1> QED BY <1>1, <1>2 DEF IInv

LEMMA NextHolds == IInv /\ [Next]_vars => IInv'
  <1> SUFFICES ASSUME IInv, [Next]_vars PROVE IInv'
    OBVIOUS
  <1>1. ASSUME NEW path, NEW reads, InitrdOpen(path, reads) PROVE IInv'
    <2>1. UNCHANGED open_files \/ \E header : open_files' = <<OpenFile(header)>> \o open_files
      BY <1>1 DEF InitrdOpen, OpenTar, Return
    <2> QED BY <2>1, StepKeeps
  <1>2. ASSUME NEW path, InitrdExists(path) \/ InitrdSize(path) \/ InitrdLastModified(path)
        PROVE  IInv'
    <2>1. UNCHANGED open_files
      BY <1>2 DEF InitrdExists, InitrdSize, InitrdLastModified, Field, OpenTar, Method, Return
    <2> QED BY <2>1, StepKeeps
  <1>3. ASSUME NEW path, InitrdIsDirectory(path) \/ InitrdList(path) PROVE IInv'
    <2>1. UNCHANGED open_files
      BY <1>3 DEF InitrdIsDirectory, InitrdList, OpenTar, Return
    <2> QED BY <2>1, StepKeeps
  <1>4. ASSUME NEW handle, InitrdClose(handle) PROVE IInv'
    <2>1. \/ UNCHANGED open_files
          \/ \E at \in 1 .. Len(open_files) : open_files' = RemoveAt(open_files, at)
      BY <1>4, FoundIsPlace DEF InitrdClose, IInv
    <2> QED BY <2>1, StepKeeps
  <1>5. ASSUME NEW handle, InitrdRead(handle) PROVE IInv'
    <2>1. \/ UNCHANGED open_files
          \/ \E at \in 1 .. Len(open_files) : \E pos :
                 open_files' = [open_files EXCEPT ![at].read_pos = pos]
      BY <1>5, FoundIsPlace DEF InitrdRead, IInv
    <2> QED BY <2>1, StepKeeps
  <1>6. ASSUME NEW handle, NEW whence, NEW offset, InitrdSeek(handle, whence, offset)
        PROVE  IInv'
    <2>1. \/ UNCHANGED open_files
          \/ \E at \in 1 .. Len(open_files) : \E pos :
                 open_files' = [open_files EXCEPT ![at].read_pos = pos]
      BY <1>6, FoundIsPlace DEF InitrdSeek, IInv
    <2> QED BY <2>1, StepKeeps
  <1>7. CASE UNCHANGED vars
    BY <1>7, StepKeeps DEF vars
  <1> QED BY <1>1, <1>2, <1>3, <1>4, <1>5, <1>6, <1>7 DEF Next

(* No two open files ever have the same handle. *)
LEMMA FallingIsUnique == IInv => HandlesUnique
  <1> SUFFICES ASSUME IInv PROVE HandlesUnique
    OBVIOUS
  <1>1. DOMAIN open_files = 1 .. Len(open_files) /\ Len(open_files) \in Nat
    BY LenProperties DEF IInv, Falling
  <1> QED BY <1>1 DEF IInv, Falling, HandlesUnique

THEOREM HandlesDiffer == Spec => []HandlesUnique
  BY InitHolds, NextHolds, FallingIsUnique, PTL DEF Spec

-----------------------------------------------------------------------------
(* A handle is found at the one place that has it. *)
LEMMA FindsPlace ==
    ASSUME NEW list, NEW handle, Falling(list),
           NEW at \in 1 .. Len(list), list[at].handle_num = handle
    PROVE  SelectInSeq(list, LAMBDA open_file : open_file.handle_num = handle) = at
  <1> DEFINE I == {i \in 1 .. Len(list) : list[i].handle_num = handle}
  <1>1. Len(list) \in Nat
    BY LenProperties DEF Falling
  <1>2. I = {at}
    BY <1>1 DEF Falling
  <1>3. SelectInSeq(list, LAMBDA open_file : open_file.handle_num = handle)
            = IF I # {} THEN CHOOSE x \in I : \A y \in I : x =< y ELSE 0
    BY DEF SelectInSeq, Min
  <1> HIDE DEF I
  <1> QED BY <1>1, <1>2, <1>3

LEMMA FoundHasHandle ==
    ASSUME NEW handle, Falling(open_files), FindOpenFile(handle) # 0
    PROVE  /\ FindOpenFile(handle) \in 1 .. Len(open_files)
           /\ open_files[FindOpenFile(handle)].handle_num = handle
  <1> DEFINE I == {i \in 1 .. Len(open_files) : open_files[i].handle_num = handle}
  <1>1. FindOpenFile(handle) = IF I # {} THEN CHOOSE x \in I : \A y \in I : x =< y ELSE 0
    BY DEF FindOpenFile, SelectInSeq, Min
  <1>2. PICK at \in I : TRUE
    BY <1>1
  <1>3. FindOpenFile(handle) = at
    BY <1>2, FindsPlace DEF FindOpenFile
  <1> QED BY <1>2, <1>3

(* What find_open_file finds before and after a step. *)
LEMMA FoundAfter ==
    ASSUME IInv, IInv', NEW handle,
           NEW i \in 1 .. Len(open_files), open_files[i].handle_num = handle,
           NEW j \in 1 .. Len(open_files'), open_files'[j].handle_num = handle
    PROVE  /\ handle \in OpenHandles'
           /\ FileOf(handle) = open_files[i] /\ FileOf(handle)' = open_files'[j]
  <1>1. FindOpenFile(handle) = i
    BY FindsPlace DEF FindOpenFile, IInv
  <1>2. FindOpenFile(handle)' = j
    <2> DEFINE J == {k \in 1 .. Len(open_files') : open_files'[k].handle_num = handle}
    <2>1. Len(open_files') \in Nat
      BY LenProperties DEF IInv, Falling
    <2>2. J = {j}
      BY <2>1 DEF IInv, Falling
    <2>3. FindOpenFile(handle)' = IF J # {} THEN CHOOSE x \in J : \A y \in J : x =< y ELSE 0
      BY DEF FindOpenFile, SelectInSeq, Min
    <2> HIDE DEF J
    <2> QED BY <2>1, <2>2, <2>3
  <1>3. handle \in OpenHandles'
    <2>1. DOMAIN open_files' = 1 .. Len(open_files')
      BY LenProperties DEF IInv, Falling
    <2> QED BY <2>1 DEF OpenHandles
  <1> QED BY <1>1, <1>2, <1>3 DEF FileOf

LEMMA Prepended ==
    ASSUME NEW list, Falling(list), NEW x
    PROVE  /\ Len(<<x>> \o list) = Len(list) + 1
           /\ (<<x>> \o list)[1] = x
           /\ \A i \in 1 .. Len(list) : (<<x>> \o list)[i + 1] = list[i]
  <1>1. PICK S : list \in Seq(S)
    BY DEF Falling
  <1> DEFINE T == S \cup {x}
             new == <<x>> \o list
  <1>2. list \in Seq(T) /\ <<x>> \in Seq(T) /\ Len(<<x>>) = 1 /\ Len(list) \in Nat
    BY <1>1, SeqMonotonic, LenProperties
  <1>3. /\ Len(new) = 1 + Len(list)
        /\ \A i \in 1 .. 1 + Len(list) : new[i] = IF i <= 1 THEN x ELSE list[i - 1]
    BY <1>2, ConcatProperties
  <1> QED BY <1>2, <1>3

(* The four outcomes of a step, for the handles that Lua holds. *)
Answered == result'.is \in {"read", "position"}

LEMMA OutcomeKeeps ==
    ASSUME IInv, IInv',
           \/ UNCHANGED open_files
           \/ \E header : open_files' = <<OpenFile(header)>> \o open_files
           \/ \E at \in 1 .. Len(open_files) :
                  /\ open_files' = RemoveAt(open_files, at)
                  /\ result' = Answer("closed", open_files[at].handle_num)
           \/ \E at \in 1 .. Len(open_files) : \E pos :
                  open_files' = [open_files EXCEPT ![at].read_pos = pos] /\ Answered
    PROVE  KeepsHandles
  <1>1. Len(open_files) \in Nat /\ DOMAIN open_files = 1 .. Len(open_files)
    BY LenProperties DEF IInv, Falling
  <1>2. /\ \A handle \in OpenHandles :
               \E i \in 1 .. Len(open_files) : open_files[i].handle_num = handle
        /\ \A i \in 1 .. Len(open_files) : open_files[i].handle_num \in OpenHandles
    BY <1>1 DEF OpenHandles
  <1>3. ASSUME NEW i \in 1 .. Len(open_files),
               NEW j \in 1 .. Len(open_files'), open_files'[j] = open_files[i],
               NEW handle, open_files[i].handle_num = handle
        PROVE  Kept(handle)
    BY <1>3, FoundAfter DEF Kept
  <1>4. CASE UNCHANGED open_files
    BY <1>2, <1>3, <1>4 DEF KeepsHandles
  <1>5. ASSUME NEW header, open_files' = <<OpenFile(header)>> \o open_files
        PROVE  KeepsHandles
    <2>1. /\ Len(open_files') = Len(open_files) + 1
          /\ \A k \in 1 .. Len(open_files) : open_files'[k + 1] = open_files[k]
      BY <1>5, Prepended DEF IInv
    <2>2. ASSUME NEW handle \in OpenHandles PROVE Kept(handle)
      <3>1. PICK i \in 1 .. Len(open_files) : open_files[i].handle_num = handle
        BY <1>2
      <3>2. open_files'[i + 1] = open_files[i]
        BY <2>1
      <3>3. i + 1 \in 1 .. Len(open_files) + 1
        BY <1>1
      <3> QED BY <1>3, <2>1, <3>1, <3>2, <3>3
    <2> QED BY <2>2 DEF KeepsHandles
  <1>6. ASSUME NEW at \in 1 .. Len(open_files), open_files' = RemoveAt(open_files, at),
               result' = Answer("closed", open_files[at].handle_num)
        PROVE  KeepsHandles
    <2>1. /\ Len(open_files') = Len(open_files) - 1
          /\ \A k \in 1 .. Len(open_files) - 1 :
                 open_files'[k] = IF k <= at - 1 THEN open_files[k] ELSE open_files[k + 1]
      BY <1>6, Removed DEF IInv
    <2>2. ASSUME NEW handle \in OpenHandles \ {open_files[at].handle_num}
          PROVE  Kept(handle)
      <3>1. PICK i \in 1 .. Len(open_files) : open_files[i].handle_num = handle
        BY <1>2
      <3>2. CASE i < at
        <4>1. i \in 1 .. Len(open_files') /\ open_files'[i] = open_files[i]
          BY <1>1, <2>1, <3>2
        <4> QED BY <4>1, <3>1, <1>3
      <3>3. CASE at < i
        <4>1. i - 1 \in 1 .. Len(open_files') /\ open_files'[i - 1] = open_files[i]
          BY <1>1, <2>1, <3>3
        <4> QED BY <4>1, <3>1, <1>3
      <3>4. i # at
        BY <2>2, <3>1
      <3> QED BY <1>1, <3>2, <3>3, <3>4
    <2> QED BY <1>2, <1>6, <2>2 DEF KeepsHandles
  <1>7. ASSUME NEW at \in 1 .. Len(open_files), NEW pos,
               NEW called, called = open_files[at].handle_num,
               open_files' = [open_files EXCEPT ![at].read_pos = pos], Answered
        PROVE  KeepsHandles
    <2> DEFINE x == [open_files[at] EXCEPT !.read_pos = pos]
    <2>1. /\ Len(open_files') = Len(open_files)
          /\ \A k \in 1 .. Len(open_files) :
                 open_files'[k] = IF k = at THEN x ELSE open_files[k]
      <3>1. PICK S : open_files \in Seq(S)
        BY DEF IInv, Falling
      <3> DEFINE T == S \cup {x}
      <3>2. open_files \in Seq(T) /\ x \in T
        BY <3>1, SeqMonotonic
      <3>3. /\ Len([open_files EXCEPT ![at] = x]) = Len(open_files)
            /\ \A k \in 1 .. Len(open_files) :
                   [open_files EXCEPT ![at] = x][k] = IF k = at THEN x ELSE open_files[k]
        BY <3>2, ExceptSeq
      <3> QED BY <3>3, <1>7
    <2>2. ASSUME NEW handle \in OpenHandles \ {called}
          PROVE  Kept(handle)
      <3>1. PICK i \in 1 .. Len(open_files) : open_files[i].handle_num = handle
        BY <1>2
      <3>2. i # at
        BY <1>7, <2>2, <3>1
      <3>3. i \in 1 .. Len(open_files') /\ open_files'[i] = open_files[i]
        BY <2>1, <3>2
      <3> QED BY <3>1, <3>3, <1>3
    <2>3. /\ at \in 1 .. Len(open_files') /\ open_files'[at] = x
          /\ "handle_num" \in DOMAIN open_files[at]
      BY <2>1 DEF IInv, Falling
    <2>4. open_files'[at].handle_num = called
      BY <1>7, <2>3
    <2>5. called \in OpenHandles' /\ FileOf(called) = open_files[at] /\ FileOf(called)' = x
      <3> HIDE DEF x
      <3> QED BY <1>7, <2>3, <2>4, FoundAfter
    <2>6. ASSUME NEW f, NEW g, g = [f EXCEPT !.read_pos = pos]
          PROVE  g = [f EXCEPT !.read_pos = g.read_pos]
      <3>1. CASE "read_pos" \in DOMAIN f
        BY <3>1, <2>6
      <3>2. CASE "read_pos" \notin DOMAIN f
        BY <3>2, <2>6
      <3> QED BY <3>1, <3>2
    <2>7. Moved(called)
      BY <1>7, <2>5, <2>6 DEF Moved, Answered
    <2>8. called \in OpenHandles
      BY <1>2, <1>7
    <2> QED BY <2>2, <2>7, <2>8 DEF KeepsHandles
  <1> QED BY <1>4, <1>5, <1>6, <1>7

LEMMA NextKeepsHandles == IInv /\ [Next]_vars => [KeepsHandles]_vars
  <1> SUFFICES ASSUME IInv, Next PROVE KeepsHandles
    BY Zenon
  <1>0. IInv'
    BY NextHolds
  <1>1. ASSUME NEW path, NEW reads, InitrdOpen(path, reads) PROVE KeepsHandles
    <2>1. UNCHANGED open_files \/ \E header : open_files' = <<OpenFile(header)>> \o open_files
      BY <1>1 DEF InitrdOpen, OpenTar, Return
    <2> QED BY <2>1, <1>0, OutcomeKeeps
  <1>2. ASSUME NEW path, InitrdExists(path) \/ InitrdSize(path) \/ InitrdLastModified(path)
        PROVE  KeepsHandles
    <2>1. UNCHANGED open_files
      BY <1>2 DEF InitrdExists, InitrdSize, InitrdLastModified, Field, OpenTar, Method, Return
    <2> QED BY <2>1, <1>0, OutcomeKeeps
  <1>3. ASSUME NEW path, InitrdIsDirectory(path) \/ InitrdList(path) PROVE KeepsHandles
    <2>1. UNCHANGED open_files
      BY <1>3 DEF InitrdIsDirectory, InitrdList, OpenTar, Return
    <2> QED BY <2>1, <1>0, OutcomeKeeps
  <1>4. ASSUME NEW handle, InitrdClose(handle) PROVE KeepsHandles
    <2>1. CASE FindOpenFile(handle) = 0
      <3>1. UNCHANGED open_files
        BY <1>4, <2>1 DEF InitrdClose
      <3> QED BY <3>1, <1>0, OutcomeKeeps
    <2>2. CASE FindOpenFile(handle) # 0
      <3>1. /\ FindOpenFile(handle) \in 1 .. Len(open_files)
            /\ open_files[FindOpenFile(handle)].handle_num = handle
        BY <2>2, FoundHasHandle DEF IInv
      <3>2. /\ open_files' = RemoveAt(open_files, FindOpenFile(handle))
            /\ result' = Answer("closed", handle)
        BY <1>4, <2>2 DEF InitrdClose
      <3> QED BY <3>1, <3>2, <1>0, OutcomeKeeps
    <2> QED BY <2>1, <2>2
  <1>5. ASSUME NEW handle,
               \/ InitrdRead(handle)
               \/ \E whence, offset : InitrdSeek(handle, whence, offset)
        PROVE  KeepsHandles
    <2>1. \/ UNCHANGED open_files
          \/ \E at \in 1 .. Len(open_files) : \E pos :
                 open_files' = [open_files EXCEPT ![at].read_pos = pos] /\ Answered
      <3>1. CASE InitrdRead(handle)
        <4>1. CASE FindOpenFile(handle) = 0
          BY <3>1, <4>1 DEF InitrdRead
        <4>2. CASE FindOpenFile(handle) # 0
          <5>1. /\ \E pos : open_files' = [open_files EXCEPT ![FindOpenFile(handle)].read_pos = pos]
                /\ \E value : result' = Answer("read", value)
            BY <3>1, <4>2 DEF InitrdRead
          <5>2. Answered
            BY <5>1 DEF Answered, Answer
          <5> QED BY <5>1, <5>2, <4>2, FoundIsPlace DEF IInv
        <4> QED BY <4>1, <4>2
      <3>2. ASSUME NEW whence, NEW offset, InitrdSeek(handle, whence, offset)
            PROVE  \/ UNCHANGED open_files
                   \/ \E at \in 1 .. Len(open_files) : \E pos :
                          open_files' = [open_files EXCEPT ![at].read_pos = pos] /\ Answered
        BY <3>2, FoundIsPlace DEF InitrdSeek, IInv, Answered, Answer
      <3> QED BY <1>5, <3>1, <3>2
    <2> QED BY <2>1, <1>0, OutcomeKeeps
  <1> QED BY <1>1, <1>2, <1>3, <1>4, <1>5 DEF Next

(* Whatever other files are opened, closed, read and sought, in any order    *)
(* and any number, an open file stays what it is under its handle until it   *)
(* is closed itself, and moves only with its own reads and seeks.            *)
THEOREM HandlesStay == Spec => HandlesKept
  BY InitHolds, NextHolds, NextKeepsHandles, PTL DEF Spec, HandlesKept

-----------------------------------------------------------------------------
(* Induction over the natural numbers, for a set instead of a predicate.     *)
LEMMA Induction ==
    ASSUME NEW S, 0 \in S, \A n \in Nat : n \in S => n + 1 \in S
    PROVE  \A n \in Nat : n \in S
  <1> DEFINE R == OpToRel(<, Nat)
  <1>1. IsWellFoundedOn(R, Nat)
    BY NatLessThanWellFounded
  <1>2. \A m, n \in Nat : m < n => <<m, n>> \in R
    BY DEF OpToRel
  <1> HIDE DEF R
  <1>3. SUFFICES ASSUME NEW T, T = Nat \ S, T # {} PROVE FALSE
    OBVIOUS
  <1>4. PICK x \in T : \A y \in T : ~ (<<y, x>> \in R)
    BY <1>1, <1>3, WFMin
  <1>5. x \in Nat /\ x # 0 /\ x - 1 \in Nat
    BY <1>3, <1>4
  <1>6. x - 1 \in T
    <2>1. (x - 1) + 1 = x
      BY <1>5
    <2> QED BY <1>3, <1>4, <1>5, <2>1
  <1>7. <<x - 1, x>> \in R
    BY <1>2, <1>5
  <1> QED BY <1>4, <1>6, <1>7, Zenon

(* What starts as a and is stepped by F n times.                             *)
Steps(f, n, a, F) == f[0] = a /\ \A k \in 1 .. n : f[k] = F[<<k, f[k - 1]>>]

LEMMA Stepped ==
    ASSUME NEW A, NEW a \in A, NEW n \in Nat, NEW F \in [(1 .. n) \X A -> A]
    PROVE  \E f \in [0 .. n -> A] : Steps(f, n, a, F)
  <1> DEFINE Good(f, k) == f[0] = a /\ \A i \in 1 .. k : f[i] = F[<<i, f[i - 1]>>]
             Done == {k \in Nat : k <= n => \E f \in [0 .. k -> A] : Good(f, k)}
  <1>1. 0 \in Done
    <2>1. [i \in 0 .. 0 |-> a] \in [0 .. 0 -> A] /\ Good([i \in 0 .. 0 |-> a], 0)
      OBVIOUS
    <2> QED BY <2>1
  <1>2. ASSUME NEW k \in Nat, k \in Done PROVE k + 1 \in Done
    <2>1. SUFFICES ASSUME k + 1 <= n PROVE \E f \in [0 .. k + 1 -> A] : Good(f, k + 1)
      OBVIOUS
    <2>2. PICK f \in [0 .. k -> A] : Good(f, k)
      BY <1>2, <2>1
    <2> DEFINE g == [i \in 0 .. k + 1 |-> IF i <= k THEN f[i] ELSE F[<<k + 1, f[k]>>]]
    <2>3. F[<<k + 1, f[k]>>] \in A
      BY <2>1, <2>2
    <2>4. g \in [0 .. k + 1 -> A] /\ g[0] = a
      BY <2>2, <2>3
    <2>5. ASSUME NEW i \in 1 .. k + 1 PROVE g[i] = F[<<i, g[i - 1]>>]
      <3>1. CASE i <= k
        <4>1. i \in 1 .. k /\ g[i] = f[i] /\ g[i - 1] = f[i - 1]
          BY <3>1
        <4> HIDE DEF g
        <4> QED BY <2>2, <4>1
      <3>2. CASE i = k + 1
        <4>1. g[i] = F[<<k + 1, f[k]>>] /\ g[i - 1] = f[k]
          BY <3>2
        <4> HIDE DEF g
        <4> QED BY <3>2, <4>1
      <3>3. i <= k \/ i = k + 1
        OBVIOUS
      <3> QED BY <3>1, <3>2, <3>3
    <2> HIDE DEF g
    <2> QED BY <2>4, <2>5
  <1> HIDE DEF Done
  <1>3. n \in Done
    BY <1>1, <1>2, Induction
  <1> QED BY <1>3 DEF Done, Steps

(* FlattenSeq puts the sequences one behind the other: F holds what there is *)
(* after each of them.                                                       *)
Joined(F, seqs, n) == F[0] = <<>> /\ \A i \in 1 .. n : F[i] = F[i - 1] \o seqs[i]
Flattens(seqs, n, F) == FlattenSeq([i \in 1 .. n |-> seqs[i]]) = F[n]

LEMMA JoinedExists ==
    ASSUME NEW T, NEW n \in Nat, NEW seqs \in [1 .. n -> Seq(T)]
    PROVE  \E F \in [0 .. n -> Seq(T)] : Joined(F, seqs, n)
  <1> DEFINE G == [e \in (1 .. n) \X Seq(T) |-> e[2] \o seqs[e[1]]]
  <1>1. G \in [(1 .. n) \X Seq(T) -> Seq(T)] /\ <<>> \in Seq(T)
    BY ConcatProperties, EmptySeq
  <1>2. PICK F \in [0 .. n -> Seq(T)] : Steps(F, n, <<>>, G)
    <2> HIDE DEF G
    <2> QED BY <1>1, Stepped
  <1>3. ASSUME NEW i \in 1 .. n PROVE F[i] = F[i - 1] \o seqs[i]
    <2>1. F[i] = G[<<i, F[i - 1]>>] /\ F[i - 1] \in Seq(T)
      <3>1. i - 1 \in 0 .. n
        OBVIOUS
      <3> HIDE DEF G
      <3> QED BY <1>2, <3>1, Zenon DEF Steps
    <2> QED BY <2>1
  <1> QED BY <1>2, <1>3 DEF Joined, Steps

LEMMA FlattenIsJoined ==
    ASSUME NEW T, NEW n \in Nat, NEW seqs \in [1 .. n -> Seq(T)],
           NEW F \in [0 .. n -> Seq(T)], Joined(F, seqs, n), NEW k \in 0 .. n
    PROVE  Flattens(seqs, k, F)
  <1> DEFINE s == [i \in 1 .. k |-> seqs[i]]
  <1>1. s \in Seq(Seq(T)) /\ Len(s) = k /\ \A i \in 1 .. k : s[i] = seqs[i]
    OBVIOUS
  <1> HIDE DEF s
  <1>2. CASE k = 0
    <2>1. s = <<>>
      BY <1>1, <1>2, EmptySeq
    <2> QED BY <1>1, <1>2, <2>1 DEF FlattenSeq, Joined, s, Flattens
  <1>3. CASE k # 0
    <2> DEFINE Step(f, i) == IF i = 1 THEN s[i] ELSE f[i - 1] \o s[i]
               g == [i \in 1 .. k |-> F[i]]
    <2>1. PICK flatten : flatten = CHOOSE f : f = [i \in 1 .. k |-> Step(f, i)]
      OBVIOUS
    <2>2. FlattenSeq(s) = flatten[k]
      BY <1>1, <1>3, <2>1 DEF FlattenSeq
    <2>3. ASSUME NEW i \in 1 .. k PROVE F[i] = Step(g, i)
      <3>0. i \in 1 .. n
        OBVIOUS
      <3>1. F[i] = F[i - 1] \o seqs[i] /\ s[i] = seqs[i] /\ seqs[i] \in Seq(T)
        BY <1>1, <3>0, Zenon DEF Joined
      <3>2. CASE i = 1
        <4>1. <<>> \o seqs[i] = seqs[i]
          BY <3>1, ConcatEmptySeq
        <4>2. F[i - 1] = <<>>
          BY <3>2 DEF Joined
        <4>3. Step(g, i) = s[i]
          BY <3>2
        <4> QED BY <3>1, <4>1, <4>2, <4>3, Zenon
      <3>3. CASE i # 1
        <4>1. g[i - 1] = F[i - 1]
          BY <3>3
        <4>2. Step(g, i) = g[i - 1] \o s[i]
          BY <3>3, Zenon
        <4> QED BY <3>1, <4>1, <4>2, Zenon
      <3> QED BY <3>2, <3>3
    <2>4. g = [i \in 1 .. k |-> Step(g, i)]
      BY <2>3
    <2> HIDE DEF g
    <2>5. flatten = [i \in 1 .. k |-> Step(flatten, i)]
      BY <2>1, <2>4
    <2>6. \A i \in 1 .. k : flatten[i] = Step(flatten, i)
      BY <2>5
    <2> DEFINE Same == {i \in Nat : i + 1 <= k => flatten[i + 1] = F[i + 1]}
    <2>7. 0 \in Same
      <3>0. 1 \in 1 .. k
        BY <1>3
      <3>1. 1 \in 1 .. k /\ flatten[1] = Step(flatten, 1)
        BY <2>6, <3>0, Zenon
      <3>2. F[1] = Step(g, 1)
        BY <2>3, <3>1
      <3> QED BY <3>1, <3>2
    <2>8. ASSUME NEW i \in Nat, i \in Same PROVE i + 1 \in Same
      <3>1. SUFFICES ASSUME i + 2 <= k PROVE flatten[i + 2] = F[i + 2]
        OBVIOUS
      <3>2. i + 2 \in 1 .. k /\ i + 2 # 1 /\ (i + 2) - 1 = i + 1 /\ i + 1 \in 1 .. k
        BY <3>1
      <3>3. flatten[i + 2] = flatten[i + 1] \o s[i + 2]
        BY <2>6, <3>2
      <3>4. F[i + 2] = F[i + 1] \o seqs[i + 2]
        <4>1. i + 2 \in 1 .. n
          BY <3>2
        <4>2. F[i + 2] = F[(i + 2) - 1] \o seqs[i + 2]
          BY <4>1, Zenon DEF Joined
        <4> QED BY <3>2, <4>2, Zenon
      <3>5. flatten[i + 1] = F[i + 1] /\ s[i + 2] = seqs[i + 2]
        BY <1>1, <2>8, <3>2
      <3> QED BY <3>3, <3>4, <3>5, Zenon
    <2> HIDE DEF Same
    <2>9. k - 1 \in Same
      <3>1. k - 1 \in Nat
        BY <1>3
      <3> QED BY <2>7, <2>8, <3>1, Induction
    <2>10. flatten[k] = F[k]
      BY <1>3, <2>9 DEF Same
    <2> QED BY <2>2, <2>10 DEF s, Flattens
  <1> QED BY <1>2, <1>3

-----------------------------------------------------------------------------
(* oct2bin's n after each digit. *)
LEMMA OctalSteps ==
    ASSUME NEW m \in Nat, NEW str \in [1 .. m -> Nat]
    PROVE  \E v \in [0 .. m -> Nat] :
               v[0] = 0 /\ v[m] = Oct2Bin(str) /\ \A k \in 1 .. m : v[k] = 8 * v[k - 1] + str[k]
  <1> DEFINE Step(f, k) == IF k = 0 THEN 0 ELSE 8 * f[k - 1] + str[k]
             F == [e \in (1 .. m) \X Nat |-> 8 * e[2] + str[e[1]]]
  <1>1. F \in [(1 .. m) \X Nat -> Nat]
    OBVIOUS
  <1>2. \E f \in [0 .. m -> Nat] : Steps(f, m, 0, F)
    <2> HIDE DEF F
    <2>1. 0 \in Nat /\ m \in Nat
      BY <1>1
    <2> QED BY <1>1, <2>1, Stepped
  <1>3. PICK f \in [0 .. m -> Nat] : f[0] = 0 /\ \A k \in 1 .. m : f[k] = F[<<k, f[k - 1]>>]
    BY <1>2 DEF Steps
  <1>4. \A k \in 0 .. m : f[k] = Step(f, k)
    <2> SUFFICES ASSUME NEW k \in 0 .. m PROVE f[k] = Step(f, k)
      OBVIOUS
    <2>1. CASE k = 0
      BY <1>3, <2>1
    <2>2. CASE k # 0
      <3>1. k \in 1 .. m /\ k - 1 \in 0 .. m
        BY <2>2
      <3>2. f[k] = F[<<k, f[k - 1]>>] /\ f[k - 1] \in Nat
        BY <1>3, <3>1
      <3> QED BY <2>2, <3>1, <3>2
    <2> QED BY <2>1, <2>2
  <1>5. f = [k \in 0 .. m |-> Step(f, k)]
    BY <1>4
  <1>6. PICK v : v = CHOOSE g : g = [k \in 0 .. m |-> Step(g, k)]
    OBVIOUS
  <1>7. v = [k \in 0 .. m |-> Step(v, k)]
    BY <1>5, <1>6
  <1>8. Len(str) = m
    <2>1. str \in Seq(Nat)
      OBVIOUS
    <2> QED OBVIOUS
  <1>9. v[m] = Oct2Bin(str)
    BY <1>6, <1>8 DEF Oct2Bin
  <1> HIDE DEF Step
  <1>10. \A k \in 0 .. m : v[k] = Step(v, k)
    BY <1>7
  <1>11. v[0] = 0 /\ \A k \in 1 .. m : v[k] = 8 * v[k - 1] + str[k]
    BY <1>10 DEF Step
  <1> DEFINE Number == {k \in Nat : k <= m => v[k] \in Nat}
  <1>12. 0 \in Number
    BY <1>11
  <1>13. ASSUME NEW k \in Nat, k \in Number PROVE k + 1 \in Number
    BY <1>11, <1>13
  <1>14. ASSUME NEW k \in 0 .. m PROVE v[k] \in Nat
    <2> HIDE DEF Number
    <2>1. k \in Number
      <3>1. k \in Nat
        OBVIOUS
      <3> QED BY <1>12, <1>13, <3>1, Induction
    <2> QED BY <2>1 DEF Number
  <1>15. v \in [0 .. m -> Nat]
    BY <1>7, <1>14
  <1> QED BY <1>9, <1>11, <1>15

LEMMA OctalNumber ==
    ASSUME NEW m \in Nat, NEW str \in [1 .. m -> Nat]
    PROVE  Oct2Bin(str) \in Nat
  BY OctalSteps

(* What is left above the digits. *)
LEMMA AboveSteps ==
    ASSUME NEW n \in Nat
    PROVE  /\ Above(n) \in [0 .. Digits -> Nat] /\ Above(n)[0] = n
           /\ \A k \in 1 .. Digits : Above(n)[k] = Above(n)[k - 1] \div 8
  <1> DEFINE Step(f, k) == IF k = 0 THEN n ELSE f[k - 1] \div 8
             F == [e \in (1 .. Digits) \X Nat |-> e[2] \div 8]
  <1>1. F \in [(1 .. Digits) \X Nat -> Nat] /\ Digits \in Nat
    BY TarAssumption
  <1>2. \E f \in [0 .. Digits -> Nat] : Steps(f, Digits, n, F)
    <2> HIDE DEF F
    <2>1. n \in Nat /\ Digits \in Nat
      BY <1>1
    <2> QED BY <1>1, <2>1, Stepped
  <1>3. PICK f \in [0 .. Digits -> Nat] : f[0] = n /\ \A k \in 1 .. Digits : f[k] = F[<<k, f[k - 1]>>]
    BY <1>2 DEF Steps
  <1>4. \A k \in 0 .. Digits : f[k] = Step(f, k)
    <2> SUFFICES ASSUME NEW k \in 0 .. Digits PROVE f[k] = Step(f, k)
      OBVIOUS
    <2>1. CASE k = 0
      BY <1>3, <2>1
    <2>2. CASE k # 0
      <3>1. k \in 1 .. Digits /\ k - 1 \in 0 .. Digits
        BY <2>2, <1>1
      <3>2. f[k] = F[<<k, f[k - 1]>>] /\ f[k - 1] \in Nat
        BY <1>3, <3>1
      <3> QED BY <2>2, <3>1, <3>2
    <2> QED BY <2>1, <2>2
  <1>5. f = [k \in 0 .. Digits |-> Step(f, k)]
    BY <1>4
  <1>6. PICK v : v = CHOOSE g : g = [k \in 0 .. Digits |-> Step(g, k)]
    OBVIOUS
  <1>7. v = [k \in 0 .. Digits |-> Step(v, k)]
    BY <1>5, <1>6
  <1>8. v = Above(n)
    BY <1>6 DEF Above
  <1> HIDE DEF Step
  <1>9. \A k \in 0 .. Digits : v[k] = Step(v, k)
    BY <1>7
  <1>10. v[0] = n /\ \A k \in 1 .. Digits : v[k] = v[k - 1] \div 8
    BY <1>1, <1>9 DEF Step
  <1> DEFINE Number == {k \in Nat : k <= Digits => v[k] \in Nat}
  <1>11. 0 \in Number
    BY <1>10
  <1>12. ASSUME NEW k \in Nat, k \in Number PROVE k + 1 \in Number
    BY <1>1, <1>10, <1>12
  <1>13. ASSUME NEW k \in 0 .. Digits PROVE v[k] \in Nat
    <2> HIDE DEF Number
    <2>1. k \in Number
      <3>1. k \in Nat
        BY <1>1
      <3> QED BY <1>11, <1>12, <3>1, Induction
    <2> QED BY <2>1 DEF Number
  <1>14. v \in [0 .. Digits -> Nat]
    BY <1>7, <1>13
  <1> QED BY <1>8, <1>10, <1>14

(* A size that fits the field comes out of it as it went in.                 *)
LEMMA OctalShape == \A n \in Nat : Octal(n) \in [1 .. Digits -> Nat]
  <1>1. SUFFICES ASSUME NEW n \in Nat PROVE Octal(n) \in [1 .. Digits -> Nat]
    OBVIOUS
  <1>2. \A m \in Nat : m % 8 \in Nat
    OBVIOUS
  <1>3. \A k \in 1 .. Digits : Above(n)[Digits - k] \in Nat
    BY AboveSteps, TarAssumption
  <1> QED BY <1>2, <1>3 DEF Octal

LEMMA DigitsOf == \A n \in Nat : n % 8 = n - 8 * (n \div 8)
  OBVIOUS

LEMMA OctalIsRead ==
    ASSUME NEW n \in Nat, Fits(n)
    PROVE  Oct2Bin(Octal(n)) = n
  <1>1. Digits \in Nat /\ Octal(n) \in [1 .. Digits -> Nat]
    BY OctalShape, TarAssumption
  <1>2. PICK v \in [0 .. Digits -> Nat] :
            /\ v[0] = 0 /\ v[Digits] = Oct2Bin(Octal(n))
            /\ \A k \in 1 .. Digits : v[k] = 8 * v[k - 1] + Octal(n)[k]
    BY <1>1, OctalSteps
  <1>3. PICK left \in [0 .. Digits -> Nat] :
            /\ left = Above(n) /\ left[0] = n
            /\ \A k \in 1 .. Digits : left[k] = left[k - 1] \div 8
    BY AboveSteps
  <1> DEFINE Read == {k \in Nat : k <= Digits => v[k] = left[Digits - k]}
  <1>4. 0 \in Read
    BY <1>1, <1>2, <1>3 DEF Fits
  <1>5. ASSUME NEW k \in Nat, k \in Read PROVE k + 1 \in Read
    <2>1. SUFFICES ASSUME k + 1 <= Digits PROVE v[k + 1] = left[Digits - (k + 1)]
      OBVIOUS
    <2>2. v[k] = left[Digits - k]
      <3>1. k <= Digits
        BY <1>1, <2>1
      <3> QED BY <1>5, <3>1
    <2>3. k + 1 \in 1 .. Digits /\ Digits - k \in 1 .. Digits
      BY <1>1, <2>1
    <2>4. v[k + 1] = 8 * v[k] + Octal(n)[k + 1]
      BY <1>2, <2>3
    <2>5. PICK rest \in Nat : rest = left[Digits - (k + 1)]
      BY <1>1, <1>3, <2>1
    <2>6. Octal(n)[k + 1] = rest % 8
      BY <1>3, <2>3, <2>5 DEF Octal
    <2>7. left[Digits - k] = rest \div 8
      BY <1>1, <1>3, <2>3, <2>5
    <2>8. rest % 8 = rest - 8 * (rest \div 8)
      BY DigitsOf
    <2> QED BY <2>2, <2>4, <2>5, <2>6, <2>7, <2>8
  <1> HIDE DEF Read
  <1>6. Digits \in Read
    BY <1>1, <1>4, <1>5, Induction
  <1> QED BY <1>1, <1>2, <1>3, <1>6 DEF Read

-----------------------------------------------------------------------------
(* next_file's ((size + 511) & ~511) is the padding that tar writes.         *)
LEMMA BlocksForIs ==
    ASSUME NEW n \in Nat
    PROVE  BlocksFor(n) = (n + Block - 1) \div Block /\ BlocksFor(n) \in Nat
  <1>1. PICK w \in Nat : w = Block /\ w > 0
    BY TarAssumption
  <1>2. PICK q \in Nat, r \in 0 .. w - 1 : n + w - 1 = w * q + r /\ q = (n + w - 1) \div w
    <2>1. \A b \in Nat \ {0} : \A v \in Nat : v \div b \in Nat /\ v - b * (v \div b) \in 0 .. b - 1
      OBVIOUS
    <2>2. n + w - 1 \in Nat /\ w \in Nat \ {0}
      BY <1>1
    <2>3. PICK q \in Nat : q = (n + w - 1) \div w /\ n + w - 1 - w * q \in 0 .. w - 1
      BY <2>1, <2>2
    <2>4. n + w - 1 = w * q + (n + w - 1 - w * q)
      BY <2>2
    <2> QED BY <2>3, <2>4
  <1>3. q * w >= n /\ q <= n /\ (q = 0 \/ (q - 1) * w < n)
    <2>1. q * w >= n
      BY <1>1, <1>2
    <2>2. (q - 1) * w = w * q - w
      BY <1>1, <1>2
    <2>3. CASE q = 0
      BY <2>1, <2>3, <1>1
    <2>4. CASE q > 0
      <3>1. (q - 1) * w < n
        BY <1>1, <1>2, <2>2
      <3>2. q - 1 <= (q - 1) * w
        BY <1>1, <2>4
      <3> QED BY <2>1, <3>1, <3>2
    <2> QED BY <2>3, <2>4
  <1>4. ASSUME NEW b \in 0 .. n, b * w >= n, b = 0 \/ (b - 1) * w < n PROVE b = q
    <2>1. CASE b < q
      <3>1. PICK d \in Nat : q - 1 = b + d
        <4>1. q - 1 - b \in Nat /\ q - 1 = b + (q - 1 - b)
          BY <2>1
        <4> QED BY <4>1
      <3>2. (q - 1) * w = b * w + d * w /\ d * w >= 0
        BY <3>1, <1>1
      <3> QED BY <1>3, <1>4, <2>1, <3>2
    <2>2. CASE q < b
      <3>1. PICK d \in Nat : b - 1 = q + d
        <4>1. b - 1 - q \in Nat /\ b - 1 = q + (b - 1 - q)
          BY <2>2
        <4> QED BY <4>1
      <3>2. (b - 1) * w = q * w + d * w /\ d * w >= 0
        BY <3>1, <1>1
      <3> QED BY <1>3, <1>4, <2>2, <3>2
    <2> QED BY <2>1, <2>2
  <1>5. BlocksFor(n) = q
    <2> DEFINE Fit(b) == b \in 0 .. n /\ b * w >= n /\ (b = 0 \/ (b - 1) * w < n)
    <2>1. Fit(q) /\ \A b : Fit(b) => b = q
      <3>1. q \in 0 .. n
        BY <1>3
      <3> QED BY <1>3, <1>4, <3>1, Zenon
    <2>2. BlocksFor(n) = CHOOSE b : Fit(b)
      BY <1>1, Zenon DEF BlocksFor
    <2> HIDE DEF Fit
    <2> QED BY <2>1, <2>2
  <1> QED BY <1>1, <1>2, <1>5

-----------------------------------------------------------------------------
(* What a file is in the archive, and where its header is.                   *)
Stored(file) ==
    <<HeaderOf(file)>> \o [k \in 1 .. BlocksFor(file.size) |-> ContentsOf(file)]
BlocksOf(list) == {HeaderOf(file) : file \in Range(list)} \cup {ContentsOf(file) : file \in Range(list)}
Place(list, n) == 1 + Len(Layout(SubSeq(list, 1, n - 1)))

(* Every block says how long its file is, those of its contents too.         *)
LEMMA SizeInBlock ==
    ASSUME NEW list \in Archives, NEW file \in Range(list)
    PROVE  /\ file.size \in Nat /\ BlocksFor(file.size) \in Nat
           /\ Oct2Bin(HeaderOf(file).file_size) = file.size
           /\ Oct2Bin(ContentsOf(file).file_size) = file.size
           /\ HeaderOf(file).ustar
  <1>1. file.size \in Nat /\ Fits(file.size)
    BY InitrdAssumption
  <1>2. Oct2Bin(Octal(file.size)) = file.size /\ BlocksFor(file.size) \in Nat
    BY <1>1, OctalIsRead, BlocksForIs
  <1>3. HeaderOf(file).file_size = Octal(file.size) /\ HeaderOf(file).ustar = TRUE
    BY DEF HeaderOf
  <1>4. ContentsOf(file).file_size = Octal(file.size)
    BY DEF ContentsOf, HeaderOf
  <1> QED BY <1>1, <1>2, <1>3, <1>4

LEMMA ListIsSeq ==
    ASSUME NEW list \in Archives
    PROVE  /\ list \in Seq(Range(list)) /\ Len(list) \in Nat /\ DOMAIN list = 1 .. Len(list)
           /\ \A n \in 1 .. Len(list) : list[n] \in Range(list)
  <1>1. list \in Seq(Range(list))
    BY InitrdAssumption
  <1> QED BY <1>1, LenProperties, ElementOfSeq

LEMMA StoredShape ==
    ASSUME NEW list \in Archives, NEW file \in Range(list)
    PROVE  /\ Stored(file) \in Seq(BlocksOf(list))
           /\ Len(Stored(file)) = 1 + BlocksFor(file.size) /\ Stored(file)[1] = HeaderOf(file)
  <1>1. HeaderOf(file) \in BlocksOf(list) /\ ContentsOf(file) \in BlocksOf(list)
    BY DEF BlocksOf
  <1>2. PICK b \in Nat : b = BlocksFor(file.size)
    BY SizeInBlock
  <1>3. PICK header : header = HeaderOf(file)
    OBVIOUS
  <1>4. PICK contents : contents = [k \in 1 .. b |-> ContentsOf(file)]
    OBVIOUS
  <1>5. contents \in Seq(BlocksOf(list)) /\ Len(contents) = b
    BY <1>1, <1>4
  <1>6. <<header>> \in Seq(BlocksOf(list)) /\ Len(<<header>>) = 1 /\ <<header>>[1] = header
    BY <1>1, <1>3
  <1>7. Stored(file) = <<header>> \o contents
    BY <1>2, <1>3, <1>4 DEF Stored
  <1>8. /\ Stored(file) \in Seq(BlocksOf(list)) /\ Len(Stored(file)) = 1 + b
        /\ \A i \in 1 .. 1 + b : Stored(file)[i] = IF i <= 1 THEN <<header>>[i] ELSE contents[i - 1]
    BY <1>5, <1>6, <1>7, ConcatProperties
  <1> QED BY <1>2, <1>3, <1>6, <1>8

(* The archive after each of its files. *)
LEMMA LayoutSteps ==
    ASSUME NEW list \in Archives
    PROVE  \E F \in [0 .. Len(list) -> Seq(BlocksOf(list))] :
               /\ F[0] = <<>> /\ F[Len(list)] = Layout(list)
               /\ \A n \in 1 .. Len(list) : F[n] = F[n - 1] \o Stored(list[n])
               /\ \A n \in 0 .. Len(list) : Layout(SubSeq(list, 1, n)) = F[n]
  <1> DEFINE seqs == [n \in 1 .. Len(list) |-> Stored(list[n])]
             T == BlocksOf(list)
  <1>1. /\ list \in Seq(Range(list)) /\ Len(list) \in Nat /\ DOMAIN list = 1 .. Len(list)
        /\ \A n \in 1 .. Len(list) : list[n] \in Range(list)
    BY ListIsSeq
  <1>2. seqs \in [1 .. Len(list) -> Seq(T)] /\ \A n \in 1 .. Len(list) : seqs[n] = Stored(list[n])
    BY <1>1, StoredShape
  <1>3. PICK F \in [0 .. Len(list) -> Seq(T)] : Joined(F, seqs, Len(list))
    <2> HIDE DEF seqs, T
    <2> QED BY <1>1, <1>2, JoinedExists
  <1>4. ASSUME NEW n \in 0 .. Len(list) PROVE Layout(SubSeq(list, 1, n)) = F[n]
    <2>1. Flattens(seqs, n, F)
      <3>1. Len(list) \in Nat /\ seqs \in [1 .. Len(list) -> Seq(T)]
        BY <1>1, <1>2
      <3>2. F \in [0 .. Len(list) -> Seq(T)] /\ Joined(F, seqs, Len(list))
        BY <1>3
      <3> HIDE DEF seqs, T
      <3> QED BY <3>1, <3>2, FlattenIsJoined
    <2> DEFINE front == SubSeq(list, 1, n)
    <2>2. DOMAIN front = 1 .. n /\ \A i \in 1 .. n : front[i] = list[i]
      <3>1. \A i \in 1 .. n : list[i] \in Range(list)
        BY <1>1
      <3>2. /\ front \in Seq(Range(list)) /\ Len(front) = IF 1 <= n THEN n - 1 + 1 ELSE 0
            /\ \A i \in 1 .. n - 1 + 1 : front[i] = list[1 + i - 1]
        BY <3>1, <1>1, SubSeqProperties
      <3>3. Len(front) = n
        BY <3>2, <1>1
      <3> HIDE DEF front
      <3>4. DOMAIN front = 1 .. n
        BY <3>2, <3>3, LenProperties
      <3>5. ASSUME NEW i \in 1 .. n PROVE front[i] = list[i]
        <4>1. i \in 1 .. n - 1 + 1 /\ 1 + i - 1 = i
          BY <1>1
        <4> QED BY <3>2, <4>1
      <3> QED BY <3>4, <3>5
    <2> HIDE DEF front
    <2>3. [i \in DOMAIN front |-> Stored(front[i])] = [i \in 1 .. n |-> seqs[i]]
      BY <2>2, <1>1
    <2>4. Layout(front) = FlattenSeq([i \in DOMAIN front |-> Stored(front[i])])
      BY DEF Layout, Stored
    <2> QED BY <2>1, <2>3, <2>4 DEF front, Flattens
  <1>5. SubSeq(list, 1, Len(list)) = list
    BY <1>1, SubSeqFull
  <1>6. F[Len(list)] = Layout(list)
    <2>1. Len(list) \in 0 .. Len(list)
      BY <1>1
    <2> QED BY <1>4, <1>5, <2>1
  <1> QED BY <1>2, <1>3, <1>4, <1>6 DEF Joined

(* Every file's header is at its place, and the next file's is behind it.    *)
LEMMA Places ==
    ASSUME NEW list \in Archives
    PROVE  /\ Layout(list) \in Seq(BlocksOf(list)) /\ Len(Layout(list)) \in Nat
           /\ Place(list, 1) = 1 /\ Place(list, Len(list) + 1) = Len(Layout(list)) + 1
           /\ \A n \in 1 .. Len(list) :
                  /\ Place(list, n) \in 1 .. Len(Layout(list))
                  /\ Layout(list)[Place(list, n)] = HeaderOf(list[n])
                  /\ Place(list, n + 1) = Place(list, n) + 1 + BlocksFor(list[n].size)
  <1> DEFINE T == BlocksOf(list)
             last == Len(list)
  <1>1. last \in Nat /\ \A n \in 1 .. last : list[n] \in Range(list)
    BY ListIsSeq
  <1>2. PICK F \in [0 .. last -> Seq(T)] :
               /\ F[0] = <<>> /\ F[last] = Layout(list)
               /\ \A n \in 1 .. last : F[n] = F[n - 1] \o Stored(list[n])
               /\ \A n \in 0 .. last : Layout(SubSeq(list, 1, n)) = F[n]
    BY LayoutSteps
  <1> HIDE DEF T, last
  <1>3. \A n \in 0 .. last : F[n] \in Seq(T) /\ Len(F[n]) \in Nat
    BY <1>2, LenProperties
  <1>4. \A n \in 1 .. last + 1 : Place(list, n) = 1 + Len(F[n - 1])
    <2> SUFFICES ASSUME NEW n \in 1 .. last + 1 PROVE Place(list, n) = 1 + Len(F[n - 1])
      OBVIOUS
    <2>1. n - 1 \in 0 .. last
      BY <1>1
    <2> QED BY <1>2, <2>1, Zenon DEF Place
  <1>5. ASSUME NEW n \in 1 .. last
        PROVE  /\ Len(F[n]) = Len(F[n - 1]) + 1 + BlocksFor(list[n].size)
               /\ BlocksFor(list[n].size) \in Nat
               /\ F[n][Len(F[n - 1]) + 1] = HeaderOf(list[n])
               /\ \A i \in 1 .. Len(F[n - 1]) : F[n][i] = F[n - 1][i]
    <2>1. PICK before \in Seq(T) : before = F[n - 1] /\ Len(before) \in Nat
      <3>1. n - 1 \in 0 .. last
        BY <1>1
      <3> QED BY <1>3, <3>1
    <2>2. PICK stored \in Seq(T) : /\ stored = Stored(list[n]) /\ stored[1] = HeaderOf(list[n])
                                   /\ Len(stored) = 1 + BlocksFor(list[n].size)
      BY <1>1, StoredShape DEF T
    <2>3. BlocksFor(list[n].size) \in Nat
      BY <1>1, SizeInBlock
    <2>4. F[n] = before \o stored
      BY <1>2, <2>1, <2>2
    <2>5. /\ Len(F[n]) = Len(before) + Len(stored)
          /\ \A i \in 1 .. Len(before) + Len(stored) :
                 F[n][i] = IF i <= Len(before) THEN before[i] ELSE stored[i - Len(before)]
      BY <2>4, ConcatProperties
    <2>6. ASSUME NEW i \in 1 .. Len(before) PROVE F[n][i] = before[i]
      <3>1. i \in 1 .. Len(before) + Len(stored) /\ i <= Len(before)
        BY <2>1, <2>2, <2>3
      <3> QED BY <2>5, <3>1
    <2>7. F[n][Len(before) + 1] = stored[1]
      <3>1. Len(before) + 1 \in 1 .. Len(before) + Len(stored) /\ (Len(before) + 1) - Len(before) = 1
            /\ ~ (Len(before) + 1 <= Len(before))
        BY <2>1, <2>2, <2>3
      <3> QED BY <2>5, <3>1
    <2>8. Len(F[n]) = Len(before) + 1 + BlocksFor(list[n].size)
      <3>1. PICK b \in Nat : b = BlocksFor(list[n].size)
        BY <2>3
      <3>2. Len(F[n]) = Len(before) + (1 + b)
        BY <2>2, <2>5, <3>1
      <3>3. Len(F[n]) = Len(before) + 1 + b
        <4>1. PICK l \in Nat : l = Len(before)
          BY <2>1
        <4>2. l + (1 + b) = l + 1 + b
          OBVIOUS
        <4> QED BY <3>2, <4>1, <4>2, Zenon
      <3> QED BY <3>1, <3>3
    <2> QED BY <2>1, <2>2, <2>3, <2>6, <2>7, <2>8
  <1>6. ASSUME NEW n \in 0 .. last
        PROVE  \A m \in n .. last : Len(F[n]) <= Len(F[m]) /\ \A i \in 1 .. Len(F[n]) : F[m][i] = F[n][i]
    <2> DEFINE Agree(m) == Len(F[n]) <= Len(F[m]) /\ \A i \in 1 .. Len(F[n]) : F[m][i] = F[n][i]
               Agreed == {d \in Nat : n + d <= last => Agree(n + d)}
    <2>1. 0 \in Agreed
      BY <1>1, <1>3
    <2>2. ASSUME NEW d \in Nat, d \in Agreed PROVE d + 1 \in Agreed
      <3>1. SUFFICES ASSUME n + (d + 1) <= last PROVE Agree(n + (d + 1))
        OBVIOUS
      <3>2. PICK m \in 1 .. last : m = n + (d + 1) /\ m - 1 = n + d /\ m - 1 \in 0 .. last
        BY <1>1, <3>1
      <3>3. n + d <= last
        BY <1>1, <3>1
      <3>4. Agree(m - 1)
        BY <2>2, <3>2, <3>3
      <3>5. /\ Len(F[m]) = Len(F[m - 1]) + 1 + BlocksFor(list[m].size)
            /\ BlocksFor(list[m].size) \in Nat
            /\ \A i \in 1 .. Len(F[m - 1]) : F[m][i] = F[m - 1][i]
        BY <1>5
      <3>6. Len(F[n]) \in Nat /\ Len(F[m - 1]) \in Nat
        BY <1>3, <3>2
      <3>7. Agree(m)
        BY <3>4, <3>5, <3>6
      <3> HIDE DEF Agree
      <3> QED BY <3>2, <3>7
    <2> HIDE DEF Agreed
    <2>3. ASSUME NEW m \in n .. last PROVE Agree(m)
      <3>1. m - n \in Nat /\ n + (m - n) = m /\ m <= last
        BY <1>1
      <3>2. m - n \in Agreed
        BY <2>1, <2>2, <3>1, Induction
      <3> HIDE DEF Agree
      <3> QED BY <3>1, <3>2 DEF Agreed
    <2> QED BY <2>3
  <1>7. Layout(list) \in Seq(T) /\ Len(Layout(list)) \in Nat
    <2>1. last \in 0 .. last
      BY <1>1
    <2> QED BY <1>2, <1>3, <2>1
  <1>8. Place(list, 1) = 1 /\ Place(list, last + 1) = Len(Layout(list)) + 1
    <2>1. 1 \in 1 .. last + 1 /\ last + 1 \in 1 .. last + 1 /\ (last + 1) - 1 = last /\ 1 - 1 = 0
      BY <1>1
    <2>2. Place(list, 1) = 1 + Len(F[0]) /\ Place(list, last + 1) = 1 + Len(F[last])
      BY <1>4, <2>1
    <2>3. Len(F[0]) = 0
      BY <1>2, EmptySeq
    <2> QED BY <1>2, <1>7, <2>2, <2>3
  <1>9. ASSUME NEW n \in 1 .. last
        PROVE  /\ Place(list, n) \in 1 .. Len(Layout(list))
               /\ Layout(list)[Place(list, n)] = HeaderOf(list[n])
               /\ Place(list, n + 1) = Place(list, n) + 1 + BlocksFor(list[n].size)
    <2>1. n \in 1 .. last + 1 /\ n + 1 \in 1 .. last + 1 /\ (n + 1) - 1 = n /\ last \in n .. last
          /\ n \in 0 .. last /\ n - 1 \in 0 .. last
      BY <1>1
    <2>2. Place(list, n) = 1 + Len(F[n - 1]) /\ Place(list, n + 1) = 1 + Len(F[n])
      BY <1>4, <2>1
    <2>3. /\ Len(F[n]) = Len(F[n - 1]) + 1 + BlocksFor(list[n].size)
          /\ BlocksFor(list[n].size) \in Nat
          /\ F[n][Len(F[n - 1]) + 1] = HeaderOf(list[n])
      BY <1>5
    <2>4. Len(F[n]) <= Len(F[last]) /\ \A i \in 1 .. Len(F[n]) : F[last][i] = F[n][i]
      BY <1>6, <2>1
    <2>5. Len(F[n - 1]) \in Nat
      BY <1>3, <2>1
    <2>6. Len(F[n - 1]) + 1 \in 1 .. Len(F[n])
      BY <2>3, <2>5
    <2>7. F[last][Len(F[n - 1]) + 1] = HeaderOf(list[n])
      BY <2>3, <2>4, <2>6
    <2>8. Layout(list)[Place(list, n)] = HeaderOf(list[n])
      <3>1. Place(list, n) = Len(F[n - 1]) + 1
        BY <2>2, <2>5
      <3> QED BY <1>2, <2>7, <3>1
    <2>9. Len(F[n]) <= Len(Layout(list)) /\ Len(Layout(list)) \in Nat
      BY <1>2, <1>7, <2>4
    <2>10. Place(list, n) \in 1 .. Len(Layout(list))
      BY <2>2, <2>5, <2>6, <2>9
    <2>11. Place(list, n + 1) = Place(list, n) + 1 + BlocksFor(list[n].size)
      BY <2>2, <2>3, <2>5
    <2> QED BY <2>8, <2>10, <2>11
  <1> QED BY <1>7, <1>8, <1>9 DEF T, last

(* next_file goes from each file to the next.                                *)
LEMMA NextIsNext ==
    ASSUME NEW list \in Archives, NEW n \in 1 .. Len(list)
    PROVE  /\ After(Layout(list), Place(list, n)) = Place(list, n + 1)
           /\ NextFile(Layout(list), Place(list, n))
  <1>1. list[n] \in Range(list)
    BY ListIsSeq
  <1>2. /\ Layout(list)[Place(list, n)] = HeaderOf(list[n])
        /\ Place(list, n + 1) = Place(list, n) + 1 + BlocksFor(list[n].size)
        /\ Place(list, n) \in 1 .. Len(Layout(list)) /\ Len(Layout(list)) \in Nat
    BY Places
  <1>3. /\ Oct2Bin(HeaderOf(list[n]).file_size) = list[n].size /\ HeaderOf(list[n]).ustar
        /\ BlocksFor(list[n].size) = (list[n].size + Block - 1) \div Block
    BY <1>1, SizeInBlock, BlocksForIs
  <1>4. NextFile(Layout(list), Place(list, n))
    BY <1>2, <1>3 DEF NextFile
  <1> QED BY <1>2, <1>3, <1>4 DEF After

(* Wherever it is, it goes on.                                               *)
LEMMA GoesOn ==
    ASSUME NEW list \in Archives, NEW start \in 1 .. Len(Layout(list))
    PROVE  After(Layout(list), start) \in Nat /\ After(Layout(list), start) > start
  <1>1. Layout(list) \in Seq(BlocksOf(list)) /\ Len(Layout(list)) \in Nat
    BY Places
  <1>2. Layout(list)[start] \in BlocksOf(list)
    BY <1>1, ElementOfSeq
  <1>3. PICK file \in Range(list) :
            Layout(list)[start] = HeaderOf(file) \/ Layout(list)[start] = ContentsOf(file)
    BY <1>2 DEF BlocksOf
  <1>4. Oct2Bin(Layout(list)[start].file_size) = file.size /\ file.size \in Nat
    BY <1>3, SizeInBlock
  <1>5. (file.size + Block - 1) \div Block \in Nat
    BY <1>4, BlocksForIs
  <1>6. After(Layout(list), start) = start + 1 + ((file.size + Block - 1) \div Block)
    BY <1>4 DEF After
  <1> QED BY <1>1, <1>5, <1>6

-----------------------------------------------------------------------------
(* A loop that goes on from block to block behind N, until it is behind the  *)
(* last one: z there, and F of the block and of the rest before.             *)
Positions == Nat \ {0}
Walks(f, L, N, z, F) ==
    \A s \in Positions : f[s] = IF s > L THEN z ELSE F[<<s, f[N[s]]>>]

LEMMA WalkExists ==
    ASSUME NEW A, NEW z \in A, NEW L \in Nat, NEW N \in [1 .. L -> Nat],
           \A s \in 1 .. L : N[s] > s, NEW F \in [(1 .. L) \X A -> A]
    PROVE  \E f \in [Positions -> A] : Walks(f, L, N, z, F)
  <1> DEFINE Value(f, s) == IF s > L THEN z ELSE F[<<s, f[N[s]]>>]
             Good(f, k) == \A s \in Positions : s > L - k => f[s] = Value(f, s)
             Done == {k \in Nat : k <= L => \E f \in [Positions -> A] : Good(f, k)}
  <1>1. 0 \in Done
    <2> DEFINE f == [s \in Positions |-> z]
    <2>1. f \in [Positions -> A]
      OBVIOUS
    <2>2. Good(f, 0)
      BY DEF Positions
    <2> HIDE DEF f
    <2> QED BY <2>1, <2>2
  <1>2. ASSUME NEW k \in Nat, k \in Done PROVE k + 1 \in Done
    <2>1. SUFFICES ASSUME k + 1 <= L PROVE \E f \in [Positions -> A] : Good(f, k + 1)
      OBVIOUS
    <2>2. PICK f \in [Positions -> A] : Good(f, k)
      BY <1>2, <2>1
    <2>3. PICK at \in 1 .. L : at = L - k
      BY <2>1
    <2>4. N[at] \in Nat /\ N[at] > at /\ N[at] \in Positions /\ at \in Positions
      BY DEF Positions
    <2>5. PICK x \in A : x = F[<<at, f[N[at]]>>]
      BY <2>4
    <2> DEFINE g == [f EXCEPT ![at] = x]
    <2>6. g \in [Positions -> A] /\ g[at] = x /\ \A s \in Positions : s # at => g[s] = f[s]
      BY <2>4
    <2> HIDE DEF g
    <2>7. ASSUME NEW s \in Positions, s > L - (k + 1) PROVE g[s] = Value(g, s)
      <3>1. CASE s > L
        <4>1. s # at /\ s > L - k
          BY <2>3, <3>1 DEF Positions
        <4> QED BY <2>2, <2>6, <3>1, <4>1
      <3>2. CASE s = at
        <4>1. g[N[at]] = f[N[at]]
          BY <2>4, <2>6
        <4>2. ~ (at > L)
          OBVIOUS
        <4> QED BY <2>5, <2>6, <3>2, <4>1, <4>2
      <3>3. CASE ~ (s > L) /\ s # at
        <4>1. s \in 1 .. L /\ s > L - k /\ N[s] > s /\ N[s] \in Nat
          BY <2>3, <2>7, <3>3 DEF Positions
        <4>2. N[s] \in Positions /\ N[s] # at
          BY <2>3, <4>1 DEF Positions
        <4>3. g[s] = f[s] /\ g[N[s]] = f[N[s]]
          BY <2>6, <3>3, <4>2
        <4>4. f[s] = F[<<s, f[N[s]]>>]
          BY <2>2, <3>3, <4>1
        <4> QED BY <3>3, <4>3, <4>4
      <3> QED BY <3>1, <3>2, <3>3
    <2> HIDE DEF Value
    <2> QED BY <2>6, <2>7
  <1> HIDE DEF Done
  <1>3. L \in Done
    BY <1>1, <1>2, Induction
  <1>4. PICK f \in [Positions -> A] : Good(f, L)
    BY <1>3 DEF Done
  <1>5. \A s \in Positions : s > L - L
    BY DEF Positions
  <1> QED BY <1>4, <1>5 DEF Walks

(* What tar_find returns from each block on.                                 *)
Found(from, blocks, path, kind, start) ==
    IF ~NextFile(blocks, start) THEN 0
    ELSE IF Matches(blocks[start], WithoutSlash(path), kind) THEN start
    ELSE from[After(blocks, start)]

LEMMA TarFindWalks ==
    ASSUME NEW list \in Archives, NEW path, NEW kind
    PROVE  \E from : /\ \A start \in Positions : from[start] = Found(from, Layout(list), path, kind, start)
                     /\ TarFind(Layout(list), path, kind) = from[1]
  <1> DEFINE blocks == Layout(list)
             L == Len(blocks)
             N == [s \in 1 .. L |-> After(blocks, s)]
             F == [e \in (1 .. L) \X Nat |->
                      IF ~blocks[e[1]].ustar THEN 0
                      ELSE IF Matches(blocks[e[1]], WithoutSlash(path), kind) THEN e[1] ELSE e[2]]
             Step(f, s) == Found(f, blocks, path, kind, s)
  <1> HIDE DEF blocks
  <1>1. L \in Nat /\ \A s \in 1 .. L : After(blocks, s) \in Nat /\ After(blocks, s) > s
    BY Places, GoesOn DEF blocks
  <1>2. N \in [1 .. L -> Nat] /\ (\A s \in 1 .. L : N[s] > s) /\ F \in [(1 .. L) \X Nat -> Nat]
    BY <1>1
  <1>3. PICK f \in [Positions -> Nat] : Walks(f, L, N, 0, F)
    <2>1. 0 \in Nat
      OBVIOUS
    <2> HIDE DEF L, N, F
    <2> QED BY <1>1, <1>2, <2>1, WalkExists
  <1>4. ASSUME NEW s \in Positions PROVE f[s] = Step(f, s)
    <2>1. CASE s > L
      <3>1. f[s] = 0
        BY <1>3, <2>1 DEF Walks
      <3> QED BY <1>1, <2>1, <3>1 DEF Found, NextFile, Positions
    <2>2. CASE ~ (s > L)
      <3>1. s \in 1 .. L
        BY <1>1, <2>2 DEF Positions
      <3>2. f[s] = F[<<s, f[N[s]]>>] /\ N[s] = After(blocks, s)
        BY <1>3, <2>2, <3>1 DEF Walks
      <3>3. After(blocks, s) \in Positions
        BY <1>1, <3>1 DEF Positions
      <3>4. f[After(blocks, s)] \in Nat
        BY <3>3
      <3>5. f[s] = IF ~blocks[s].ustar THEN 0
                   ELSE IF Matches(blocks[s], WithoutSlash(path), kind) THEN s ELSE f[After(blocks, s)]
        BY <3>1, <3>2, <3>4
      <3>6. s <= Len(blocks)
        BY <3>1
      <3> HIDE DEF L, N, F
      <3> QED BY <3>5, <3>6 DEF Found, NextFile
    <2> QED BY <2>1, <2>2
  <1>5. f = [s \in Positions |-> Step(f, s)]
    <2> HIDE DEF Step
    <2> QED BY <1>4
  <1>6. PICK from : from = CHOOSE g : g = [s \in Positions |-> Step(g, s)]
    OBVIOUS
  <1>7. from = [s \in Positions |-> Step(from, s)]
    <2> HIDE DEF Step
    <2> QED BY <1>5, <1>6
  <1>8. TarFind(blocks, path, kind) = from[1]
    BY <1>6 DEF TarFind, Found, Positions
  <1>9. \A s \in Positions : from[s] = Step(from, s)
    <2> HIDE DEF Step
    <2> QED BY <1>7
  <1> QED BY <1>8, <1>9 DEF blocks

(* tar_find stops at the header of a file that matches, if at any block.     *)
LEMMA FindsHeader ==
    ASSUME NEW list \in Archives, NEW path, NEW kind, TarFind(Layout(list), path, kind) # 0
    PROVE  \E n \in 1 .. Len(list) :
               /\ TarFind(Layout(list), path, kind) = Place(list, n)
               /\ Matches(HeaderOf(list[n]), WithoutSlash(path), kind)
  <1>1. PICK from : /\ \A start \in Positions : from[start] = Found(from, Layout(list), path, kind, start)
                    /\ TarFind(Layout(list), path, kind) = from[1]
    BY TarFindWalks
  <1>2. Len(list) \in Nat
    BY ListIsSeq
  <1>3. /\ Len(Layout(list)) \in Nat
        /\ Place(list, 1) = 1 /\ Place(list, Len(list) + 1) = Len(Layout(list)) + 1
        /\ \A n \in 1 .. Len(list) : /\ Place(list, n) \in 1 .. Len(Layout(list))
                                     /\ Layout(list)[Place(list, n)] = HeaderOf(list[n])
    BY Places
  <1> DEFINE Hit(start) ==
                 from[start] = 0 \/ \E n \in 1 .. Len(list) :
                     from[start] = Place(list, n) /\ Matches(HeaderOf(list[n]), WithoutSlash(path), kind)
             Good == {d \in Nat : d <= Len(list) => Hit(Place(list, Len(list) + 1 - d))}
  <1>4. 0 \in Good
    <2>1. Len(Layout(list)) + 1 \in Positions /\ ~ (Len(Layout(list)) + 1 <= Len(Layout(list)))
      BY <1>3 DEF Positions
    <2>2. from[Len(Layout(list)) + 1] = 0
      BY <1>1, <2>1 DEF Found, NextFile
    <2>3. Len(list) + 1 - 0 = Len(list) + 1
      BY <1>2
    <2> QED BY <1>3, <2>2, <2>3
  <1>5. ASSUME NEW d \in Nat, d \in Good PROVE d + 1 \in Good
    <2>1. SUFFICES ASSUME d + 1 <= Len(list) PROVE Hit(Place(list, Len(list) + 1 - (d + 1)))
      OBVIOUS
    <2>2. PICK n \in 1 .. Len(list) : n = Len(list) + 1 - (d + 1) /\ n + 1 = Len(list) + 1 - d
      BY <1>2, <2>1
    <2>3. Hit(Place(list, n + 1))
      <3>1. d <= Len(list)
        BY <1>2, <2>1
      <3> HIDE DEF Hit
      <3> QED BY <1>5, <2>2, <3>1
    <2>4. /\ After(Layout(list), Place(list, n)) = Place(list, n + 1)
          /\ NextFile(Layout(list), Place(list, n))
      BY NextIsNext
    <2>5. Place(list, n) \in Positions /\ Layout(list)[Place(list, n)] = HeaderOf(list[n])
      BY <1>3 DEF Positions
    <2>6. from[Place(list, n)] = IF Matches(HeaderOf(list[n]), WithoutSlash(path), kind)
                                 THEN Place(list, n) ELSE from[Place(list, n + 1)]
      BY <1>1, <2>4, <2>5, Zenon DEF Found
    <2>7. Hit(Place(list, n))
      BY <2>3, <2>6
    <2> HIDE DEF Hit
    <2> QED BY <2>2, <2>7
  <1>6. Hit(1)
    <2> HIDE DEF Good
    <2>1. Len(list) \in Good
      BY <1>2, <1>4, <1>5, Induction
    <2>2. Len(list) <= Len(list) /\ Len(list) + 1 - Len(list) = 1
      BY <1>2
    <2> HIDE DEF Hit
    <2> QED BY <1>3, <2>1, <2>2 DEF Good
  <1> QED BY <1>1, <1>6

-----------------------------------------------------------------------------
(* An open file is a file of the archive.                                    *)
IsFile(open_file, list) ==
    \E n \in 1 .. Len(list) : /\ open_file.start - 1 = Place(list, n)
                              /\ open_file.size = list[n].size
                              /\ list[n].kind = NormalFile
AlignInv ==
    /\ files \in Archives /\ memory = Layout(files)
    /\ \A i \in 1 .. Len(open_files) :
           /\ IsFile(open_files[i], files)
           /\ {"start", "size"} \subseteq DOMAIN open_files[i]

LEMMA OpensFile ==
    ASSUME AlignInv, NEW path, TarFind(memory, path, NormalFile) # 0,
           NEW new, new = OpenFile(TarFind(memory, path, NormalFile))
    PROVE  IsFile(new, files) /\ {"start", "size"} \subseteq DOMAIN new
  <1>1. PICK n \in 1 .. Len(files) :
            /\ TarFind(memory, path, NormalFile) = Place(files, n)
            /\ Matches(HeaderOf(files[n]), WithoutSlash(path), NormalFile)
    BY FindsHeader DEF AlignInv
  <1>2. /\ Place(files, n) \in 1 .. Len(memory) /\ Len(memory) \in Nat
        /\ memory[Place(files, n)] = HeaderOf(files[n])
    BY Places DEF AlignInv
  <1>3. Oct2Bin(HeaderOf(files[n]).file_size) = files[n].size
    BY ListIsSeq, SizeInBlock DEF AlignInv
  <1>4. files[n].kind = NormalFile
    <2>1. HeaderOf(files[n]).kind = files[n].kind
      BY DEF HeaderOf
    <2>2. NormalFile # AnyKind
      BY DEF NormalFile, AnyKind
    <2> QED BY <1>1, <2>1, <2>2 DEF Matches
  <1>5. /\ new.start = Place(files, n) + 1 /\ new.size = files[n].size
        /\ {"start", "size"} \subseteq DOMAIN new
    BY <1>1, <1>2, <1>3 DEF OpenFile
  <1>6. new.start - 1 = Place(files, n)
    BY <1>2, <1>5
  <1> QED BY <1>4, <1>5, <1>6 DEF IsFile

(* A step opens a file that tar_find found, closes one, or moves one.        *)
LEMMA AlignStep ==
    ASSUME IInv, AlignInv, UNCHANGED archive,
           \/ UNCHANGED open_files
           \/ \E path : /\ TarFind(memory, path, NormalFile) # 0
                        /\ open_files' = <<OpenFile(TarFind(memory, path, NormalFile))>> \o open_files
           \/ \E at \in 1 .. Len(open_files) : open_files' = RemoveAt(open_files, at)
           \/ \E at \in 1 .. Len(open_files) : \E pos :
                  open_files' = [open_files EXCEPT ![at].read_pos = pos]
    PROVE  AlignInv'
  <1>1. Len(open_files) \in Nat /\ DOMAIN open_files = 1 .. Len(open_files)
    BY LenProperties DEF IInv, Falling
  <1>2. files' = files /\ memory' = memory
    BY DEF archive
  <1> DEFINE Good(open_file) ==
                 IsFile(open_file, files) /\ {"start", "size"} \subseteq DOMAIN open_file
  <1>3. SUFFICES ASSUME NEW i \in 1 .. Len(open_files') PROVE Good(open_files'[i])
    BY <1>2 DEF AlignInv
  <1>4. \A j \in 1 .. Len(open_files) : Good(open_files[j])
    BY DEF AlignInv
  <1> HIDE DEF Good
  <1>5. CASE UNCHANGED open_files
    BY <1>4, <1>5
  <1>6. ASSUME NEW path, NEW new, TarFind(memory, path, NormalFile) # 0,
               new = OpenFile(TarFind(memory, path, NormalFile)),
               open_files' = <<new>> \o open_files
        PROVE  Good(open_files'[i])
    <2>1. Good(new)
      BY <1>6, OpensFile DEF Good
    <2>2. /\ Len(open_files') = Len(open_files) + 1
          /\ open_files'[1] = new
          /\ \A j \in 1 .. Len(open_files) : open_files'[j + 1] = open_files[j]
      BY <1>6, Prepended DEF IInv, OpenFile
    <2>3. CASE i = 1
      BY <2>1, <2>2, <2>3
    <2>4. CASE i # 1
      <3>0. i \in 1 .. Len(open_files) + 1
        <4>1. Len(open_files') = Len(open_files) + 1
          BY <2>2
        <4> QED BY <4>1
      <3>1. i - 1 \in 1 .. Len(open_files) /\ (i - 1) + 1 = i
        BY <1>1, <2>4, <3>0
      <3>2. open_files'[i] = open_files[i - 1]
        BY <2>2, <3>1
      <3> QED BY <1>4, <3>1, <3>2
    <2> QED BY <2>3, <2>4
  <1>7. ASSUME NEW at \in 1 .. Len(open_files), open_files' = RemoveAt(open_files, at)
        PROVE  Good(open_files'[i])
    <2>1. /\ Len(open_files') = Len(open_files) - 1
          /\ \A j \in 1 .. Len(open_files) - 1 :
                 open_files'[j] = IF j <= at - 1 THEN open_files[j] ELSE open_files[j + 1]
      BY <1>7, Removed DEF IInv
    <2>2. i \in 1 .. Len(open_files) /\ i + 1 \in 1 .. Len(open_files)
          /\ i \in 1 .. Len(open_files) - 1
      BY <1>1, <2>1
    <2> QED BY <1>4, <2>1, <2>2
  <1>8. ASSUME NEW at \in 1 .. Len(open_files), NEW pos,
               open_files' = [open_files EXCEPT ![at].read_pos = pos]
        PROVE  Good(open_files'[i])
    <2> DEFINE x == [open_files[at] EXCEPT !.read_pos = pos]
    <2>1. DOMAIN open_files' = DOMAIN open_files
          /\ \A j \in DOMAIN open_files : open_files'[j] = IF j = at THEN x ELSE open_files[j]
      BY <1>1, <1>8
    <2>2. IInv'
      BY <1>8, StepKeeps
    <2>3. DOMAIN open_files' = 1 .. Len(open_files')
      BY <2>2, LenProperties DEF IInv, Falling
    <2>4. Good(open_files[at])
      BY <1>4
    <2>5. /\ x.start = open_files[at].start /\ x.size = open_files[at].size
          /\ DOMAIN x = DOMAIN open_files[at]
      BY <2>4 DEF Good
    <2> HIDE DEF x
    <2>6. Good(x)
      BY <2>4, <2>5 DEF Good, IsFile
    <2> QED BY <1>1, <1>4, <2>1, <2>3, <2>6
  <1> QED BY <1>5, <1>6, <1>7, <1>8

LEMMA NextAligned == IInv /\ AlignInv /\ [Next]_vars => AlignInv'
  <1> SUFFICES ASSUME IInv, AlignInv, [Next]_vars PROVE AlignInv'
    OBVIOUS
  <1>1. ASSUME NEW path, NEW reads, InitrdOpen(path, reads) PROVE AlignInv'
    <2>1. /\ UNCHANGED archive
          /\ \/ UNCHANGED open_files
             \/ /\ TarFind(memory, path, NormalFile) # 0
                /\ open_files' = <<OpenFile(TarFind(memory, path, NormalFile))>> \o open_files
      BY <1>1 DEF InitrdOpen, OpenTar, Return
    <2> QED BY <2>1, AlignStep
  <1>2. ASSUME NEW path, InitrdExists(path) \/ InitrdSize(path) \/ InitrdLastModified(path)
        PROVE  AlignInv'
    <2>1. UNCHANGED archive /\ UNCHANGED open_files
      BY <1>2 DEF InitrdExists, InitrdSize, InitrdLastModified, Field, OpenTar, Method, Return
    <2> QED BY <2>1, AlignStep
  <1>3. ASSUME NEW path, InitrdIsDirectory(path) \/ InitrdList(path) PROVE AlignInv'
    <2>1. UNCHANGED archive /\ UNCHANGED open_files
      BY <1>3 DEF InitrdIsDirectory, InitrdList, OpenTar, Return
    <2> QED BY <2>1, AlignStep
  <1>4. ASSUME NEW handle, InitrdClose(handle) PROVE AlignInv'
    <2>1. UNCHANGED archive
      BY <1>4 DEF InitrdClose, Method
    <2>2. \/ UNCHANGED open_files
          \/ \E at \in 1 .. Len(open_files) : open_files' = RemoveAt(open_files, at)
      BY <1>4, FoundIsPlace DEF InitrdClose, IInv
    <2> QED BY <2>1, <2>2, AlignStep
  <1>5. ASSUME NEW handle, NEW whence, NEW offset,
               InitrdRead(handle) \/ InitrdSeek(handle, whence, offset)
        PROVE  AlignInv'
    <2>1. UNCHANGED archive
      BY <1>5 DEF InitrdRead, InitrdSeek, Method
    <2>2. \/ UNCHANGED open_files
          \/ \E at \in 1 .. Len(open_files) : \E pos :
                 open_files' = [open_files EXCEPT ![at].read_pos = pos]
      BY <1>5, FoundIsPlace DEF InitrdRead, InitrdSeek, IInv
    <2> QED BY <2>1, <2>2, AlignStep
  <1>6. CASE UNCHANGED vars
    BY <1>6, AlignStep DEF vars, archive
  <1> QED BY <1>1, <1>2, <1>3, <1>4, <1>5, <1>6 DEF Next

LEMMA InitAligned == Init => AlignInv
  <1>1. Init => Len(open_files) = 0
    BY EmptySeq DEF Init
  <1> QED BY <1>1 DEF Init, AlignInv

LEMMA AlignedFiles == IInv /\ AlignInv => Aligned
  <1> SUFFICES ASSUME IInv, AlignInv, NEW i \in DOMAIN open_files
               PROVE  \E n \in DOMAIN files :
                          /\ open_files[i].start - 1 = 1 + Len(Layout(SubSeq(files, 1, n - 1)))
                          /\ open_files[i].size = files[n].size
                          /\ files[n].kind = NormalFile
    BY DEF Aligned
  <1>1. i \in 1 .. Len(open_files) /\ DOMAIN files = 1 .. Len(files)
    BY ListIsSeq, LenProperties DEF IInv, Falling, AlignInv
  <1>2. IsFile(open_files[i], files)
    BY <1>1 DEF AlignInv
  <1> QED BY <1>1, <1>2 DEF IsFile, Place

(* Whatever files the archive holds, of any sizes that fit the size field,   *)
(* and whatever their contents look like: next_file goes from header to      *)
(* header, and every open file is a whole file of the archive.               *)
THEOREM FilesAreWhole == Spec => []Aligned
  BY InitHolds, NextHolds, InitAligned, NextAligned, AlignedFiles, PTL DEF Spec

-----------------------------------------------------------------------------
(* Where the open files are: the sizes come from the archive, a position is  *)
(* a size_t.                                                                 *)
PosInv ==
    /\ files \in Archives
    /\ \A i \in DOMAIN open_files :
           open_files[i].read_pos \in Nat /\ "read_pos" \in DOMAIN open_files[i]

Sizes == \A i \in DOMAIN open_files : open_files[i].size \in Nat

LEMMA SizesAreNumbers == PosInv /\ Aligned => Sizes
  BY InitrdAssumption DEF PosInv, Aligned, Sizes

LEMMA SizeT == \A n \in Int : n % SizeMod \in Nat /\ (n >= 0 => n % SizeMod <= n)
  <1>1. \A m \in Nat \ {0} : \A n \in Int : n % m \in Nat /\ (n >= 0 => n % m <= n)
    OBVIOUS
  <1> QED BY <1>1, InitrdAssumption

(* A step opens a file at its start, closes one, or moves one to a size_t. *)
LEMMA PosStep ==
    ASSUME IInv, PosInv, UNCHANGED files,
           \/ UNCHANGED open_files
           \/ \E header : open_files' = <<OpenFile(header)>> \o open_files
           \/ \E at \in 1 .. Len(open_files) : open_files' = RemoveAt(open_files, at)
           \/ \E at \in 1 .. Len(open_files) : \E pos \in Nat :
                  open_files' = [open_files EXCEPT ![at].read_pos = pos]
    PROVE  PosInv'
  <1>1. Len(open_files) \in Nat /\ DOMAIN open_files = 1 .. Len(open_files)
    BY LenProperties DEF IInv, Falling
  <1>2. IInv'
    BY StepKeeps
  <1>3. Len(open_files') \in Nat /\ DOMAIN open_files' = 1 .. Len(open_files')
    BY <1>2, LenProperties DEF IInv, Falling
  <1>4. CASE UNCHANGED open_files
    BY <1>4 DEF PosInv
  <1>5. ASSUME NEW header, NEW new, new = OpenFile(header), open_files' = <<new>> \o open_files
        PROVE  PosInv'
    <2>1. new.read_pos \in Nat /\ "read_pos" \in DOMAIN new
      BY <1>5 DEF OpenFile
    <2>2. /\ Len(open_files') = Len(open_files) + 1
          /\ open_files'[1] = new
          /\ \A i \in 1 .. Len(open_files) : open_files'[i + 1] = open_files[i]
      BY <1>5, Prepended DEF IInv
    <2>3. ASSUME NEW i \in 1 .. Len(open_files) + 1
          PROVE  open_files'[i].read_pos \in Nat /\ "read_pos" \in DOMAIN open_files'[i]
      <3>1. CASE i = 1
        BY <2>1, <2>2, <3>1
      <3>2. CASE i # 1
        <4>1. i - 1 \in 1 .. Len(open_files) /\ (i - 1) + 1 = i
          BY <1>1, <3>2
        <4>2. open_files'[i] = open_files[i - 1]
          BY <2>2, <4>1
        <4> QED BY <1>1, <4>1, <4>2 DEF PosInv
      <3> QED BY <3>1, <3>2
    <2> QED BY <1>3, <2>2, <2>3 DEF PosInv
  <1>6. ASSUME NEW at \in 1 .. Len(open_files), open_files' = RemoveAt(open_files, at)
        PROVE  PosInv'
    <2>1. /\ Len(open_files') = Len(open_files) - 1
          /\ \A i \in 1 .. Len(open_files) - 1 :
                 open_files'[i] = IF i <= at - 1 THEN open_files[i] ELSE open_files[i + 1]
      BY <1>6, Removed DEF IInv
    <2>2. \A i \in 1 .. Len(open_files) - 1 : i \in 1 .. Len(open_files) /\ i + 1 \in 1 .. Len(open_files)
      BY <1>1
    <2> QED BY <1>1, <1>3, <2>1, <2>2 DEF PosInv
  <1>7. ASSUME NEW at \in 1 .. Len(open_files), NEW pos \in Nat,
               open_files' = [open_files EXCEPT ![at].read_pos = pos]
        PROVE  PosInv'
    <2> DEFINE x == [open_files[at] EXCEPT !.read_pos = pos]
    <2>1. DOMAIN open_files' = DOMAIN open_files
          /\ \A i \in DOMAIN open_files : open_files'[i] = IF i = at THEN x ELSE open_files[i]
      BY <1>1, <1>7
    <2>2. x.read_pos = pos /\ "read_pos" \in DOMAIN x
      BY <1>1, <1>7 DEF PosInv
    <2> HIDE DEF x
    <2> QED BY <1>7, <2>1, <2>2 DEF PosInv
  <1> QED BY <1>4, <1>5, <1>6, <1>7

(* A read moves one position and stays within the bound. *)
LEMMA ReadOutcome ==
    ASSUME IInv, PosInv, Sizes, NEW handle, InitrdRead(handle)
    PROVE  /\ UNCHANGED files /\ ReadBounded'
           /\ \/ UNCHANGED open_files
              \/ \E at \in 1 .. Len(open_files) : \E pos \in Nat :
                     open_files' = [open_files EXCEPT ![at].read_pos = pos]
  <1> DEFINE at == FindOpenFile(handle)
  <1>1. UNCHANGED files
    BY DEF InitrdRead, Method, archive
  <1>2. CASE at = 0
    BY <1>1, <1>2 DEF InitrdRead, Error, ReadBounded
  <1>3. CASE at # 0
    <2>1. at \in 1 .. Len(open_files) /\ at \in DOMAIN open_files
      BY <1>3, FoundIsPlace, LenProperties DEF IInv, Falling
    <2>2. PICK size \in Nat, from \in Nat : size = open_files[at].size /\ from = open_files[at].read_pos
      BY <2>1 DEF PosInv, Sizes
    <2>3. PICK count \in Counts : \E length :
              /\ length = IF from >= size THEN 0 ELSE Count(open_files[at], count)
              /\ open_files' = [open_files EXCEPT ![at].read_pos = (@ + length) % SizeMod]
              /\ result' = Answer("read", [from |-> from, length |-> length, size |-> size])
      BY <1>3, <2>2 DEF InitrdRead
    <2>4. PICK length :
              /\ length = IF from >= size THEN 0 ELSE Count(open_files[at], count)
              /\ open_files' = [open_files EXCEPT ![at].read_pos = (@ + length) % SizeMod]
              /\ result' = Answer("read", [from |-> from, length |-> length, size |-> size])
      BY <2>3
    <2>5. count \in Nat /\ SizeMod \in Nat \ {0}
      BY InitrdAssumption
    <2>6. /\ length \in Nat
          /\ from + length <= IF from >= size THEN from ELSE size + 2 * from
      <3>1. CASE from >= size
        BY <2>2, <2>4, <3>1
      <3>2. CASE from < size
        <4> DEFINE cut == IF count > size THEN size ELSE count
        <4>1. cut \in Nat /\ cut <= size
          BY <2>2, <2>5
        <4>2. length = IF from + cut >= size THEN (2 * cut + from - size) % SizeMod ELSE cut
          BY <2>2, <2>4, <3>2 DEF Count
        <4> HIDE DEF cut
        <4>3. CASE from + cut >= size
          <5>1. 2 * cut + from - size \in Int /\ 2 * cut + from - size >= 0
                /\ 2 * cut + from - size <= size + from
            BY <2>2, <4>1, <4>3
          <5>2. length \in Nat /\ length <= 2 * cut + from - size
            BY <4>2, <4>3, <5>1, SizeT
          <5> QED BY <2>2, <3>2, <4>1, <5>1, <5>2
        <4>4. CASE from + cut < size
          BY <2>2, <3>2, <4>1, <4>2, <4>4
        <4> QED BY <2>2, <4>1, <4>3, <4>4
      <3> QED BY <2>2, <3>1, <3>2
    <2>7. (from + length) % SizeMod \in Nat
      BY <2>2, <2>6, SizeT
    <2>8. ReadBounded'
      <3>1. result'.value.from = from /\ result'.value.length = length /\ result'.value.size = size
        BY <2>4 DEF Answer
      <3> QED BY <2>6, <3>1 DEF ReadBounded
    <2>9. open_files' = [open_files EXCEPT ![at].read_pos = (from + length) % SizeMod]
      BY <2>1, <2>2, <2>4
    <2> QED BY <1>1, <2>1, <2>7, <2>8, <2>9
  <1> QED BY <1>2, <1>3

LEMMA PosInit == Init => PosInv /\ ReadBounded
  <1> SUFFICES ASSUME Init PROVE PosInv /\ ReadBounded
    OBVIOUS
  <1>1. DOMAIN open_files = {}
    BY DEF Init
  <1>2. result.is # "read"
    BY DEF Init, Error
  <1> QED BY <1>1, <1>2 DEF Init, PosInv, ReadBounded

(* Only a read answers "read". *)
NoRead == result'.is # "read" \/ result' = result

LEMMA NoReadBounded == ReadBounded /\ NoRead => ReadBounded'
  BY DEF ReadBounded, NoRead

LEMMA NextBounded ==
    ASSUME IInv, PosInv, Sizes, ReadBounded, [Next]_vars
    PROVE  PosInv' /\ ReadBounded'
  <1>1. ASSUME NEW path, NEW reads, InitrdOpen(path, reads) PROVE PosInv' /\ ReadBounded'
    <2>1. UNCHANGED open_files \/ \E header : open_files' = <<OpenFile(header)>> \o open_files
      BY <1>1 DEF InitrdOpen, OpenTar, Return
    <2>2. NoRead /\ UNCHANGED files
      BY <1>1 DEF InitrdOpen, OpenTar, Return, NoRead, archive, Error, Answer
    <2> QED BY <2>1, <2>2, PosStep, NoReadBounded
  <1>2. ASSUME NEW path, InitrdExists(path) \/ InitrdSize(path) \/ InitrdLastModified(path)
        PROVE  PosInv' /\ ReadBounded'
    <2>1. UNCHANGED <<open_files, files>>
      BY <1>2 DEF InitrdExists, InitrdSize, InitrdLastModified, Field, OpenTar, Method, Return, archive
    <2>2. NoRead
      BY <1>2 DEF InitrdExists, InitrdSize, InitrdLastModified, Field, OpenTar, Return, NoRead, Error, Answer
    <2> QED BY <2>1, <2>2, PosStep, NoReadBounded
  <1>3. ASSUME NEW path, InitrdIsDirectory(path) \/ InitrdList(path)
        PROVE  PosInv' /\ ReadBounded'
    <2>1. UNCHANGED <<open_files, files>>
      BY <1>3 DEF InitrdIsDirectory, InitrdList, OpenTar, Return, archive
    <2>2. NoRead
      BY <1>3 DEF InitrdIsDirectory, InitrdList, OpenTar, Return, NoRead, Error, Answer
    <2> QED BY <2>1, <2>2, PosStep, NoReadBounded
  <1>4. ASSUME NEW handle, InitrdClose(handle) PROVE PosInv' /\ ReadBounded'
    <2>1. \/ UNCHANGED open_files
          \/ \E at \in 1 .. Len(open_files) : open_files' = RemoveAt(open_files, at)
      BY <1>4, FoundIsPlace DEF InitrdClose, IInv
    <2>2. NoRead /\ UNCHANGED files
      BY <1>4 DEF InitrdClose, Method, NoRead, archive, Error, Answer
    <2> QED BY <2>1, <2>2, PosStep, NoReadBounded
  <1>5. ASSUME NEW handle, InitrdRead(handle) PROVE PosInv' /\ ReadBounded'
    BY <1>5, ReadOutcome, PosStep
  <1>6. ASSUME NEW handle, NEW whence \in {"cur", "set", "end", "other"}, NEW offset \in Offsets,
               InitrdSeek(handle, whence, offset)
        PROVE  PosInv' /\ ReadBounded'
    <2>1. NoRead /\ UNCHANGED files
      BY <1>6 DEF InitrdSeek, Method, NoRead, archive, Error, Answer
    <2>2. CASE FindOpenFile(handle) = 0
      <3>1. UNCHANGED open_files
        BY <1>6, <2>2 DEF InitrdSeek
      <3> QED BY <2>1, <3>1, PosStep, NoReadBounded
    <2>3. CASE FindOpenFile(handle) # 0
      <3>1. PICK at : at = FindOpenFile(handle)
        OBVIOUS
      <3>2. at \in 1 .. Len(open_files) /\ at \in DOMAIN open_files
        BY <2>3, <3>1, FoundIsPlace, LenProperties DEF IInv, Falling
      <3>3. open_files[at].read_pos \in Int /\ open_files[at].size \in Int /\ offset \in Int
        BY <3>2, InitrdAssumption DEF PosInv, Sizes
      <3>4. PICK pos : pos = SeekTo(open_files[at], whence, offset)
        OBVIOUS
      <3>5. pos \in Nat
        <4>1. (\E n \in Int : pos = n % SizeMod) \/ pos = open_files[at].read_pos
          BY <3>3, <3>4 DEF SeekTo
        <4> QED BY <3>2, <4>1, SizeT DEF PosInv
      <3>6. open_files' = [open_files EXCEPT ![at].read_pos = pos]
        BY <1>6, <2>3, <3>1, <3>4 DEF InitrdSeek
      <3> QED BY <2>1, <3>2, <3>5, <3>6, PosStep, NoReadBounded
    <2> QED BY <2>2, <2>3
  <1>7. CASE UNCHANGED vars
    BY <1>7, PosStep DEF vars, ReadBounded
  <1> QED BY <1>1, <1>2, <1>3, <1>4, <1>5, <1>6, <1>7 DEF Next

(* Whatever the memory count is read from holds, and wherever Lua seeks to:  *)
(* a read ends at most twice its position behind the end of the file         *)
(* (initrd_read).                                                            *)
THEOREM ReadStaysNear == Spec => []ReadBounded
  BY PosInit, InitHolds, NextHolds, NextBounded, SizesAreNumbers, FilesAreWhole, PTL DEF Spec

-----------------------------------------------------------------------------
(* The headers that next_file comes to behind a block.                       *)
HeadersFrom(from, blocks, start) ==
    IF ~NextFile(blocks, start) THEN <<>> ELSE <<start>> \o from[After(blocks, start)]

NameOf(header) == WithoutSlash(FullName(header))
EntriesOf(path, headers) ==
    {<<i, SubSeq(NameOf(memory[headers[i]]), Len(path) + 1, Len(NameOf(memory[headers[i]])))>> :
        i \in {j \in DOMAIN headers : Listed(path, memory[headers[j]])}}

LEMMA HeadersWalk ==
    ASSUME files \in Archives, memory = Layout(files), NEW path, NEW directory
    PROVE  \E from : /\ \A start \in Positions : from[start] = HeadersFrom(from, memory, start)
                     /\ Entries(path, directory) = EntriesOf(path, from[After(memory, directory)])
  <1> DEFINE L == Len(memory)
             N == [s \in 1 .. L |-> After(memory, s)]
             F == [e \in (1 .. L) \X Seq(Nat) |-> IF ~memory[e[1]].ustar THEN <<>> ELSE <<e[1]>> \o e[2]]
             Step(f, s) == HeadersFrom(f, memory, s)
  <1>1. L \in Nat /\ \A s \in 1 .. L : After(memory, s) \in Nat /\ After(memory, s) > s
    BY Places, GoesOn
  <1>2. N \in [1 .. L -> Nat] /\ \A s \in 1 .. L : N[s] > s
    BY <1>1
  <1>3. <<>> \in Seq(Nat) /\ F \in [(1 .. L) \X Seq(Nat) -> Seq(Nat)]
    <2>1. <<>> \in Seq(Nat)
      BY EmptySeq
    <2>2. ASSUME NEW s \in 1 .. L, NEW rest \in Seq(Nat) PROVE <<s>> \o rest \in Seq(Nat)
      <3>1. s \in Nat
        BY <1>1
      <3>2. <<s>> \in Seq(Nat)
        BY <3>1
      <3> QED BY <3>2, ConcatProperties
    <2> HIDE DEF L
    <2> QED BY <2>1, <2>2
  <1>4. PICK f \in [Positions -> Seq(Nat)] : Walks(f, L, N, <<>>, F)
    <2> HIDE DEF L, N, F
    <2> QED BY <1>1, <1>2, <1>3, WalkExists
  <1>5. ASSUME NEW s \in Positions PROVE f[s] = Step(f, s)
    <2>1. CASE s > L
      <3>1. f[s] = <<>>
        BY <1>4, <2>1 DEF Walks
      <3>2. ~NextFile(memory, s)
        BY <1>1, <2>1 DEF NextFile, Positions
      <3> QED BY <3>1, <3>2 DEF HeadersFrom
    <2>2. CASE ~ (s > L)
      <3>1. s \in 1 .. L
        BY <1>1, <2>2 DEF Positions
      <3>2. f[s] = F[<<s, f[N[s]]>>] /\ N[s] = After(memory, s)
        <4>1. f[s] = F[<<s, f[N[s]]>>]
          <5> HIDE DEF F, N
          <5> QED BY <1>4, <2>2 DEF Walks
        <4> QED BY <3>1, <4>1
      <3>3. After(memory, s) \in Positions
        BY <1>1, <3>1 DEF Positions
      <3>4. PICK rest \in Seq(Nat) : rest = f[After(memory, s)]
        BY <3>3
      <3>5. F[<<s, rest>>] = IF ~memory[s].ustar THEN <<>> ELSE <<s>> \o rest
        BY <3>1
      <3>6. s <= Len(memory)
        BY <3>1
      <3> HIDE DEF L, N, F
      <3> QED BY <3>2, <3>4, <3>5, <3>6, Zenon DEF HeadersFrom, NextFile
    <2> QED BY <2>1, <2>2
  <1>6. f = [s \in Positions |-> Step(f, s)]
    <2> HIDE DEF Step
    <2> QED BY <1>5
  <1>7. PICK from : from = CHOOSE g : g = [s \in Positions |-> Step(g, s)]
    OBVIOUS
  <1>8. from = [s \in Positions |-> Step(from, s)]
    <2> HIDE DEF Step
    <2> QED BY <1>6, <1>7
  <1>9. Entries(path, directory) = EntriesOf(path, from[After(memory, directory)])
    BY <1>7, Zenon DEF Entries, EntriesOf, NameOf, HeadersFrom, Positions
  <1>10. \A s \in Positions : from[s] = Step(from, s)
    <2> HIDE DEF Step
    <2> QED BY <1>8
  <1> QED BY <1>9, <1>10

(* They are the headers of the files behind it.                              *)
Lists(headers, list, n) ==
    /\ headers \in Seq(Nat)
    /\ {headers[i] : i \in DOMAIN headers} = {Place(list, m) : m \in n .. Len(list)}

LEMMA HeadersBehind ==
    ASSUME files \in Archives, memory = Layout(files), NEW from,
           \A start \in Positions : from[start] = HeadersFrom(from, memory, start)
    PROVE  \A n \in 1 .. Len(files) + 1 : Lists(from[Place(files, n)], files, n)
  <1>1. Len(files) \in Nat
    BY ListIsSeq
  <1>2. /\ Len(memory) \in Nat /\ Place(files, Len(files) + 1) = Len(memory) + 1
        /\ \A n \in 1 .. Len(files) : Place(files, n) \in 1 .. Len(memory)
    BY Places
  <1> DEFINE Good == {d \in Nat : d <= Len(files) =>
                          Lists(from[Place(files, Len(files) + 1 - d)], files, Len(files) + 1 - d)}
  <1>3. 0 \in Good
    <2>1. Len(memory) + 1 \in Positions /\ ~ (Len(memory) + 1 <= Len(memory))
      BY <1>2 DEF Positions
    <2>2. from[Len(memory) + 1] = <<>>
      BY <2>1, Zenon DEF HeadersFrom, NextFile
    <2>3. Len(files) + 1 - 0 = Len(files) + 1 /\ Len(files) + 1 .. Len(files) = {}
      BY <1>1
    <2>4. <<>> \in Seq(Nat) /\ DOMAIN <<>> = {}
      BY EmptySeq
    <2> QED BY <1>2, <2>2, <2>3, <2>4 DEF Lists
  <1>4. ASSUME NEW d \in Nat, d \in Good PROVE d + 1 \in Good
    <2>1. SUFFICES ASSUME d + 1 <= Len(files)
                   PROVE  Lists(from[Place(files, Len(files) + 1 - (d + 1))], files, Len(files) + 1 - (d + 1))
      OBVIOUS
    <2>2. PICK n \in 1 .. Len(files) : n = Len(files) + 1 - (d + 1) /\ n + 1 = Len(files) + 1 - d
      BY <1>1, <2>1
    <2>3. Lists(from[Place(files, n + 1)], files, n + 1)
      <3>1. d <= Len(files)
        BY <1>1, <2>1
      <3> QED BY <1>4, <2>2, <3>1
    <2>4. PICK rest \in Seq(Nat) : rest = from[Place(files, n + 1)]
      BY <2>3 DEF Lists
    <2>5. PICK place \in Nat : place = Place(files, n) /\ place \in Positions
      BY <1>2 DEF Positions
    <2>6. from[place] = <<place>> \o rest
      <3>1. /\ After(memory, place) = Place(files, n + 1)
            /\ NextFile(memory, place)
        BY <2>5, NextIsNext
      <3> QED BY <2>4, <2>5, <3>1, Zenon DEF HeadersFrom
    <2>7. <<place>> \in Seq(Nat) /\ Len(<<place>>) = 1 /\ <<place>>[1] = place
      BY <2>5
    <2>a. PICK first \in Seq(Nat) : first = <<place>> /\ Len(first) = 1 /\ first[1] = place
      BY <2>7
    <2>b. PICK all \in Seq(Nat) : all = first \o rest
      BY ConcatProperties
    <2>8. /\ all = <<place>> \o rest /\ Len(all) = 1 + Len(rest)
          /\ \A i \in 1 .. 1 + Len(rest) : all[i] = IF i <= 1 THEN first[i] ELSE rest[i - 1]
      <3>1. Len(all) = Len(first) + Len(rest)
            /\ \A i \in 1 .. Len(first) + Len(rest) :
                   all[i] = IF i <= Len(first) THEN first[i] ELSE rest[i - Len(first)]
        BY <2>b, ConcatProperties
      <3> QED BY <2>a, <2>b, <3>1
    <2>9. DOMAIN rest = 1 .. Len(rest) /\ DOMAIN all = 1 .. 1 + Len(rest) /\ Len(rest) \in Nat
      BY <2>8, LenProperties
    <2>10. all[1] = place /\ \A i \in 1 .. Len(rest) : all[i + 1] = rest[i]
      <3>1. all[1] = place
        BY <2>a, <2>8, <2>9
      <3>2. ASSUME NEW i \in 1 .. Len(rest) PROVE all[i + 1] = rest[i]
        <4>1. i + 1 \in 1 .. 1 + Len(rest) /\ ~ (i + 1 <= 1) /\ (i + 1) - 1 = i
          BY <2>9
        <4> QED BY <2>8, <4>1
      <3> QED BY <3>1, <3>2
    <2>11. {all[i] : i \in DOMAIN all} = {place} \cup {rest[i] : i \in DOMAIN rest}
      <3>1. \A i \in DOMAIN all : i = 1 \/ \E j \in DOMAIN rest : i = j + 1
        <4> SUFFICES ASSUME NEW i \in DOMAIN all, i # 1 PROVE \E j \in DOMAIN rest : i = j + 1
          OBVIOUS
        <4>1. i - 1 \in DOMAIN rest /\ i = (i - 1) + 1
          BY <2>9
        <4> QED BY <4>1
      <3>2. 1 \in DOMAIN all /\ \A j \in DOMAIN rest : j + 1 \in DOMAIN all
        BY <2>9
      <3>3. \A j \in DOMAIN rest : all[j + 1] = rest[j]
        BY <2>9, <2>10
      <3> DEFINE All == {all[i] : i \in DOMAIN all}
                 Rest == {rest[i] : i \in DOMAIN rest}
      <3>4. place \in All
        BY <2>10, <3>2
      <3>5. ASSUME NEW j \in DOMAIN rest PROVE rest[j] \in All
        BY <3>2, <3>3
      <3>6. ASSUME NEW i \in DOMAIN all PROVE all[i] = place \/ all[i] \in Rest
        <4>1. CASE i = 1
          BY <2>10, <4>1
        <4>2. ASSUME NEW j \in DOMAIN rest, i = j + 1 PROVE all[i] \in Rest
          BY <3>3, <4>2
        <4> HIDE DEF Rest
        <4> QED BY <3>1, <4>1, <4>2
      <3> QED BY <3>4, <3>5, <3>6
    <2>12. {Place(files, m) : m \in n .. Len(files)} = {place} \cup {Place(files, m) : m \in n + 1 .. Len(files)}
      <3>1. n .. Len(files) = {n} \cup (n + 1 .. Len(files))
        BY <1>1
      <3> QED BY <2>5, <3>1
    <2>13. Lists(all, files, n)
      BY <2>3, <2>4, <2>11, <2>12 DEF Lists
    <2> QED BY <2>2, <2>5, <2>6, <2>8, <2>13
  <1>5. ASSUME NEW n \in 1 .. Len(files) + 1 PROVE Lists(from[Place(files, n)], files, n)
    <2>1. PICK d \in Nat : d <= Len(files) /\ Len(files) + 1 - d = n
      <3>1. Len(files) + 1 - n \in Nat /\ Len(files) + 1 - n <= Len(files)
            /\ Len(files) + 1 - (Len(files) + 1 - n) = n
        BY <1>1
      <3> QED BY <3>1
    <2> HIDE DEF Good
    <2>2. d \in Good
      BY <1>3, <1>4, Induction
    <2> QED BY <2>1, <2>2 DEF Good
  <1> QED BY <1>5

(* A set of numbers has a least one.                                         *)
LEMMA LeastOf == ASSUME NEW I, I \subseteq Nat, I # {} PROVE \E x \in I : \A y \in I : x =< y
  <1> DEFINE Below == {n \in Nat : \A m \in Nat : m =< n => m \notin I}
  <1> SUFFICES ASSUME \A x \in I : \E y \in I : ~(x =< y) PROVE FALSE
    OBVIOUS
  <1>1. 0 \in Below
    <2>1. ASSUME 0 \in I PROVE FALSE
      <3>1. PICK y \in I : ~(0 =< y)
        BY <2>1
      <3> QED BY <3>1
    <2> QED BY <2>1
  <1>2. ASSUME NEW n \in Nat, n \in Below PROVE n + 1 \in Below
    <2>1. ASSUME n + 1 \in I PROVE FALSE
      <3>1. PICK y \in I : ~(n + 1 =< y)
        BY <2>1
      <3>2. y \in Nat /\ y =< n
        BY <3>1
      <3> QED BY <1>2, <3>1, <3>2
    <2> QED BY <1>2, <2>1
  <1>3. \A n \in Nat : n \in Below
    <2> HIDE DEF Below
    <2> QED BY <1>1, <1>2, Induction
  <1>4. PICK x \in I : x \in Nat
    OBVIOUS
  <1>5. x \notin I
    BY <1>3, <1>4
  <1> QED BY <1>4, <1>5

-----------------------------------------------------------------------------
(* What list compares: a name behind a directory's.                          *)
Wide(s) == s \in Seq(Range(s))

LEMMA Wider == ASSUME NEW s, Wide(s), NEW U, Range(s) \subseteq U
               PROVE  s \in Seq(U) /\ Len(s) \in Nat /\ DOMAIN s = 1 .. Len(s)
  <1>1. Len(s) \in Nat /\ DOMAIN s = 1 .. Len(s) /\ \A i \in 1 .. Len(s) : s[i] \in Range(s)
    BY LenProperties, ElementOfSeq DEF Wide
  <1>2. s \in [1 .. Len(s) -> U]
    BY <1>1, LenProperties DEF Wide
  <1> QED BY <1>1, <1>2, SeqDef

Begins(full, name) == Len(full) <= Len(name) /\ \A i \in 1 .. Len(full) : name[i] = full[i]

LEMMA PrefixBegins ==
    ASSUME NEW U, NEW full \in Seq(U), NEW name \in Seq(U)
    PROVE  IsPrefix(full, name) <=> Begins(full, name)
  <1>1. Len(full) \in Nat /\ Len(name) \in Nat
    BY LenProperties
  <1>2. ASSUME Len(full) <= Len(name)
        PROVE  /\ SubSeq(full, 1, Len(full)) \in Seq(U) /\ SubSeq(name, 1, Len(full)) \in Seq(U)
               /\ Len(SubSeq(full, 1, Len(full))) = Len(full)
               /\ Len(SubSeq(name, 1, Len(full))) = Len(full)
               /\ \A i \in 1 .. Len(full) : /\ SubSeq(full, 1, Len(full))[i] = full[i]
                                            /\ SubSeq(name, 1, Len(full))[i] = name[i]
    <2>1. \A i \in 1 .. Len(full) : full[i] \in U /\ name[i] \in U
      BY <1>1, <1>2, ElementOfSeq
    <2>2. PICK l \in Nat : l = Len(full)
      BY <1>1
    <2>3. \A i \in 1 .. l - 1 + 1 : 1 + i - 1 = i
      BY <2>2
    <2>4. l - 1 + 1 = l /\ (IF 1 <= l THEN l - 1 + 1 ELSE 0) = l
      BY <2>2
    <2>5. /\ SubSeq(full, 1, l) \in Seq(U) /\ Len(SubSeq(full, 1, l)) = IF 1 <= l THEN l - 1 + 1 ELSE 0
          /\ \A i \in 1 .. l - 1 + 1 : SubSeq(full, 1, l)[i] = full[1 + i - 1]
      BY <2>1, <2>2, SubSeqProperties
    <2>6. /\ SubSeq(name, 1, l) \in Seq(U) /\ Len(SubSeq(name, 1, l)) = IF 1 <= l THEN l - 1 + 1 ELSE 0
          /\ \A i \in 1 .. l - 1 + 1 : SubSeq(name, 1, l)[i] = name[1 + i - 1]
      BY <2>1, <2>2, SubSeqProperties
    <2> QED BY <2>2, <2>3, <2>4, <2>5, <2>6
  <1>3. ASSUME Begins(full, name) PROVE SubSeq(full, 1, Len(full)) = SubSeq(name, 1, Len(full))
    BY <1>2, <1>3, SeqEqual DEF Begins
  <1>4. ASSUME Len(full) <= Len(name), SubSeq(full, 1, Len(full)) = SubSeq(name, 1, Len(full))
        PROVE  Begins(full, name)
    BY <1>2, <1>4 DEF Begins
  <1>5. IsPrefix(full, name) <=>
            Len(full) <= Len(name) /\ SubSeq(full, 1, Len(full)) = SubSeq(name, 1, Len(full))
    <2>1. SubSeq(name, 1, Len(full)) = SubSeq(name, 1, Len(full))
      OBVIOUS
    <2> QED BY Zenon DEF IsPrefix
  <1> QED BY <1>3, <1>4, <1>5 DEF Begins

LEMMA InDirectoryIs ==
    ASSUME NEW U, NEW rest \in Seq(U)
    PROVE  InDirectory(rest) <=> \A i \in 1 .. Len(rest) : rest[i] = Slash => i = Len(rest)
  <1> DEFINE I == {i \in 1 .. Len(rest) : rest[i] = Slash}
             first == CHOOSE x \in I : \A y \in I : x =< y
  <1>1. Len(rest) \in Nat
    BY LenProperties
  <1>2. SelectInSeq(rest, LAMBDA token : token = Slash) = IF I # {} THEN first ELSE 0
    BY DEF SelectInSeq, Min
  <1>3. CASE I = {}
    <2>1. InDirectory(rest)
      <3> HIDE DEF I
      <3> QED BY <1>2, <1>3 DEF InDirectory
    <2> QED BY <1>3, <2>1
  <1>4. CASE I # {}
    <2>1. I \subseteq Nat
      BY <1>1
    <2>2. \E x \in I : \A y \in I : x =< y
      <3> HIDE DEF I
      <3> QED BY <1>4, <2>1, LeastOf
    <2>3. first \in I /\ \A y \in I : first =< y
      <3> HIDE DEF I
      <3> QED BY <2>2
    <2>4. InDirectory(rest) <=> first \in {0, Len(rest)}
      <3> HIDE DEF I, first
      <3> QED BY <1>2, <1>4 DEF InDirectory
    <2>5. PICK x \in 1 .. Len(rest) : x = first /\ rest[x] = Slash
                                     /\ \A y \in 1 .. Len(rest) : rest[y] = Slash => x =< y
      <3> HIDE DEF first
      <3> QED BY <2>3
    <2>6. first \in {0, Len(rest)} <=> x = Len(rest)
      <3> HIDE DEF I, first
      <3> QED BY <1>1, <2>5
    <2>7. x = Len(rest) <=> \A i \in 1 .. Len(rest) : rest[i] = Slash => i = Len(rest)
      BY <1>1, <2>5
    <2> HIDE DEF first, I
    <2> QED BY <2>4, <2>6, <2>7
  <1> QED BY <1>3, <1>4

(* Append(directory, token) and directory \o <<token, Slash>>, place by place. *)
OneBehind(full, name) ==
    Len(name) = Len(full) + 1 /\ name[Len(full) + 1] # Slash
TwoBehind(full, name) ==
    Len(name) = Len(full) + 2 /\ name[Len(full) + 1] # Slash /\ name[Len(full) + 2] = Slash

LEMMA DirectlyIs ==
    ASSUME NEW U, NEW full \in Seq(U), NEW name \in Seq(U), Slash \in U
    PROVE  DirectlyIn(full, name) <=>
               Begins(full, name) /\ (OneBehind(full, name) \/ TwoBehind(full, name))
  <1> DEFINE k == Len(full)
  <1>1. k \in Nat /\ Len(name) \in Nat /\ DOMAIN name = 1 .. Len(name)
        /\ \A i \in 1 .. Len(name) : name[i] \in U /\ name[i] \in Range(name)
    BY LenProperties, ElementOfSeq DEF Range
  <1>2. Range(name) \subseteq U
    BY <1>1 DEF Range
  <1>3. ASSUME NEW token \in U
        PROVE  /\ Append(full, token) \in Seq(U) /\ Len(Append(full, token)) = k + 1
               /\ \A i \in 1 .. k : Append(full, token)[i] = full[i]
               /\ Append(full, token)[k + 1] = token
    BY AppendProperties
  <1>4. ASSUME NEW token \in U
        PROVE  /\ full \o <<token, Slash>> \in Seq(U) /\ Len(full \o <<token, Slash>>) = k + 2
               /\ \A i \in 1 .. k : (full \o <<token, Slash>>)[i] = full[i]
               /\ (full \o <<token, Slash>>)[k + 1] = token
               /\ (full \o <<token, Slash>>)[k + 2] = Slash
    <2>1. PICK two \in Seq(U) : two = <<token, Slash>> /\ Len(two) = 2 /\ two[1] = token /\ two[2] = Slash
      <3>1. <<token, Slash>> \in Seq(U) /\ Len(<<token, Slash>>) = 2
        OBVIOUS
      <3> QED BY <3>1
    <2>2. PICK both \in Seq(U) : both = full \o two
      BY ConcatProperties
    <2>3. /\ Len(both) = k + Len(two)
          /\ \A i \in 1 .. k + Len(two) : both[i] = IF i <= k THEN full[i] ELSE two[i - k]
      BY <2>2, ConcatProperties
    <2>4. Len(both) = k + 2 /\ \A i \in 1 .. k + 2 : both[i] = IF i <= k THEN full[i] ELSE two[i - k]
      BY <2>1, <2>3
    <2> HIDE DEF k
    <2>5. /\ \A i \in 1 .. k : i \in 1 .. k + 2 /\ i <= k
          /\ k + 1 \in 1 .. k + 2 /\ ~(k + 1 <= k) /\ (k + 1) - k = 1
          /\ k + 2 \in 1 .. k + 2 /\ ~(k + 2 <= k) /\ (k + 2) - k = 2
      BY <1>1
    <2>6. (\A i \in 1 .. k : both[i] = full[i]) /\ both[k + 1] = token /\ both[k + 2] = Slash
      BY <2>1, <2>4, <2>5
    <2> QED BY <2>1, <2>2, <2>4, <2>6
  <1>5. ASSUME DirectlyIn(full, name)
        PROVE  Begins(full, name) /\ (OneBehind(full, name) \/ TwoBehind(full, name))
    <2>1. PICK token \in Range(name) \ {Slash} :
              name = Append(full, token) \/ name = full \o <<token, Slash>>
      BY <1>5 DEF DirectlyIn
    <2>2. token \in U /\ token # Slash
      BY <1>2, <2>1
    <2>3. CASE name = Append(full, token)
      BY <1>1, <1>3, <2>2, <2>3 DEF Begins, OneBehind
    <2>4. CASE name = full \o <<token, Slash>>
      <3> DEFINE two == full \o <<token, Slash>>
      <3>1. name = two /\ Len(two) = k + 2 /\ (\A i \in 1 .. k : two[i] = full[i])
            /\ two[k + 1] = token /\ two[k + 2] = Slash
        BY <1>4, <2>2, <2>4
      <3> HIDE DEF two
      <3> QED BY <1>1, <2>2, <3>1 DEF Begins, TwoBehind
    <2> QED BY <2>1, <2>3, <2>4
  <1>6. ASSUME Begins(full, name), OneBehind(full, name) PROVE DirectlyIn(full, name)
    <2>1. PICK token \in U : token = name[k + 1] /\ token \in Range(name) \ {Slash}
      BY <1>1, <1>6 DEF OneBehind
    <2>2. name = Append(full, token)
      <3> DEFINE other == Append(full, token)
      <3>1. /\ other \in Seq(U) /\ Len(other) = k + 1 /\ (\A i \in 1 .. k : other[i] = full[i])
            /\ other[k + 1] = token
        BY <1>3
      <3>2. \A i \in 1 .. Len(name) : i \in 1 .. k \/ i = k + 1
        BY <1>1, <1>6 DEF OneBehind
      <3> HIDE DEF other
      <3>3. Len(name) = Len(other) /\ \A i \in 1 .. Len(name) : name[i] = other[i]
        BY <1>6, <2>1, <3>1, <3>2 DEF Begins, OneBehind
      <3>4. name = other
        BY <3>1, <3>3, SeqEqual
      <3> QED BY <3>4 DEF other
    <2> QED BY <2>1, <2>2 DEF DirectlyIn
  <1>7. ASSUME Begins(full, name), TwoBehind(full, name) PROVE DirectlyIn(full, name)
    <2>1. PICK token \in U : token = name[k + 1] /\ token \in Range(name) \ {Slash}
      BY <1>1, <1>7 DEF TwoBehind
    <2>2. name = full \o <<token, Slash>>
      <3> DEFINE other == full \o <<token, Slash>>
      <3>1. /\ other \in Seq(U) /\ Len(other) = k + 2 /\ (\A i \in 1 .. k : other[i] = full[i])
            /\ other[k + 1] = token /\ other[k + 2] = Slash
        BY <1>4
      <3>2. \A i \in 1 .. Len(name) : i \in 1 .. k \/ i = k + 1 \/ i = k + 2
        BY <1>1, <1>7 DEF TwoBehind
      <3> HIDE DEF other
      <3>3. Len(name) = Len(other) /\ \A i \in 1 .. Len(name) : name[i] = other[i]
        BY <1>7, <2>1, <3>1, <3>2 DEF Begins, TwoBehind
      <3>4. name = other
        BY <3>1, <3>3, SeqEqual
      <3> QED BY <3>4 DEF other
    <2> QED BY <2>1, <2>2 DEF DirectlyIn
  <1> QED BY <1>5, <1>6, <1>7

(* A name as a tidy archive has them.                                        *)
TidyName(name) ==
    /\ Wide(name) /\ name # <<>> /\ name[1] # Slash
    /\ \A i \in DOMAIN name : name[i] = Slash =>
           /\ i + 1 <= Len(name) => name[i + 1] # Slash
           /\ i + 2 <= Len(name) => name[i + 2] = Slash
(* A directory's name as list makes it.                                      *)
FullPath(full) == Wide(full) /\ Len(full) > 0 /\ full[Len(full)] = Slash

ListedName(full, name) == IsPrefix(full, name) /\ InDirectory(SubSeq(name, Len(full) + 1, Len(name)))

LEMMA ListedIs ==
    ASSUME NEW full, NEW name, FullPath(full), TidyName(name), name # full
    PROVE  ListedName(full, name) <=> DirectlyIn(full, name)
  <1> DEFINE U == Range(full) \cup Range(name) \cup {Slash}
             rest == SubSeq(name, Len(full) + 1, Len(name))
  <1>1. full \in Seq(U) /\ name \in Seq(U) /\ Len(full) \in Nat /\ Len(name) \in Nat
        /\ DOMAIN name = 1 .. Len(name)
    <2>1. Range(full) \subseteq U /\ Range(name) \subseteq U
      OBVIOUS
    <2> HIDE DEF U
    <2> QED BY <2>1, Wider DEF FullPath, TidyName
  <1>2. Slash \in U
    OBVIOUS
  <1> HIDE DEF U
  <1>3. DirectlyIn(full, name) <=>
            Begins(full, name) /\ (OneBehind(full, name) \/ TwoBehind(full, name))
    BY <1>1, <1>2, DirectlyIs
  <1>4. IsPrefix(full, name) <=> Begins(full, name)
    BY <1>1, PrefixBegins
  <1>5. ASSUME Begins(full, name)
        PROVE  InDirectory(rest) <=> OneBehind(full, name) \/ TwoBehind(full, name)
    <2>1. PICK k \in Nat, l \in Nat : k = Len(full) /\ l = Len(name) /\ k <= l /\ k > 0
      BY <1>1, <1>5 DEF Begins, FullPath
    <2>2. /\ rest \in Seq(U) /\ Len(rest) = l - k
          /\ \A i \in 1 .. l - k : rest[i] = name[k + i]
      <3>1. \A i \in k + 1 .. l : name[i] \in U
        BY <1>1, <2>1, ElementOfSeq
      <3>2. /\ SubSeq(name, k + 1, l) \in Seq(U)
            /\ Len(SubSeq(name, k + 1, l)) = IF k + 1 <= l THEN l - (k + 1) + 1 ELSE 0
            /\ \A i \in 1 .. l - (k + 1) + 1 : SubSeq(name, k + 1, l)[i] = name[k + 1 + i - 1]
        BY <3>1, SubSeqProperties
      <3>3. (IF k + 1 <= l THEN l - (k + 1) + 1 ELSE 0) = l - k
        BY <2>1
      <3>4. l - (k + 1) + 1 = l - k /\ \A i \in 1 .. l - k : k + 1 + i - 1 = k + i
        BY <2>1
      <3> QED BY <2>1, <3>2, <3>3, <3>4
    <2>3. InDirectory(rest) <=> \A i \in 1 .. l - k : name[k + i] = Slash => i = l - k
      <3>1. InDirectory(rest) <=> \A i \in 1 .. Len(rest) : rest[i] = Slash => i = Len(rest)
        BY <2>2, InDirectoryIs
      <3> HIDE DEF rest
      <3> QED BY <2>2, <3>1
    <2>4. l # k
      <3> SUFFICES ASSUME l = k PROVE FALSE
        OBVIOUS
      <3>1. name = full
        BY <1>1, <1>5, <2>1, SeqEqual DEF Begins
      <3> QED BY <3>1
    <2>5. /\ k + 1 <= l => name[k + 1] # Slash
          /\ k + 2 <= l => name[k + 2] = Slash
      <3>1. k \in DOMAIN name /\ name[k] = Slash
        BY <1>1, <1>5, <2>1 DEF Begins, FullPath
      <3> QED BY <2>1, <3>1 DEF TidyName
    <2>6. CASE l = k + 1
      <3>1. l - k = 1 /\ k + 1 <= l
        BY <2>6
      <3>2. InDirectory(rest)
        BY <2>3, <3>1
      <3>3. OneBehind(full, name)
        BY <2>1, <2>5, <2>6, <3>1 DEF OneBehind
      <3> QED BY <3>2, <3>3
    <2>7. CASE l = k + 2
      <3>1. l - k = 2 /\ k + 1 <= l /\ k + 2 <= l
        BY <2>7
      <3>2. InDirectory(rest)
        BY <2>3, <2>5, <3>1
      <3>3. TwoBehind(full, name)
        BY <2>1, <2>5, <2>7, <3>1 DEF TwoBehind
      <3> QED BY <3>2, <3>3
    <2>8. CASE l > k + 2
      <3>1. 2 \in 1 .. l - k /\ 2 # l - k /\ k + 2 <= l
        BY <2>8
      <3>2. ~InDirectory(rest)
        BY <2>3, <2>5, <3>1
      <3>3. ~OneBehind(full, name) /\ ~TwoBehind(full, name)
        BY <2>1, <2>8 DEF OneBehind, TwoBehind
      <3> QED BY <3>2, <3>3
    <2> QED BY <2>1, <2>4, <2>6, <2>7, <2>8
  <1> QED BY <1>3, <1>4, <1>5 DEF ListedName

(* The name of a file's header, and what list asks of it.                    *)
LEMMA TidyNames ==
    ASSUME NEW list \in Archives, Tidy(list), NEW n \in 1 .. Len(list)
    PROVE  TidyName(list[n].name) /\ FullName(HeaderOf(list[n])) = list[n].name
           /\ WithoutSlash(list[n].name) = list[n].name
  <1>1. PICK file \in Range(list) : file = list[n]
    BY ListIsSeq
  <1>2. PICK name : name = file.name
    OBVIOUS
  <1>3. TidyName(name) /\ file.prefix = <<>>
    <2> USE <1>2
    <2> QED BY DEF Tidy, TidyName, Wide
  <1>4. FullName(HeaderOf(file)) = name
    <2>1. FullName(HeaderOf(file)) = name \o <<>>
      BY <1>2, <1>3 DEF FullName, HeaderOf
    <2> QED BY <1>3, <2>1, ConcatEmptySeq DEF TidyName, Wide
  <1>5. WithoutSlash(name) = name
    <2>1. Head(name) = name[1]
      BY <1>3 DEF TidyName, Wide
    <2> QED BY <1>3, <2>1 DEF WithoutSlash, TidyName
  <1> QED BY <1>1, <1>2, <1>3, <1>4, <1>5

(* The path list looks up.                                                   *)
ListPath(path) ==
    IF EndsInSlash(WithoutSlash(path)) THEN WithoutSlash(path) ELSE Append(WithoutSlash(path), Slash)

LEMMA ListPathIsFull == ASSUME NEW path \in Paths PROVE FullPath(ListPath(path))
  <1> DEFINE U == Range(path) \cup {Slash}
  <1>1. path \in Seq(U)
    <2>1. Wide(path) /\ Range(path) \subseteq U
      BY InitrdAssumption DEF Wide
    <2> HIDE DEF U
    <2> QED BY <2>1, Wider
  <1>2. Slash \in U
    OBVIOUS
  <1> HIDE DEF U
  <1>3. PICK stripped \in Seq(U) : stripped = WithoutSlash(path)
    <2>1. CASE path = <<>>
      BY <1>1, <2>1 DEF WithoutSlash
    <2>2. CASE path # <<>>
      BY <1>1, <2>2, HeadTailProperties DEF WithoutSlash
    <2> QED BY <2>1, <2>2
  <1>4. ASSUME NEW s \in Seq(U), Len(s) > 0, s[Len(s)] = Slash PROVE FullPath(s)
    <2>1. s \in Seq(Range(s))
      <3>1. Len(s) \in Nat /\ s \in [1 .. Len(s) -> Range(s)]
        BY LenProperties DEF Range
      <3> QED BY <3>1, SeqDef
    <2> QED BY <1>4, <2>1 DEF FullPath, Wide
  <1>5. CASE EndsInSlash(stripped)
    <2>1. stripped # <<>> /\ Last(stripped) = Slash
      BY <1>5 DEF EndsInSlash
    <2>2. Len(stripped) \in Nat /\ Len(stripped) # 0
      BY <2>1, LenProperties, EmptySeq
    <2>3. Last(stripped) = stripped[Len(stripped)]
      BY DEF Last
    <2>4. Len(stripped) > 0
      BY <2>2
    <2> QED BY <1>3, <1>4, <1>5, <2>1, <2>3, <2>4 DEF ListPath
  <1>6. CASE ~EndsInSlash(stripped)
    <2>1. PICK s \in Seq(U) : s = Append(stripped, Slash) /\ Len(s) = Len(stripped) + 1
                              /\ s[Len(stripped) + 1] = Slash
      BY <1>2, AppendProperties
    <2>2. Len(s) > 0
      BY <2>1, LenProperties
    <2> QED BY <1>3, <1>4, <1>6, <2>1, <2>2 DEF ListPath
  <1> QED BY <1>5, <1>6

-----------------------------------------------------------------------------
(* The entries of a directory.                                               *)
Behind(full, name) == SubSeq(name, Len(full) + 1, Len(name))
ListsExactly(full, entries) ==
    {entry[2] : entry \in entries}
        = {Behind(full, files[n].name) : n \in {m \in DOMAIN files : DirectlyIn(full, files[m].name)}}

(* What is directly in the directory lies behind its header, and has another *)
(* name.                                                                     *)
LEMMA DirectlyBehind ==
    ASSUME files \in Archives, Tidy(files), NEW full, FullPath(full), NEW n \in 1 .. Len(files),
           Matches(HeaderOf(files[n]), WithoutSlash(full), Directory), NEW m \in 1 .. Len(files)
    PROVE  /\ DirectlyIn(full, files[m].name) => m \in n + 1 .. Len(files)
           /\ m > n => files[m].name # full
  <1>1. PICK name : name = files[m].name
    OBVIOUS
  <1>2. TidyName(name)
    BY <1>1, TidyNames
  <1>3. files[n].kind = Directory /\ files[n].name = WithoutSlash(full)
    <2>1. FullName(HeaderOf(files[n])) = files[n].name
      BY TidyNames
    <2>2. HeaderOf(files[n]).kind = files[n].kind /\ Directory # AnyKind
      BY DEF HeaderOf, Directory, AnyKind
    <2> QED BY <2>1, <2>2 DEF Matches
  <1>4. m \in Nat /\ n \in Nat /\ Len(files) \in Nat /\ DOMAIN files = 1 .. Len(files)
    BY ListIsSeq
  <1>5. full # <<>> /\ Head(full) = full[1] /\ Len(full) \in Nat /\ 1 \in 1 .. Len(full)
    <2>1. Len(full) \in Nat /\ full # <<>>
      BY LenProperties, EmptySeq DEF FullPath, Wide
    <2>2. Head(full) = full[1]
      BY <2>1 DEF FullPath, Wide
    <2> QED BY <2>1, <2>2 DEF FullPath
  <1>6. DirectlyIn(full, name) => name[1] = full[1]
    <2> DEFINE U == Range(full) \cup Range(name) \cup {Slash}
    <2>1. full \in Seq(U) /\ name \in Seq(U)
      <3>1. Range(full) \subseteq U /\ Range(name) \subseteq U
        OBVIOUS
      <3> HIDE DEF U
      <3> QED BY <1>2, <3>1, Wider DEF FullPath, TidyName
    <2>2. Slash \in U
      OBVIOUS
    <2> HIDE DEF U
    <2>3. DirectlyIn(full, name) => Begins(full, name)
      BY <2>1, <2>2, DirectlyIs
    <2> QED BY <1>5, <2>3 DEF Begins
  <1>7. CASE full[1] = Slash
    <2>1. ~DirectlyIn(full, name)
      BY <1>2, <1>6, <1>7 DEF TidyName
    <2>2. name # full
      BY <1>2, <1>7 DEF TidyName
    <2> QED BY <1>1, <2>1, <2>2
  <1>8. CASE full[1] # Slash
    <2>1. files[n].name = full
      BY <1>3, <1>5, <1>8 DEF WithoutSlash
    <2>2. DirectlyIn(full, files[m].name) => n < m
      BY <1>3, <1>4, <2>1 DEF Tidy
    <2>3. files[m].name = full => m = n
      BY <1>4, <2>1 DEF Tidy
    <2> QED BY <1>4, <2>2, <2>3
  <1> QED BY <1>7, <1>8

LEMMA EntriesAreExact ==
    ASSUME files \in Archives, memory = Layout(files), Tidy(files), NEW full, FullPath(full),
           NEW directory, directory = TarFind(memory, full, Directory), directory # 0
    PROVE  ListsExactly(full, Entries(full, directory))
  <1>1. PICK n \in 1 .. Len(files) : /\ directory = Place(files, n)
                                     /\ Matches(HeaderOf(files[n]), WithoutSlash(full), Directory)
    BY FindsHeader
  <1>2. n \in Nat /\ Len(files) \in Nat /\ DOMAIN files = 1 .. Len(files)
    BY ListIsSeq
  <1>3. After(memory, directory) = Place(files, n + 1)
    BY <1>1, NextIsNext
  <1>4. PICK from : /\ \A start \in Positions : from[start] = HeadersFrom(from, memory, start)
                    /\ Entries(full, directory) = EntriesOf(full, from[After(memory, directory)])
    BY HeadersWalk
  <1>5. PICK headers : headers = from[Place(files, n + 1)]
    OBVIOUS
  <1>6. Lists(headers, files, n + 1)
    <2>1. n + 1 \in 1 .. Len(files) + 1
      BY <1>2
    <2> QED BY <1>4, <1>5, <2>1, HeadersBehind
  <1>7. ASSUME NEW m \in 1 .. Len(files)
        PROVE  /\ memory[Place(files, m)] = HeaderOf(files[m])
               /\ NameOf(memory[Place(files, m)]) = files[m].name
               /\ Listed(full, memory[Place(files, m)]) <=> ListedName(full, files[m].name)
    <2>1. memory[Place(files, m)] = HeaderOf(files[m])
      BY Places
    <2>2. NameOf(HeaderOf(files[m])) = files[m].name
      BY TidyNames DEF NameOf
    <2>3. Listed(full, HeaderOf(files[m])) <=> ListedName(full, NameOf(HeaderOf(files[m])))
      BY DEF Listed, ListedName, NameOf
    <2> QED BY <2>1, <2>2, <2>3
  <1>8. ASSUME NEW m \in n + 1 .. Len(files)
        PROVE  Listed(full, memory[Place(files, m)]) <=> DirectlyIn(full, files[m].name)
    <2>1. m \in 1 .. Len(files) /\ m > n
      BY <1>2
    <2>2. TidyName(files[m].name) /\ files[m].name # full
      BY <1>1, <2>1, TidyNames, DirectlyBehind
    <2> QED BY <1>7, <2>1, <2>2, ListedIs
  <1> DEFINE Shown == {entry[2] : entry \in EntriesOf(full, headers)}
             Wanted == {Behind(full, files[k].name) :
                            k \in {m \in DOMAIN files : DirectlyIn(full, files[m].name)}}
             At(i) == <<i, Behind(full, NameOf(memory[headers[i]]))>>
  <1>9. EntriesOf(full, headers) = {At(i) : i \in {j \in DOMAIN headers : Listed(full, memory[headers[j]])}}
    BY Zenon DEF EntriesOf, Behind
  <1>10. \A i : At(i)[2] = Behind(full, NameOf(memory[headers[i]]))
    OBVIOUS
  <1>11. ASSUME NEW i \in DOMAIN headers, Listed(full, memory[headers[i]])
         PROVE  Behind(full, NameOf(memory[headers[i]])) \in Wanted
    <2>1. PICK m \in n + 1 .. Len(files) : headers[i] = Place(files, m)
      BY <1>6 DEF Lists
    <2>2. m \in 1 .. Len(files)
      BY <1>2
    <2>3. DirectlyIn(full, files[m].name) /\ NameOf(memory[headers[i]]) = files[m].name
      BY <1>7, <1>8, <1>11, <2>1, <2>2
    <2> QED BY <1>2, <2>2, <2>3
  <1>12. ASSUME NEW m \in DOMAIN files, DirectlyIn(full, files[m].name)
         PROVE  \E i \in DOMAIN headers : /\ Listed(full, memory[headers[i]])
                                          /\ NameOf(memory[headers[i]]) = files[m].name
    <2>1. m \in 1 .. Len(files) /\ m \in n + 1 .. Len(files)
      BY <1>1, <1>2, <1>12, DirectlyBehind
    <2>2. PICK i \in DOMAIN headers : headers[i] = Place(files, m)
      BY <1>6, <2>1 DEF Lists
    <2> QED BY <1>7, <1>8, <1>12, <2>1, <2>2
  <1>13. Shown = {Behind(full, NameOf(memory[headers[i]])) :
                       i \in {j \in DOMAIN headers : Listed(full, memory[headers[j]])}}
    <2> HIDE DEF At
    <2>1. Shown = {At(i)[2] : i \in {j \in DOMAIN headers : Listed(full, memory[headers[j]])}}
      BY <1>9
    <2> QED BY <1>10, <2>1
  <1>14. Shown \subseteq Wanted
    <2> HIDE DEF Wanted, Shown
    <2> QED BY <1>11, <1>13
  <1>15. Wanted \subseteq Shown
    <2> HIDE DEF Shown
    <2> QED BY <1>12, <1>13
  <1>16. Shown = Wanted
    <2> HIDE DEF Shown, Wanted
    <2> QED BY <1>14, <1>15
  <1> QED BY <1>3, <1>4, <1>5, <1>16 DEF ListsExactly

ListAnswered == result.is = "list" => ListsExactly(result.value.of, result.value.entries)

LEMMA ListStep ==
    ASSUME files \in Archives, memory = Layout(files), Tidy(files), ListAnswered,
           NEW path \in Paths, InitrdList(path)
    PROVE  ListAnswered'
  <1> DEFINE full == ListPath(path)
             directory == TarFind(memory, full, Directory)
             found == Answer("list", [of |-> full, entries |-> Entries(full, directory)])
  <1>1. FullPath(full)
    BY ListPathIsFull
  <1>2. UNCHANGED archive
        /\ \/ UNCHANGED result
           \/ result' = Error
           \/ directory # 0 /\ result' = found
    BY Zenon DEF InitrdList, ListPath, OpenTar, Return
  <1>3. files' = files
    BY <1>2 DEF archive
  <1>4. CASE UNCHANGED result
    BY <1>3, <1>4 DEF ListAnswered, ListsExactly
  <1>5. CASE result' = Error
    BY <1>5 DEF ListAnswered, Error
  <1>6. CASE directory # 0 /\ result' = found
    <2>1. ListsExactly(full, Entries(full, directory))
      <3> HIDE DEF full
      <3> QED BY <1>1, <1>6, EntriesAreExact
    <2>2. found.is = "list" /\ found.value.of = full /\ found.value.entries = Entries(full, directory)
      BY DEF Answer
    <2> HIDE DEF full, directory, found
    <2> QED BY <1>3, <1>6, <2>1, <2>2 DEF ListAnswered, ListsExactly
  <1> QED BY <1>2, <1>4, <1>5, <1>6

LEMMA NotListed ==
    ASSUME ListAnswered, UNCHANGED archive, UNCHANGED result \/ result'.is # "list"
    PROVE  ListAnswered'
  BY DEF ListAnswered, ListsExactly, archive

LEMMA NextAnswered ==
    ASSUME \A list \in Archives : Tidy(list)
    PROVE  AlignInv /\ ListAnswered /\ [Next]_vars => ListAnswered'
  <1> SUFFICES ASSUME AlignInv, ListAnswered, [Next]_vars PROVE ListAnswered'
    OBVIOUS
  <1>1. ASSUME NEW path \in Paths, InitrdList(path) PROVE ListAnswered'
    BY <1>1, ListStep DEF AlignInv
  <1>2. ASSUME NEW path, NEW reads, InitrdOpen(path, reads) PROVE ListAnswered'
    <2>1. UNCHANGED archive /\ (UNCHANGED result \/ result'.is # "list")
      BY <1>2 DEF InitrdOpen, OpenTar, Return, Error, Answer
    <2> QED BY <2>1, NotListed
  <1>3. ASSUME NEW path, InitrdExists(path) \/ InitrdSize(path) \/ InitrdLastModified(path)
        PROVE  ListAnswered'
    <2>1. UNCHANGED archive /\ (UNCHANGED result \/ result'.is # "list")
      BY <1>3 DEF InitrdExists, InitrdSize, InitrdLastModified, Field, OpenTar, Method, Return, Error, Answer
    <2> QED BY <2>1, NotListed
  <1>4. ASSUME NEW path, InitrdIsDirectory(path) PROVE ListAnswered'
    <2>1. UNCHANGED archive /\ (UNCHANGED result \/ result'.is # "list")
      BY <1>4 DEF InitrdIsDirectory, OpenTar, Return, Error, Answer
    <2> QED BY <2>1, NotListed
  <1>5. ASSUME NEW handle, InitrdClose(handle) \/ InitrdRead(handle) PROVE ListAnswered'
    <2>1. UNCHANGED archive /\ (UNCHANGED result \/ result'.is # "list")
      BY <1>5 DEF InitrdClose, InitrdRead, Method, Error, Answer
    <2> QED BY <2>1, NotListed
  <1>6. ASSUME NEW handle, NEW whence, NEW offset, InitrdSeek(handle, whence, offset) PROVE ListAnswered'
    <2>1. UNCHANGED archive /\ (UNCHANGED result \/ result'.is # "list")
      BY <1>6 DEF InitrdSeek, Method, Error, Answer
    <2> QED BY <2>1, NotListed
  <1>7. CASE UNCHANGED vars
    BY <1>7, NotListed DEF vars, archive
  <1> QED BY <1>1, <1>2, <1>3, <1>4, <1>5, <1>6, <1>7 DEF Next

LEMMA InitAnswered == Init => ListAnswered
  BY DEF Init, ListAnswered, Error

LEMMA AnsweredExactly == ListAnswered => ListExact
  BY DEF ListAnswered, ListsExactly, ListExact, Behind

(* Whatever tidy archives there are and whatever paths Lua asks for: list    *)
(* answers with what is directly in the directory and nothing else.          *)
THEOREM ListsAreExact ==
    ASSUME \A list \in Archives : Tidy(list)
    PROVE  Spec => []ListExact
  BY InitHolds, NextHolds, InitAligned, NextAligned,
     InitAnswered, NextAnswered, AnsweredExactly, PTL DEF Spec
=============================================================================
