-------------------------------- MODULE Tar ---------------------------------
(***************************************************************************)
(* The archive reader (tar.c).  The archive is memory in blocks: a file is *)
(* a header block and, behind it, as many blocks as its contents fill.  A  *)
(* block of contents may itself look like a header (an archive inside the  *)
(* archive); next_file must step over it.  Names are sequences of tokens,  *)
(* "/" among them.                                                         *)
(***************************************************************************)
EXTENDS Integers, Sequences, SequencesExt

CONSTANTS
    Block,          \* bytes in a block (512)
    Digits          \* octal digits of the size field (11)

ASSUME TarAssumption == Block \in Nat \ {0} /\ Digits \in Nat \ {0}

NormalFile == "file"
Directory == "directory"
AnyKind == "any"

-----------------------------------------------------------------------------
(* What tar writes for a sequence of files, each a name, a prefix, a kind, a *)
(* size, a time and whether its contents look like headers: the size in      *)
(* octal, and the fewest blocks that hold it.  Above(n) is what is left of n *)
(* above its last k digits: nothing above all of them if n fits the field.   *)
Above(n) == LET left[k \in 0 .. Digits] == IF k = 0 THEN n ELSE left[k - 1] \div 8 IN left
Octal(n) == [k \in 1 .. Digits |-> Above(n)[Digits - k] % 8]
Fits(n) == Above(n)[Digits] = 0
BlocksFor(n) == CHOOSE b \in 0 .. n : b * Block >= n /\ (b = 0 \/ (b - 1) * Block < n)

HeaderOf(file) ==
    [ustar |-> TRUE, name |-> file.name, filename_prefix |-> file.prefix, kind |-> file.kind,
     file_size |-> Octal(file.size), mod_time |-> Octal(file.time)]

ContentsOf(file) ==
    [HeaderOf(file) EXCEPT !.ustar = file.nested, !.name = <<"nested">>, !.kind = NormalFile]

Layout(files) ==
    FlattenSeq([i \in DOMAIN files |->
        <<HeaderOf(files[i])>> \o [k \in 1 .. BlocksFor(files[i].size) |-> ContentsOf(files[i])]])

-----------------------------------------------------------------------------
Oct2Bin(str) ==
    LET n[k \in 0 .. Len(str)] == IF k = 0 THEN 0 ELSE 8 * n[k - 1] + str[k] IN n[Len(str)]

(* Mutant: a last block that is not full is not counted. *)
AfterTruncated(memory, start) == start + 1 + (Oct2Bin(memory[start].file_size) \div Block)

(* Where the iterator is after next_file: ((size + 511) & ~511) behind the   *)
(* header.                                                                   *)
After(memory, start) ==
    start + 1 + ((Oct2Bin(memory[start].file_size) + Block - 1) \div Block)

NextFile(memory, start) == start <= Len(memory) /\ memory[start].ustar

(* sprintf puts the prefix behind the name, where the format puts it before. *)
FullName(header) == header.name \o header.filename_prefix

Slash == "/"
WithoutSlash(path) == IF path # <<>> /\ Head(path) = Slash THEN Tail(path) ELSE path

(* name_ptr skips a leading "/" and "./", and then name itself is compared.  *)
Matches(header, to_find, kind) ==
    /\ kind # AnyKind => header.kind = kind
    /\ FullName(header) = to_find

(* The block of the header tar_find stops at, 0 if there is none. *)
TarFind(memory, path, kind) ==
    LET from[start \in Nat \ {0}] ==
            IF ~NextFile(memory, start) THEN 0
            ELSE IF Matches(memory[start], WithoutSlash(path), kind) THEN start
            ELSE from[After(memory, start)]
    IN  from[1]
=============================================================================
