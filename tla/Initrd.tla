------------------------------- MODULE Initrd -------------------------------
(***************************************************************************)
(* The filesystem component (component/initrd.c): the methods Lua calls on *)
(* a read-only archive, the list of open files, and the heap they take     *)
(* their memory from.  Every method that looks for a name calls open_tar,  *)
(* whose iterator is never freed; the assertion in open_tar halts the      *)
(* machine when there is no memory for it.  The assertion's loop           *)
(* (__assert_fail) is the state halted.                                    *)
(***************************************************************************)
EXTENDS Tar

CONSTANTS
    Archives,       \* the archives a machine may be started with
    Paths,          \* paths Lua asks for
    Offsets,        \* offsets Lua seeks to
    SizeMod,        \* 2^32: size_t
    Counts,         \* values the uninitialised count of initrd_read may have
    HeapCells       \* allocations the heap has room for; bounds the calls

ASSUME InitrdAssumption ==
    /\ SizeMod \in Nat \ {0}
    /\ Offsets \subseteq Int /\ Counts \subseteq 0 .. SizeMod - 1
    /\ HeapCells \in Nat
    /\ \A path \in Paths : path \in Seq(Range(path))
    /\ \A list \in Archives :
           /\ list \in Seq(Range(list))
           /\ \A file \in Range(list) : file.size \in Nat /\ Fits(file.size)

VARIABLES
    files,          \* what the archive was made from
    memory,         \* its blocks
    open_files,     \* the list, its head first
    leaked,         \* iterators allocated and never freed
    halted,
    result          \* what the last method returned

vars == <<files, memory, open_files, leaked, halted, result>>
archive == <<files, memory>>

Error == [is |-> "error"]
Answer(kind, value) == [is |-> kind, value |-> value]

(* initrd_init does not set open_files: the list is empty if malloc's memory *)
(* is zero, as fresh memory is assumed to be.                                *)
Init ==
    /\ files \in Archives /\ memory = Layout(files)
    /\ open_files = <<>> /\ leaked = 0
    /\ halted = FALSE /\ result = Error

FreeCells == HeapCells - leaked - Len(open_files)

-----------------------------------------------------------------------------
(* A method whose body ends with outcome if open_tar gets its iterators, and *)
(* the path with a slash added its memory, which is freed at the end.        *)
OpenTar(iterators, added, outcome) ==
    /\ ~halted
    /\ IF FreeCells < iterators + added
       THEN /\ halted' = TRUE /\ leaked' = leaked + FreeCells
            /\ UNCHANGED <<open_files, result>>
       ELSE leaked' = leaked + iterators /\ outcome
    /\ UNCHANGED archive

Return(value) == result' = value /\ halted' = halted /\ open_files' = open_files

(* Mutant: the handle is the number of open files. *)
NextHandleCount == Len(open_files)

NextHandle == IF open_files = <<>> THEN 0 ELSE Head(open_files).handle_num + 1

OpenFile(header) ==
    [handle_num |-> NextHandle, start |-> header + 1,
     size |-> Oct2Bin(memory[header].file_size), read_pos |-> 0]

(* reads: the mode has an "r" and no "w". *)
InitrdOpen(path, reads) ==
    IF path = <<>> \/ ~reads
    THEN ~halted /\ Return(Error) /\ leaked' = leaked /\ UNCHANGED archive
    ELSE OpenTar(1, 0,
           LET header == TarFind(memory, path, NormalFile) IN
           IF header = 0 THEN Return(Error)
           ELSE IF FreeCells < 2
           THEN halted' = TRUE /\ UNCHANGED <<open_files, result>>
           ELSE /\ open_files' = <<OpenFile(header)>> \o open_files
                /\ result' = Answer("handle", NextHandle) /\ halted' = halted)

-----------------------------------------------------------------------------
(* The methods on a handle allocate nothing. *)
Method == ~halted /\ UNCHANGED <<archive, leaked, halted>>

(* find_open_file: the place of a handle in the list, 0 for none. *)
FindOpenFile(handle) ==
    SelectInSeq(open_files, LAMBDA open_file : open_file.handle_num = handle)

(* An int is converted to size_t: a position before the start is a huge one. *)
(* Any other whence is no error; the position stays.                         *)
SeekTo(open_file, whence, offset) ==
    CASE whence = "cur" -> (open_file.read_pos + offset) % SizeMod
      [] whence = "set" -> offset % SizeMod
      [] whence = "end" -> (open_file.size + offset) % SizeMod
      [] OTHER -> open_file.read_pos

InitrdSeek(handle, whence, offset) ==
    /\ Method
    /\ LET at == FindOpenFile(handle) IN
       IF at = 0 THEN result' = Error /\ open_files' = open_files
       ELSE LET read_pos == SeekTo(open_files[at], whence, offset) IN
            /\ open_files' = [open_files EXCEPT ![at].read_pos = read_pos]
            /\ result' = Answer("position", read_pos)

(* Mutant: the list is cut off behind the file. *)
InitrdCloseRest(handle) ==
    /\ Method
    /\ LET at == FindOpenFile(handle) IN
       IF at = 0 THEN result' = Error /\ open_files' = open_files
       ELSE open_files' = SubSeq(open_files, at + 1, Len(open_files)) /\ result' = Answer("closed", handle)

InitrdClose(handle) ==
    /\ Method
    /\ LET at == FindOpenFile(handle) IN
       IF at = 0 THEN result' = Error /\ open_files' = open_files
       ELSE open_files' = RemoveAt(open_files, at) /\ result' = Answer("closed", handle)

(* Mutant: a read longer than the file is not cut. *)
CountLong(open_file, count) ==
    IF open_file.read_pos + count >= open_file.size
    THEN (2 * count + open_file.read_pos - open_file.size) % SizeMod ELSE count

(* How much initrd_read reads.  The number asked for is not used: count is   *)
(* whatever its memory held.  The overhang is added where it should be       *)
(* subtracted.                                                               *)
Count(open_file, count) ==
    LET cut == IF count > open_file.size THEN open_file.size ELSE count IN
    IF open_file.read_pos + cut >= open_file.size
    THEN (2 * cut + open_file.read_pos - open_file.size) % SizeMod ELSE cut

InitrdRead(handle) ==
    /\ Method
    /\ LET at == FindOpenFile(handle) IN
       IF at = 0 THEN result' = Error /\ open_files' = open_files
       ELSE \E count \in Counts :
            LET open_file == open_files[at]
                length == IF open_file.read_pos >= open_file.size THEN 0 ELSE Count(open_file, count)
            IN  /\ open_files' = [open_files EXCEPT ![at].read_pos = (@ + length) % SizeMod]
                /\ result' = Answer("read", [from |-> open_file.read_pos, length |-> length,
                                             size |-> open_file.size])

-----------------------------------------------------------------------------
(* The methods that look a name up. *)
InitrdExists(path) ==
    IF path = <<>> THEN Method /\ Return(Answer("exists", FALSE))
    ELSE OpenTar(1, 0, Return(Answer("exists", TarFind(memory, path, AnyKind) # 0)))

(* size and lastModified; "false" for the empty path. *)
Field(path, kind, field) ==
    IF path = <<>> THEN Method /\ Return(Answer("field", -1))
    ELSE OpenTar(1, 0,
           LET header == TarFind(memory, path, kind) IN
           Return(IF header = 0 THEN Error ELSE Answer("field", Oct2Bin(memory[header][field]))))

InitrdSize(path) == Field(path, NormalFile, "file_size")
InitrdLastModified(path) == Field(path, AnyKind, "mod_time")

(* The byte before an empty path decides whether a slash is added; nothing   *)
(* is found either way.                                                      *)
EndsInSlash(path) == path # <<>> /\ Last(path) = Slash

(* The second try takes a second iterator and a copy of the path. *)
InitrdIsDirectory(path) ==
    LET header == TarFind(memory, path, AnyKind)
        again == header = 0 /\ ~EndsInSlash(path)
    IN  OpenTar(IF again THEN 2 ELSE 1, IF again THEN 1 ELSE 0,
          Return(IF again
                 THEN IF TarFind(memory, Append(path, Slash), Directory) = 0 THEN Error
                      ELSE Answer("directory", TRUE)
                 ELSE IF header = 0 THEN Error
                 ELSE Answer("directory", memory[header].kind = Directory)))

(* A name is listed if its first "/" ends it, or it has none. *)
InDirectory(name) == SelectInSeq(name, LAMBDA token : token = Slash) \in {0, Len(name)}

(* Mutant: what lies in subdirectories is listed too. *)
ListedDeep(path, header) == IsPrefix(path, WithoutSlash(FullName(header)))

Listed(path, header) ==
    LET name == WithoutSlash(FullName(header)) IN
    IsPrefix(path, name) /\ InDirectory(SubSeq(name, Len(path) + 1, Len(name)))

(* The entries of the table, numbered by the files passed over since the     *)
(* directory's own header.                                                   *)
Entries(path, directory) ==
    LET from[start \in Nat \ {0}] ==
            IF ~NextFile(memory, start) THEN <<>>
            ELSE <<start>> \o from[After(memory, start)]
        headers == from[After(memory, directory)]
    IN  {<<i, SubSeq(WithoutSlash(FullName(memory[headers[i]])), Len(path) + 1,
                     Len(WithoutSlash(FullName(memory[headers[i]]))))>> :
            i \in {j \in DOMAIN headers : Listed(path, memory[headers[j]])}}

InitrdList(path) ==
    LET stripped == WithoutSlash(path)
        full == IF EndsInSlash(stripped) THEN stripped ELSE Append(stripped, Slash)
        directory == TarFind(memory, full, Directory)
    IN  OpenTar(1, IF EndsInSlash(path) THEN 0 ELSE 1,
          Return(IF directory = 0 THEN Error
                 ELSE Answer("list", [of |-> full, entries |-> Entries(full, directory)])))

-----------------------------------------------------------------------------
Handles == 0 .. HeapCells

Next ==
    \/ \E path \in Paths : \/ \E reads \in BOOLEAN : InitrdOpen(path, reads)
                           \/ InitrdExists(path)
                           \/ InitrdSize(path) \/ InitrdLastModified(path)
                           \/ InitrdIsDirectory(path) \/ InitrdList(path)
    \/ \E handle \in Handles :
           \/ InitrdClose(handle) \/ InitrdRead(handle)
           \/ \E whence \in {"cur", "set", "end", "other"}, offset \in Offsets :
                  InitrdSeek(handle, whence, offset)

Spec == Init /\ [][Next]_vars

-----------------------------------------------------------------------------
(* Handles are reused after a close, and still no two open files ever have   *)
(* the same one: initrd_open takes the successor of the newest.              *)
HandlesUnique ==
    \A i, j \in DOMAIN open_files : i # j => open_files[i].handle_num # open_files[j].handle_num

(* What Lua holds a handle of stays the same open file until it closes it:   *)
(* opening, closing, reading and seeking other files, in any order, changes  *)
(* neither the file nor the position, and its own reads and seeks change the *)
(* position only (initrd_open, initrd_close, find_open_file).                *)
OpenHandles == {open_files[i].handle_num : i \in DOMAIN open_files}
FileOf(handle) == open_files[FindOpenFile(handle)]
Kept(handle) == handle \in OpenHandles' /\ FileOf(handle)' = FileOf(handle)
Moved(handle) ==
    /\ result'.is \in {"read", "position"} /\ handle \in OpenHandles'
    /\ FileOf(handle)' = [FileOf(handle) EXCEPT !.read_pos = FileOf(handle)'.read_pos]
KeepsHandles ==
    \/ \A handle \in OpenHandles : Kept(handle)
    \/ \E called \in OpenHandles :
           /\ \A handle \in OpenHandles \ {called} : Kept(handle)
           /\ result' = Answer("closed", called) \/ Moved(called)
HandlesKept == [][KeepsHandles]_vars

(* next_file always lands on a header: every open file is a whole file of    *)
(* the archive, even if the contents of others look like headers.            *)
Aligned ==
    \A i \in DOMAIN open_files : \E n \in DOMAIN files :
        /\ open_files[i].start - 1 = 1 + Len(Layout(SubSeq(files, 1, n - 1)))
        /\ open_files[i].size = files[n].size
        /\ files[n].kind = NormalFile

(* list returns the files and directories directly in the directory, none of *)
(* their contents and none of another directory's; in a tidy archive, whose  *)
(* names are distinct, not split, without "//" or a leading "/", and whose   *)
(* directories come before what they hold, it returns them all.              *)
DirectlyIn(directory, name) ==
    \E token \in Range(name) \ {Slash} :
        name \in {Append(directory, token), directory \o <<token, Slash>>}
Tidy(list) ==
    /\ \A m, n \in DOMAIN list :
           /\ list[m].name = list[n].name => m = n
           /\ list[m].kind = Directory /\ DirectlyIn(list[m].name, list[n].name) => m < n
    /\ \A file \in Range(list) :
           /\ file.prefix = <<>> /\ file.name \in Seq(Range(file.name))
           /\ file.name # <<>> /\ file.name[1] # Slash
           /\ \A i \in DOMAIN file.name : file.name[i] = Slash =>
                  /\ i + 1 <= Len(file.name) => file.name[i + 1] # Slash
                  /\ i + 2 <= Len(file.name) => file.name[i + 2] = Slash
ListExact ==
    result.is = "list" =>
        LET Behind(name) == SubSeq(name, Len(result.value.of) + 1, Len(name)) IN
        {entry[2] : entry \in result.value.entries}
            = {Behind(files[n].name) :
                   n \in {m \in DOMAIN files : DirectlyIn(result.value.of, files[m].name)}}

(* Whatever count holds, a read from position p ends at most 2p bytes behind *)
(* the end of the file; from the start of the file it stays inside.          *)
ReadBounded ==
    result.is = "read" =>
        result.value.from + result.value.length <=
            IF result.value.from >= result.value.size THEN result.value.from
            ELSE result.value.size + 2 * result.value.from

(* The assertion in open_tar (tar.c:9) says that there is memory for an      *)
(* iterator: as no method holds more than three allocations, it may fail     *)
(* only when open files fill the rest of the heap.                           *)
IteratorFits == halted => Len(open_files) > HeapCells - 3
=============================================================================
