-------------------------------- MODULE Gpu ---------------------------------
(***************************************************************************)
(* The gpu component (component/gpu.c) on one of its two drivers: the      *)
(* cells gpu.c stores for get, and the video memory the driver writes.     *)
(* The text driver (vgatext.c) keeps one cell a character like gpu.c, the  *)
(* graphics driver pixels; a copy moves ranges of addresses in both.  One  *)
(* that reaches over a side of the screen goes on in the next row - of     *)
(* cells, or of pixels - and is followed there; one that leaves the arrays *)
(* is undefined behaviour and ends the model (outside).                    *)
(***************************************************************************)
EXTENDS VgaGraphics

CONSTANTS
    width, height,  \* of the screen, in characters (80, 25)
    palette,        \* the text driver's colours
    Shade,          \* shades of each of a colour's three channels (256)
    white, black, blue,     \* 0xffffff, 0x000000, 0x0000ff
    Characters,     \* code points Lua draws
    ByteLimit,      \* the code points below are codes of the code page (256)
    CodePage,       \* the codes of others: where vgatext.c's two tables first have them
    Space,          \* ' '
    Gap,            \* a byte that a message leaves blank: as a char, it is below ' '
    Invalid,        \* a byte sequence that is not UTF-8
    Unknown,        \* '?'
    FontFiles,      \* what font.hex may hold
    Glyphs,         \* the glyphs it describes, each a sequence of rows
    Positions, Colors, Strings, Messages,   \* arguments Lua passes
    ColumnSpans, RowSpans,          \* what it asks to copy, 0-based
    MaxCalls        \* bound on the calls that draw, the last of which ends the model

(* What font.hex is: each line has a code point, a colon and two digits for  *)
(* each row of its glyph, and the code points that are too large come last.  *)
LineStarts(data) == {s \in 0 .. Len(data) - 1 : s = 0 \/ data[s] = Newline}
TextEnd(data, start) ==
    CHOOSE e \in start .. Len(data) :
        /\ e = Len(data) \/ data[e + 1] = Newline
        /\ \A j \in start .. e - 1 : data[j + 1] # Newline
Code(data, start) == HexNumber(SubSeq(data, start + 1, LineColon(data, start)))
LineDescribes(data, start) ==
    LET colon == LineColon(data, start)
        digits == TextEnd(data, start) - colon - 1
    IN  /\ \E i \in start .. TextEnd(data, start) - 1 : data[i + 1] = Colon
        /\ digits % 2 = 0
        /\ IF Code(data, start) >= FontSize
           THEN \A s \in LineStarts(data) : s > start => Code(data, s) >= FontSize
           ELSE \A row \in 0 .. GlyphHeight - 1 :
                    Glyphs[Code(data, start)][row + 1] =
                        IF 2 * row >= digits THEN 0
                        ELSE HexNumber(SubSeq(data, colon + 2 + 2 * row, colon + 3 + 2 * row))
Describes(data) ==
    /\ \A start \in LineStarts(data) : LineDescribes(data, start)
    /\ \A c \in 0 .. FontSize - 1 :
           (\A start \in LineStarts(data) : Code(data, start) # c) =>
               \A row \in 1 .. GlyphHeight : Glyphs[c][row] = 0

ASSUME GpuAssumption ==
    /\ width \in Nat \ {0} /\ height \in Nat \ {0}
    /\ palette \in Seq(Nat) /\ palette # <<>>
    /\ Shade \in Nat \ {0}
    /\ Characters \subseteq Nat /\ Space \in Characters /\ Space < ByteLimit
    /\ \A c \in DOMAIN CodePage : c >= ByteLimit /\ CodePage[c] \in 0 .. ByteLimit - 1
    /\ Messages \subseteq Seq(Characters \cup {Newline, Gap})
    /\ {Invalid, Newline, Gap} \cap Characters = {}
    /\ width = vga_width \div GlyphWidth /\ height = vga_height \div GlyphHeight
    /\ FontFiles \subseteq Seq((0 .. Base - 1) \cup {Colon, Newline})
    /\ \A data \in FontFiles : Describes(data)
    /\ Glyphs[Space % FontSize] = [row \in 1 .. GlyphHeight |-> 0]
    /\ Len(palette) <= IntMod \div 2 /\ Colors \subseteq -(IntMod \div 2) .. (IntMod \div 2) - 1
    /\ Positions \subseteq Int /\ Strings \subseteq Seq(Characters \cup {Invalid})
    /\ ColumnSpans \cup RowSpans \subseteq [from : Int, length : Int, target : Int]
    /\ MaxCalls \in Nat

VARIABLES
    driver,         \* "text" or "graphics", as text_mode in kmain
    font, font_hex, \* the graphics driver's glyphs; whether font.hex was found
    stored,         \* gpu->stored
    video_memory,   \* what the screen shows
    foreground, background,
    calls,
    outside,        \* whether a copy has left the arrays
    disturbed,      \* cells of the graphics screen that a copy over its side reached
    last            \* the last call that drew, with its arguments

driver_vars == <<driver, font, font_hex>>
vars == <<driver_vars, stored, video_memory, foreground, background, calls, outside, disturbed,
          last>>

Address == 0 .. width * height - 1
At(x, y) == y * width + x
OnScreen(x, y) == x >= 0 /\ y >= 0 /\ x < width /\ y < height
palette_size == IF driver = "graphics" THEN 0 ELSE Len(palette)

-----------------------------------------------------------------------------
(* The shifts are arithmetic, so that a negative colour has channels too.    *)
Channels(color) ==
    <<(color \div (Shade * Shade)) % Shade, (color \div Shade) % Shade, color % Shade>>
Apart(m, n) == IF m > n THEN m - n ELSE n - m
Distance(color, other) ==
    Apart(Channels(color)[1], Channels(other)[1]) + Apart(Channels(color)[2], Channels(other)[2])
        + Apart(Channels(color)[3], Channels(other)[3])

(* Mutant: closest_distance is not updated.                                  *)
FindClosestColorLast(color) ==
    FoldLeft(LAMBDA closest, i : IF Distance(color, palette[i + 1]) < IntMod THEN i ELSE closest,
             0, [i \in 1 .. palette_size |-> i - 1])

FindClosestColor(color) ==
    FoldLeft(LAMBDA closest, i :
                 IF Distance(color, palette[i + 1]) < Distance(color, palette[closest + 1])
                 THEN i ELSE closest,
             0, [i \in 1 .. palette_size |-> i - 1])

(* Mutant: the index is compared as a signed number. *)
PaletteIndexSigned(color) == color < palette_size

(* color >= gpu->palette_size compares with a size_t: negative is too large. *)
PaletteIndex(color) == color % IntMod < palette_size

(* What the driver's set writes: the character's code, and four bits of each *)
(* colour.  A character below 256 is taken for its code, whatever glyph code *)
(* page 437 has there; of the others those in its tables are found, and the  *)
(* rest become '?'.                                                          *)
UnicodeToCp437(c) ==
    IF c < ByteLimit THEN c ELSE IF c \in DOMAIN CodePage THEN CodePage[c] ELSE Unknown
Encode(cell) ==
    [character |-> UnicodeToCp437(cell.character),
     foreground |-> cell.foreground % 16, background |-> cell.background % 16]

Cell(c, fg, bg) == [character |-> c, foreground |-> fg, background |-> bg]

(* The driver's set, for each address of drawn.                              *)
Set(drawn, fg, bg) ==
    IF driver = "text"
    THEN [a \in Address |-> IF a \in DOMAIN drawn THEN Encode(Cell(drawn[a], fg, bg))
                            ELSE video_memory[a]]
    ELSE FoldSet(LAMBDA a, buffer :
                     SetGlyph(buffer, font, a % width, a \div width, drawn[a], fg, bg),
                 video_memory, DOMAIN drawn)

(* Each address of drawn gets its character, on the screen and in stored.    *)
DrawIn(drawn, fg, bg) ==
    /\ stored' = [a \in Address |-> IF a \in DOMAIN drawn THEN Cell(drawn[a], fg, bg) ELSE stored[a]]
    /\ video_memory' = Set(drawn, fg, bg)
    /\ disturbed' = disturbed \ DOMAIN drawn

Default(color) == IF palette_size = 0 THEN color ELSE FindClosestColor(color)

NoCall == [of |-> "none"]

(* gpu_init draws spaces in every cell.  Pixels beside the cells, which no   *)
(* call draws and only copies over the side of the screen read, are taken to *)
(* be of the background too.                                                 *)
Init ==
    /\ driver \in {"text", "graphics"}
    /\ font = NoFont /\ font_hex = IF driver = "text" THEN "not needed" ELSE "not read"
    /\ foreground = Default(white) /\ background = Default(black)
    /\ stored = [a \in Address |-> Cell(Space, foreground, background)]
    /\ video_memory = IF driver = "text" THEN [a \in Address |-> Encode(stored[a])]
                      ELSE [p \in Pixels |-> background % IntMod]
    /\ calls = 0 /\ outside = FALSE /\ disturbed = {} /\ last = NoCall

Drawing(call) ==
    /\ calls < MaxCalls /\ ~outside /\ font_hex # "not read"
    /\ calls' = calls + 1
    /\ last' = call

-----------------------------------------------------------------------------
SetColor(color, is_palette_index, result) ==
    LET index == IF is_palette_index THEN color ELSE FindClosestColor(color) IN
    /\ calls < MaxCalls /\ ~outside /\ font_hex # "not read"
    /\ IF palette_size = 0 THEN result = color ELSE PaletteIndex(index) /\ result = index
    /\ UNCHANGED <<driver_vars, stored, video_memory, calls, outside, disturbed, last>>

GpuSetBackground(color, is_palette_index) ==
    SetColor(color, is_palette_index, background') /\ foreground' = foreground

GpuSetForeground(color, is_palette_index) ==
    SetColor(color, is_palette_index, foreground') /\ background' = background

(* The character that gpu_set puts n places behind the first; it stops at an *)
(* invalid sequence and at the end of the line.                              *)
Readable(string) ==
    LET bad == SelectInSeq(string, LAMBDA c : c = Invalid) IN
    IF bad = 0 THEN Len(string) ELSE bad - 1

(* Mutant: the line goes on at the start of the next. *)
LineWrapped(x, y, string, vertical) ==
    [a \in {At(x, y) + n : n \in 0 .. Readable(string) - 1} \cap Address |->
        string[a - At(x, y) + 1]]

Line(x, y, string, vertical) ==
    LET X(n) == IF vertical THEN x ELSE x + n
        Y(n) == IF vertical THEN y + n ELSE y
        seen == {n \in 0 .. Readable(string) - 1 : OnScreen(X(n), Y(n))}
    IN  [a \in {At(X(n), Y(n)) : n \in seen} |->
            string[(CHOOSE n \in seen : At(X(n), Y(n)) = a) + 1]]

GpuSet(x, y, string, vertical) ==
    /\ Drawing([of |-> "set", x |-> x, y |-> y, vertical |-> vertical])
    /\ DrawIn(IF x >= width \/ y >= height THEN << >> ELSE Line(x, y, string, vertical),
              foreground, background)
    /\ UNCHANGED <<driver_vars, foreground, background, outside>>

(* fill, with the corners clipped to the screen.  The far corner is a sum of *)
(* ints, which wraps: one as far as that fills nothing.                      *)
IntSum(m, n) == ((m + n + IntMod \div 2) % IntMod) - IntMod \div 2

Rectangle(x0, y0, x1, y1, c) ==
    [a \in {At(x, y) : x \in Max({x0, 0}) .. Min({x1, width}) - 1,
                       y \in Max({y0, 0}) .. Min({y1, height}) - 1} |-> c]

GpuFill(x, y, w, h, c) ==
    /\ Drawing([of |-> "fill"])
    /\ DrawIn(IF w <= 0 \/ h <= 0 \/ c = Invalid THEN << >>
              ELSE Rectangle(x, y, IntSum(x, w), IntSum(y, h), c),
              foreground, background)
    /\ UNCHANGED <<driver_vars, foreground, background, outside>>

-----------------------------------------------------------------------------
(* gpu_copy cuts the two rectangles at the edges, one edge after the other;  *)
(* dir is 1 for the columns, where edge is the width, and the same code cuts *)
(* the rows at the height.  At the far edges the overhang is added where it  *)
(* should be subtracted.                                                     *)
Span(from, length, target) == [from |-> from, length |-> length, target |-> target]

CutFrom(s) ==
    IF s.from < 0 THEN Span(0, s.length + s.from, s.target + s.from) ELSE s
CutTarget(s) ==
    IF s.target < 0 THEN Span(s.from + s.target, s.length + s.target, 0) ELSE s
CutFromEnd(s, edge) ==
    IF s.from + s.length >= edge
    THEN Span(s.from, s.length - (edge - (s.from + s.length)), s.target) ELSE s
CutTargetEnd(s, edge) ==
    IF s.target + s.length >= edge
    THEN Span(s.from, s.length - (edge - (s.target + s.length)), s.target) ELSE s

Cut(s, edge) == CutTargetEnd(CutFromEnd(CutTarget(CutFrom(s)), edge), edge)

MemMove(array, target, from, length) ==
    [a \in DOMAIN array |->
        IF a \in target .. target + length - 1 THEN array[a - target + from] ELSE array[a]]

(* Mutant: rows are always moved from the top. *)
RowOrderDown(rows) == [i \in 1 .. rows.length |-> i - 1]

(* The rows are moved so that none is overwritten before it is read.         *)
RowOrder(rows) ==
    [i \in 1 .. rows.length |-> IF rows.target < rows.from THEN i - 1 ELSE rows.length - i]

MoveRows(array, stride, columns, rows) ==
    FoldLeft(LAMBDA moved, i :
                 MemMove(moved, (rows.target + i) * stride + columns.target,
                         (rows.from + i) * stride + columns.from, columns.length),
             array, RowOrder(rows))

(* The graphics driver's copy scales characters up to pixels.                *)
Scaled(s, size) == Span(s.from * size, s.length * size, s.target * size)
Copy(columns, rows) ==
    IF driver = "text" THEN MoveRows(video_memory, width, columns, rows)
    ELSE MoveRows(video_memory, vga_width, Scaled(columns, GlyphWidth), Scaled(rows, GlyphHeight))

(* A span that neither begins before the screen nor ends behind it.          *)
InScreen(span, edge) ==
    span.from >= 0 /\ span.target >= 0
        /\ span.from + span.length <= edge /\ span.target + span.length <= edge

(* Every row that is moved lies in the arrays; a negative length, as a       *)
(* size_t, never does.                                                       *)
Start(column, row, stride) == row * stride + column
Within(columns, rows, stride, size) ==
    \A i \in 0 .. rows.length - 1 :
        /\ columns.length >= 0
        /\ \A start \in {Start(columns.target, rows.target + i, stride),
                         Start(columns.from, rows.from + i, stride)} :
               columns.length > 0 => start >= 0 /\ start + columns.length <= size
Inside(columns, rows) ==
    /\ Within(columns, rows, width, width * height)
    /\ driver = "graphics" => Within(Scaled(columns, GlyphWidth), Scaled(rows, GlyphHeight),
                                     vga_width, vga_width * vga_height)

(* The places that the rows are moved to, and the cells with one of them or  *)
(* with a pixel among them.                                                  *)
Targets(columns, rows, stride) ==
    UNION { LET start == Start(columns.target, rows.target + i, stride)
            IN  start .. start + columns.length - 1 : i \in 0 .. rows.length - 1 }
PixelAt(cx, cy, i, j) == (cy * GlyphHeight + j) * vga_width + (cx * GlyphWidth + i)
Reached(columns, rows) ==
    LET cells == Targets(columns, rows, width)
        pixels == Targets(Scaled(columns, GlyphWidth), Scaled(rows, GlyphHeight), vga_width)
    IN  { At(c[1], c[2]) : c \in
            {cell \in (0 .. width - 1) \X (0 .. height - 1) :
                \/ At(cell[1], cell[2]) \in cells
                \/ \E i \in 0 .. GlyphWidth - 1, j \in 0 .. GlyphHeight - 1 :
                       PixelAt(cell[1], cell[2], i, j) \in pixels} }

(* On the graphics screen, a copy between two parts of the screen takes what *)
(* is disturbed along; one over a side of it disturbs what it reaches.       *)
Carried(columns, rows) ==
    { At(c[1], c[2]) : c \in
        {cell \in (0 .. width - 1) \X (0 .. height - 1) :
            IF /\ cell[1] \in columns.target .. columns.target + columns.length - 1
               /\ cell[2] \in rows.target .. rows.target + rows.length - 1
            THEN At(cell[1] - columns.target + columns.from, cell[2] - rows.target + rows.from)
                     \in disturbed
            ELSE At(cell[1], cell[2]) \in disturbed} }
Disturbed(columns, rows) ==
    IF driver = "text" THEN {}
    ELSE IF InScreen(columns, width) THEN Carried(columns, rows)
    ELSE disturbed \cup Reached(columns, rows)

NothingToCopy(columns, rows) ==
    \/ columns.length <= 0 \/ rows.length <= 0
    \/ columns.from >= width \/ rows.from >= height
    \/ columns.target >= width \/ rows.target >= height
    \/ columns.target = columns.from /\ rows.target = rows.from

GpuCopy(columns, rows) ==
    LET cut_columns == Cut(columns, width)
        cut_rows == Cut(rows, height)
    IN  /\ Drawing([of |-> "copy", asked |-> <<columns, rows>>])
        /\ IF NothingToCopy(columns, rows)
           THEN UNCHANGED <<stored, video_memory, outside, disturbed>>
           ELSE IF Inside(cut_columns, cut_rows)
           THEN /\ stored' = MoveRows(stored, width, cut_columns, cut_rows)
                /\ video_memory' = Copy(cut_columns, cut_rows)
                /\ disturbed' = Disturbed(cut_columns, cut_rows)
                /\ outside' = outside
           ELSE outside' = TRUE /\ UNCHANGED <<stored, video_memory, disturbed>>
        /\ UNCHANGED <<driver_vars, foreground, background>>

-----------------------------------------------------------------------------
(* gpu_error_message: the screen is cleared and the message put on it; a     *)
(* newline takes the place of a character, and so does a byte that compares  *)
(* as less than ' ' - a control byte or, char being signed, one from 128 -   *)
(* though nothing is drawn there; the end of the screen ends the message.    *)
Place(message, n) ==
    FoldLeft(LAMBDA at, c : IF c = Newline \/ at[1] + 1 >= width THEN <<0, at[2] + 1>>
                            ELSE <<at[1] + 1, at[2]>>,
             <<0, 0>>, SubSeq(message, 1, n - 1))

Message(message) ==
    LET seen == {n \in DOMAIN message :
                    message[n] \notin {Newline, Gap} /\ Place(message, n)[2] < height}
        Where(n) == At(Place(message, n)[1], Place(message, n)[2])
    IN  [a \in Address |-> IF \E n \in seen : Where(n) = a
                           THEN message[CHOOSE n \in seen : Where(n) = a] ELSE Space]

GpuErrorMessage(message) ==
    /\ Drawing([of |-> "message"])
    /\ foreground' = Default(white) /\ background' = Default(blue)
    /\ DrawIn(Message(message), foreground', background')
    /\ UNCHANGED <<driver_vars, outside>>

(* kmain reads the font, or complains that there is none, which shows as a   *)
(* screen of the message's background.                                       *)
VgaGraphicsLoadFont ==
    /\ font_hex = "not read" /\ font_hex' = "found"
    /\ \E data \in FontFiles : font' = LoadFont(data)
    /\ UNCHANGED <<driver, stored, video_memory, foreground, background, calls, outside,
                   disturbed, last>>

NoFontFile ==
    /\ font_hex = "not read" /\ font_hex' = "not found"
    /\ foreground' = Default(white) /\ background' = Default(blue)
    /\ \E message \in Messages : DrawIn(Message(message), foreground', background')
    /\ UNCHANGED <<driver, font, calls, outside, last>>
-----------------------------------------------------------------------------
Next ==
    \/ VgaGraphicsLoadFont \/ NoFontFile
    \/ \E color \in Colors, is_palette_index \in BOOLEAN :
           GpuSetBackground(color, is_palette_index) \/ GpuSetForeground(color, is_palette_index)
    \/ \E x \in Positions, y \in Positions :
           \/ \E string \in Strings, vertical \in BOOLEAN : GpuSet(x, y, string, vertical)
           \/ \E w \in {0, 2, IntMod \div 2 - 1}, c \in Characters \cup {Invalid} :
                  GpuFill(x, y, w, width, c)
    \/ \E columns \in ColumnSpans, rows \in RowSpans : GpuCopy(columns, rows)
    \/ \E message \in Messages : GpuErrorMessage(message)

Spec == Init /\ [][Next]_vars

-----------------------------------------------------------------------------
(* Every colour that is current or stored is an index of the palette, if     *)
(* there is one, so that gpu_get and the getters never read past it.         *)
TypeOK ==
    /\ palette_size > 0 =>
           /\ {foreground, background} \subseteq 0 .. palette_size - 1
           /\ \A a \in Address :
                  {stored[a].foreground, stored[a].background} \subseteq 0 .. palette_size - 1
    /\ DOMAIN video_memory = IF driver = "text" THEN Address ELSE Pixels
    /\ calls \in 0 .. MaxCalls /\ outside \in BOOLEAN

(* The screen shows what gpu_get returns: after any mixture of set, fill,    *)
(* copy and error messages, video memory is the image of stored, in codes of *)
(* the code page or in the glyphs that the font file describes.  Without a   *)
(* font the characters are blank.  On the text screen this holds for every   *)
(* copy inside the arrays.  On the graphics screen, where stored goes on in  *)
(* the next row of cells and the frame buffer in the next row of pixels, it  *)
(* holds for all cells but those that a copy over a side of the screen has   *)
(* reached, and for these again once they are drawn or copied to.            *)
Glyph(c) ==
    IF font_hex = "found" THEN Glyphs[c % FontSize] ELSE [row \in 1 .. GlyphHeight |-> 0]
Picture(p) ==
    LET x == p % vga_width
        y == p \div vga_width
        cell == stored[At(x \div GlyphWidth, y \div GlyphHeight)]
        row == Glyph(cell.character)[(y % GlyphHeight) + 1]
        bits == (2 ^ GlyphWidth) \div (2 ^ ((x % GlyphWidth) + 1))
    IN  (IF (row \div bits) % 2 = 1 THEN cell.foreground ELSE cell.background) % IntMod
Mirror ==
    IF driver = "text" THEN \A a \in Address : video_memory[a] = Encode(stored[a])
    ELSE \A x \in 0 .. width * GlyphWidth - 1, y \in 0 .. height * GlyphHeight - 1 :
             At(x \div GlyphWidth, y \div GlyphHeight) \notin disturbed =>
                 video_memory[y * vga_width + x] = Picture(y * vga_width + x)

(* A copy between two parts of the screen, overlapping in any direction,     *)
(* puts the old contents of the one into the other and changes nothing else. *)
CopiedExactly(columns, rows) ==
    \A x \in 0 .. width - 1, y \in 0 .. height - 1 :
        stored'[At(x, y)] =
            IF /\ x \in columns.target .. columns.target + columns.length - 1
               /\ y \in rows.target .. rows.target + rows.length - 1
            THEN stored[At(x - columns.target + columns.from, y - rows.target + rows.from)]
            ELSE stored[At(x, y)]
CopyExact ==
    [][calls' # calls /\ last'.of = "copy"
           /\ InScreen(last'.asked[1], width) /\ InScreen(last'.asked[2], height) =>
                  CopiedExactly(last'.asked[1], last'.asked[2])]_vars

(* gpu_set never leaves its line: a string that begins before the screen or  *)
(* ends behind it does not show up in another row, or another column.        *)
SetStaysInLine ==
    [][calls' # calls /\ last'.of = "set" =>
           \A x \in 0 .. width - 1, y \in 0 .. height - 1 :
               (IF last'.vertical THEN x # last'.x ELSE y # last'.y) =>
                   stored'[At(x, y)] = stored[At(x, y)]]_vars

(* A colour that is not an index becomes the first of the nearest in the     *)
(* palette.                                                                  *)
Nearest(color, found) ==
    \A other \in 0 .. palette_size - 1 :
        /\ Distance(color, palette[found + 1]) <= Distance(color, palette[other + 1])
        /\ other < found => Distance(color, palette[found + 1]) < Distance(color, palette[other + 1])
ClosestColor ==
    [][palette_size > 0 => \A color \in Colors :
          /\ GpuSetBackground(color, FALSE) => Nearest(color, background')
          /\ GpuSetForeground(color, FALSE) => Nearest(color, foreground')]_vars
=============================================================================
