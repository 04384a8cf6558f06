---------------------------- MODULE VgaGraphics -----------------------------
(***************************************************************************)
(* The graphics driver (component/vgagraphics.c): a frame buffer of pixels *)
(* in which a character is a glyph, and the font file the glyphs are read  *)
(* from.  Positions in the buffer and in the file count from 0.            *)
(***************************************************************************)
EXTENDS Integers, SequencesExt, TLC

CONSTANTS
    vga_width, vga_height,      \* of the frame buffer, in pixels
    GlyphWidth, GlyphHeight,    \* of a character (8, 16)
    Base,           \* of the font file's digits (16), two of which are a row
    FontSize,       \* glyphs in the font (65536)
    Colon, Newline, \* the bytes of the font file that are not digits
    IntMod          \* 2^32, for a pixel is a uint32_t

ASSUME VgaGraphicsAssumption ==
    /\ {vga_width, vga_height, GlyphWidth, GlyphHeight, FontSize, IntMod} \subseteq Nat \ {0}
    /\ Base * Base = 2 ^ GlyphWidth
    /\ \A n \in 0 .. GlyphWidth - 1 :      \* what the provers do not know of ^
           2 ^ n \in Nat \ {0} /\ (2 ^ GlyphWidth) \div (2 ^ (n + 1)) = 2 ^ (GlyphWidth - 1 - n)

Pixels == 0 .. vga_width * vga_height - 1

-----------------------------------------------------------------------------
(* load_font: a line is the code point, a colon and the rows, two digits     *)
(* each.  Rows beyond the glyph's height are skipped, and the first code     *)
(* point that is too large ends the font.                                    *)
HexToInt(c) == IF c \in 0 .. Base - 1 THEN c ELSE 0
HexNumber(digits) == FoldLeft(LAMBDA n, c : n * Base + HexToInt(c), 0, digits)

(* The line's end; the last line may have no newline, and then ends on its   *)
(* last digit.                                                               *)
LineEnd(data, start) ==
    CHOOSE i \in start .. Len(data) - 1 :
        /\ data[i + 1] = Newline \/ i = Len(data) - 1
        /\ \A j \in start .. i - 1 : data[j + 1] # Newline

LineColon(data, start) ==
    CHOOSE i \in start .. Len(data) - 1 :
        data[i + 1] = Colon /\ \A j \in start .. i - 1 : data[j + 1] # Colon

(* Mutant: a row is taken only if both of its digits are before the end. *)
RowsWhole(data, start) ==
    {row \in 0 .. GlyphHeight - 1 : LineColon(data, start) + 2 + 2 * row < LineEnd(data, start)}

Rows(data, start) ==
    {row \in 0 .. GlyphHeight - 1 : LineColon(data, start) + 1 + 2 * row < LineEnd(data, start)}

LoadSingleCharacter(data, start, index) ==
    LET digits(row) == LineColon(data, start) + 2 + 2 * row IN
    [pixels \in {index} \X Rows(data, start) |->
        HexNumber(SubSeq(data, digits(pixels[2]), digits(pixels[2]) + 1))]

NoFont == [pixels \in (0 .. FontSize - 1) \X (0 .. GlyphHeight - 1) |-> 0]

(* The values of f, and those of g where f has none. *)
Over(f, g) == [x \in DOMAIN f \cup DOMAIN g |-> IF x \in DOMAIN f THEN f[x] ELSE g[x]]

LoadFont(data) ==
    LET Index(start) == HexNumber(SubSeq(data, start + 1, LineColon(data, start)))
        from[start \in 0 .. Len(data)] ==
            IF start = Len(data) THEN << >>
            ELSE IF Index(start) >= FontSize THEN << >>
            ELSE Over(from[LineEnd(data, start) + 1], LoadSingleCharacter(data, start, Index(start)))
    IN  Over(from[0], NoFont)

-----------------------------------------------------------------------------
(* rect and setPixel leave out what is not on the screen.                    *)
Rect(buffer, px, py, w, h, color) ==
    [p \in Pixels |-> IF p % vga_width \in px .. px + w - 1 /\ p \div vga_width \in py .. py + h - 1
                      THEN color % IntMod ELSE buffer[p]]

(* The lowest bit of a row is its rightmost pixel.                           *)
IsSet(row_pixels, column) == (row_pixels \div (2 ^ (GlyphWidth - 1 - column))) % 2 = 1

SetGlyph(buffer, font, x, y, c, foreground, background) ==
    LET px == x * GlyphWidth
        py == y * GlyphHeight
        set == {p \in Pixels :
                    /\ p % vga_width \in px .. px + GlyphWidth - 1
                    /\ p \div vga_width \in py .. py + GlyphHeight - 1
                    /\ IsSet(font[<<c % FontSize, (p \div vga_width) - py>>], (p % vga_width) - px)}
        cleared == Rect(buffer, px, py, GlyphWidth, GlyphHeight, background)
    IN  [p \in Pixels |-> IF p \in set THEN foreground % IntMod ELSE cleared[p]]
=============================================================================
