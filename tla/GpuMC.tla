------------------------------- MODULE GpuMC --------------------------------
(* A screen of three by three characters and three colours of four shades a   *)
(* channel, as text or in glyphs of two by two pixels that leave a column     *)
(* over; copies in every direction, overlapping and not, and some that hang   *)
(* over an edge, inside and outside the arrays.  The characters are the space *)
(* and another code below the limit, one that the tables have (b) and one     *)
(* they do not (u).  Colour 1 is as far from the first as from the second of  *)
(* the palette, and -1 is nearest to the third.  The font file has a glyph of *)
(* too many rows, one too few, and a line behind the last code point, or ends *)
(* without a newline.                                                         *)
EXTENDS Gpu

MCPalette == <<0, 2, 47>>
MCPositions == {-1, 1, 3}
MCColors == {-1, 1}
b == 7
u == 6
MCStrings == {<<u, b, b, Invalid>>}
MCCodePage == (b :> 2)
MCMessages == {<<b, Newline, Gap, u>>, <<b, b, u, u, b, Newline, Newline, b>>}
MCGlyphs == (0 :> <<0, 0>>) @@ (1 :> <<2, 1>>) @@ (2 :> <<3, 2>>) @@ (3 :> <<1, 0>>)
MCLines == <<0, Colon, 0, 0, 0, 0, Newline, 1, 1, Colon, 0, 1, Newline, 1, Colon, 1, 0, 0, 1, 1, 1,
             Newline, 1, 0, Colon, 1, 1, 1, 0>>
MCFontFiles == {MCLines, MCLines \o <<Newline, 1, 0, 1, Colon, 0, 1, 0, 1, Newline>>}
MCColumnSpans == {Span(0, 2, 1), Span(1, 2, 0), Span(0, 3, 0), Span(2, 1, 2)}
MCRowSpans == {Span(0, 2, 1), Span(1, 2, 0), Span(0, 1, 0), Span(2, 1, 0)}
MCAllSpans == MCColumnSpans \cup {Span(1, 3, 0), Span(-1, 2, 0), Span(-1, 3, 0), Span(1, 2, -1)}
=============================================================================
