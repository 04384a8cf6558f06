CONSTANTS
    width = 3
    height = 3
    palette <- MCPalette
    Shade = 4
    white = 63
    black = 0
    blue = 3
    Characters = {1, 4, 6, 7}
    ByteLimit = 5
    CodePage <- MCCodePage
    Space = 4
    Newline = newline
    Gap = gap
    Invalid = invalid
    Unknown = 3
    vga_width = 7
    vga_height = 6
    GlyphWidth = 2
    GlyphHeight = 2
    Base = 2
    FontSize = 4
    Colon = colon
    FontFiles <- MCFontFiles
    Glyphs <- MCGlyphs
    IntMod = 256
    Positions <- MCPositions
    Colors <- MCColors
    Strings <- MCStrings
    Messages <- MCMessages
    ColumnSpans <- MCAllSpans
    RowSpans <- MCRowSpans
    MaxCalls = 2
SPECIFICATION Spec
INVARIANTS
    TypeOK
    Mirror
PROPERTIES
    ClosestColor
    CopyExact
    SetStaysInLine
CHECK_DEADLOCK FALSE
