SPECIFICATION Spec
CONSTANTS
    color = color
    bare = bare
    odd = odd
    outline = outline
    latin = latin
    NoBitmap = NoBitmap
    NoAdvance = NoAdvance
    NoFont = NoFont
    NoFontSize = NoFontSize
    NoSpan = NoSpan
    UCharValues = 64
    WindowWidth = 400
    MaxInt = 1023
    Symbols <- MCSymbols
    Sizes <- MCSizes
    EmojiFonts <- MCEmojiFonts
    TextFonts <- MCTextFonts
    ColorFonts <- MCColorFonts
    LateFonts <- MCLateFonts
    Strikes <- MCStrikes
    Raster <- MCRaster
    Advance <- MCAdvance
    Items <- MCItems
INVARIANTS
    TypeOK
    SpansTile
    SpansAreUniform
    EverySymbolOnce
    TagsFollow
    LinesJoinNeighbours
    ShapesInBox
    CacheIsRight
    AnswerIsForRequest
    ScaleReadsInside
PROPERTIES
    PicturesStay
    EveryBuildEnds
CHECK_DEADLOCK FALSE
