------------------------------- MODULE Glyphs -------------------------------
(***************************************************************************)
(* EmojiRenderer, the instance of the thread that builds SVG: it turns a   *)
(* symbol into a PNG with the first font that can draw it, keeps the PNGs  *)
(* by request, and measures text.  A face that FreeType has loaded stays   *)
(* loaded and keeps the size that was last set on it, whoever set it.      *)
(*                                                                         *)
(* FreeType, fontconfig and libpng are external: what a face draws at a    *)
(* size, and how far it advances, are constants; kerning is left out, and  *)
(* floats are taken as exact.  All ways in which a font has no bitmap for  *)
(* a symbol (no glyph, glyph not loaded, not rendered, empty) are one      *)
(* value, as they are one "continue" each.  A library that does not        *)
(* initialise is the case of no installed font.                            *)
(***************************************************************************)
EXTENDS Integers, Sequences

CONSTANTS
    Symbols,          \* the code points that are asked for
    Sizes,            \* the font sizes they are asked for in
    EmojiFonts,       \* GetEmojiFonts(): the fonts tried for an image, in order
    TextFonts,        \* GetTextFonts(): the fonts tried to measure text, in order
    ColorFonts,       \* the fonts with a CBDT table
    LateFonts,        \* the fonts whose file may not be there at first
    Strikes,          \* the heights a colour font comes in: [ColorFonts -> Seq(Nat)]
    Raster(_, _, _),  \* the bitmap of a font for a symbol at a size, or NoBitmap
    Advance(_, _, _), \* the advance of a font for a symbol at a size, or NoAdvance
    NoBitmap,
    NoAdvance,
    NoFont,           \* no font: an empty PNG, or a width by the fallback
    UCharValues       \* the values of an unsigned char: 2^8

FontsOf(list) == {list[i] : i \in 1..Len(list)}
Fonts == FontsOf(EmojiFonts) \cup FontsOf(TextFonts)

Bitmap == [w : Nat \ {0}, h : Nat \ {0}, mode : {"gray", "bgra", "other"}]
Request == [symbol : Symbols, size : Sizes]
Png == [font : Fonts \cup {NoFont}, width : Nat, height : Nat]

\* The sizes a face can have.
Heights == Sizes \cup UNION {{Strikes[f][i] : i \in 1..Len(Strikes[f])} : f \in ColorFonts}

ASSUME GlyphsAssumption ==
    /\ Symbols \subseteq Nat \ {0} /\ Sizes \subseteq Nat
    /\ EmojiFonts \in Seq(Fonts) /\ TextFonts \in Seq(Fonts)
    /\ ColorFonts \subseteq Fonts /\ LateFonts \subseteq Fonts
    /\ Strikes \in [ColorFonts -> Seq(Nat)]
    /\ NoFont \notin Fonts /\ NoBitmap \notin Bitmap /\ NoAdvance \notin Int
    /\ UCharValues \in Nat \ {0}

ASSUME RasterAssumption ==
    \A font \in Fonts, symbol \in Symbols, size \in Heights :
        Raster(font, symbol, size) \in Bitmap \cup {NoBitmap}

\* The basic plane of Unicode, which is all that is measured.
LastOfPlane == 65535
BasicPlane == 0..LastOfPlane

ASSUME AdvanceAssumption ==
    \A font \in Fonts, size \in Heights, symbol \in BasicPlane :
        Advance(font, symbol, size) \in Int \cup {NoAdvance}

VARIABLES
    installed,    \* the fonts whose file can be opened now
    faces,        \* the loaded faces: font -> the size set on it
    emojies,      \* the cache: request -> PNG
    request,      \* what renderToPng was called with
    phase,        \* where renderToPng is
    try,          \* the index of the font it tries
    answer        \* what it returned

glyphVars == <<installed, faces, emojies, request, phase, try, answer>>

EmptyPng == [font |-> NoFont, width |-> 0, height |-> 0]
NoRequest == [symbol |-> 0, size |-> 0]
EmptyMap == [k \in {} |-> 0]

GlyphsInit ==
    /\ \E late \in SUBSET LateFonts : installed = Fonts \ late
    /\ faces = EmptyMap /\ emojies = EmptyMap
    /\ request = NoRequest
    /\ phase = "idle" /\ try = 1
    /\ answer = EmptyPng

Set(map, key, value) ==
    [k \in DOMAIN map \cup {key} |-> IF k = key THEN value ELSE map[k]]

\* PngData::isValid
isValid(png) == png.width > 0 /\ png.height > 0

-----------------------------------------------------------------------------
(* Faces and sizes.                                                        *)

\* getFace: a face that could not be loaded is looked for again.
HasFace(font) == font \in DOMAIN faces \cup installed

\* "continue": no face, or a colour font without any size, which is loaded
\* and not used.
Unusable(font) ==
    ~HasFace(font) \/ (font \in ColorFonts /\ Strikes[font] = <<>>)

Distance(a, b) == IF a < b THEN b - a ELSE a - b

\* The first of the nearest strikes.
BestMatch(font, size) ==
    LET s == Strikes[font]
    IN s[CHOOSE i \in 1..Len(s) :
           /\ \A j \in 1..Len(s) : Distance(size, s[i]) <= Distance(size, s[j])
           /\ \A j \in 1..(i - 1) : Distance(size, s[j]) # Distance(size, s[i])]

SizeOn(font, size) == IF font \in ColorFonts THEN BestMatch(font, size) ELSE size

\* Mutant: the size is set when the face is loaded and not again.
Sized_OnLoad(font, size) ==
    IF Unusable(font) THEN faces
    ELSE Set(faces, font, IF font \in DOMAIN faces THEN faces[font]
                          ELSE SizeOn(font, size))

\* FT_Select_Size or FT_Set_Pixel_Sizes on the face of a font, which is loaded
\* for it when it has not been before.
Sized(font, size) ==
    IF Unusable(font) THEN faces ELSE Set(faces, font, SizeOn(font, size))

-----------------------------------------------------------------------------
(* renderToPng.                                                            *)

Ask(symbol, size) ==
    /\ request' = [symbol |-> symbol, size |-> size]
    /\ phase' = "lookup"
    /\ try' = 1 /\ answer' = EmptyPng
    /\ UNCHANGED <<installed, faces, emojies>>

\* The caller has used the answer.
Return ==
    /\ phase' = "idle"
    /\ request' = NoRequest /\ try' = 1 /\ answer' = EmptyPng
    /\ UNCHANGED <<installed, faces, emojies>>

\* Mutant: the size is not part of the key.
CachedFor_AnySize == {r \in DOMAIN emojies : r.symbol = request.symbol}

\* Mutant: the cache is not asked.
CachedFor_None == {}

\* The entries found for the request.
CachedFor == {r \in DOMAIN emojies : r = request}

Hit ==
    /\ phase = "lookup"
    /\ \E r \in CachedFor : answer' = emojies[r]
    /\ phase' = "answered"
    /\ UNCHANGED <<installed, faces, emojies, request, try>>

Miss ==
    /\ phase = "lookup" /\ CachedFor = {}
    /\ phase' = "fonts"
    /\ UNCHANGED <<installed, faces, emojies, request, try, answer>>

Font == EmojiFonts[try]
Glyph == Raster(Font, request.symbol, Sized(Font, request.size)[Font])
Trying == phase = "fonts" /\ try <= Len(EmojiFonts)

\* This font does not have it.
NextFont ==
    /\ Trying
    /\ ~Unusable(Font) => Glyph = NoBitmap
    /\ faces' = Sized(Font, request.size)
    /\ try' = try + 1
    /\ UNCHANGED <<installed, emojies, request, phase, answer>>

\* A bitmap in a pixel mode the renderer does not know: the cache has got its
\* entry already, which stays empty unless a later font fills it.
OtherMode ==
    /\ Trying /\ ~Unusable(Font) /\ Glyph # NoBitmap /\ Glyph.mode = "other"
    /\ faces' = Sized(Font, request.size)
    /\ emojies' = Set(emojies, request, EmptyPng)
    /\ try' = try + 1
    /\ UNCHANGED <<installed, request, phase, answer>>

\* scaleBitmapToFitHeight: the wanted height is an unsigned char.  Floats are
\* taken as exact.
Scaled(bitmap, size) ==
    LET height == size % UCharValues
    IN [width |-> (bitmap.w * height) \div bitmap.h, height |-> height]

\* Mutant: the neighbour is not kept inside the bitmap.
Neighbour_Unclamped(i, last) == i + 1

\* The second of the two rows (columns) that are blended.
Neighbour(i, last) == IF i + 1 < last THEN i + 1 ELSE last

\* The rows (columns) of a bitmap that are read for row (column) i of its
\* scaled copy: one scale serves both directions.
ReadFor(i, bitmap, scaled, last) ==
    LET nearest == (i * bitmap.h) \div scaled.height
    IN {nearest, Neighbour(nearest, last)}

PngOf(font, symbol, size) ==
    LET scaled == Scaled(Raster(font, symbol, SizeOn(font, size)), size)
    IN [font |-> font, width |-> scaled.width, height |-> scaled.height]

Drawable == Trying /\ ~Unusable(Font) /\ Glyph # NoBitmap /\ Glyph.mode # "other"

Draw ==
    /\ Drawable
    /\ LET scaled == Scaled(Glyph, request.size)
           png == [font |-> Font, width |-> scaled.width, height |-> scaled.height]
       IN /\ isValid(png)
          /\ emojies' = Set(emojies, request, png)
          /\ answer' = png
    /\ faces' = Sized(Font, request.size)
    /\ phase' = "answered"
    /\ UNCHANGED <<installed, request, try>>

\* libpng refuses an image without pixels with png_error, which aborts the
\* process as encodePngRGBA has set no jump buffer.
Abort ==
    /\ Drawable
    /\ ~isValid(Scaled(Glyph, request.size))
    /\ phase' = "aborted"
    /\ UNCHANGED <<installed, faces, emojies, request, try, answer>>

\* kNoResult
NoResult ==
    /\ phase = "fonts" /\ try > Len(EmojiFonts)
    /\ answer' = EmptyPng
    /\ phase' = "answered"
    /\ UNCHANGED <<installed, faces, emojies, request, try>>

renderToPng == Hit \/ Miss \/ NextFont \/ OtherMode \/ Draw \/ Abort \/ NoResult

\* A font's file appears while the overlay runs.
InstallFont ==
    /\ \E font \in Fonts \ installed : installed' = installed \cup {font}
    /\ UNCHANGED <<faces, emojies, request, phase, try, answer>>

-----------------------------------------------------------------------------
(* computeWidth.                                                           *)

\* A font that has all symbols of the text.
Measures(font, text, size) ==
    /\ ~Unusable(font)
    /\ \A i \in 1..Len(text) :
         Advance(font, text[i], SizeOn(font, size)) # NoAdvance

\* The fonts up to the first that measures the text, all when none does.
FontsTried(text, size) ==
    {i \in 1..Len(TextFonts) : \A j \in 1..(i - 1) : ~Measures(TextFonts[j], text, size)}

FontUsedToMeasure(text, size) ==
    LET good == {i \in FontsTried(text, size) : Measures(TextFonts[i], text, size)}
    IN IF good = {} THEN NoFont ELSE TextFonts[CHOOSE i \in good : TRUE]

\* pen_x after the last symbol.
WidthIn(font, text, size) ==
    LET pen[n \in 0..Len(text)] ==
            IF n = 0 THEN 0 ELSE pen[n - 1] + Advance(font, text[n], SizeOn(font, size))
    IN pen[Len(text)]

\* Every font that was tried has got its size.
Measure(text, size) ==
    LET tried == {TextFonts[i] : i \in FontsTried(text, size)}
        used == {font \in tried : ~Unusable(font)}
    IN /\ faces' = [font \in DOMAIN faces \cup used |->
                      IF font \in used THEN SizeOn(font, size) ELSE faces[font]]
       /\ UNCHANGED <<installed, emojies, request, phase, try, answer>>

-----------------------------------------------------------------------------
(* Properties.                                                             *)

GlyphsTypeOK ==
    /\ installed \subseteq Fonts
    /\ DOMAIN faces \subseteq Fonts
    /\ \A font \in DOMAIN faces : faces[font] \in Heights
    /\ DOMAIN emojies \subseteq Request
    /\ \A r \in DOMAIN emojies : emojies[r] \in Png
    /\ request \in Request \cup {NoRequest}
    /\ phase \in {"idle", "lookup", "fonts", "answered", "aborted"}
    /\ try \in 1..(Len(EmojiFonts) + 1)
    /\ answer \in Png

DrawnFor(png, r) ==
    /\ png.font \in FontsOf(EmojiFonts)
    /\ Raster(png.font, r.symbol, SizeOn(png.font, r.size)) # NoBitmap
    /\ png = PngOf(png.font, r.symbol, r.size)

\* A font had the symbol in a pixel mode the renderer does not know.
OtherModeFor(r) ==
    \E font \in FontsOf(EmojiFonts) :
        LET bitmap == Raster(font, r.symbol, SizeOn(font, r.size))
        IN bitmap # NoBitmap /\ bitmap.mode = "other"

\* The cache: a picture is the one its font draws for the symbol and the size
\* of the key, whatever sizes the faces, which all builds and the measuring of
\* text share, were set to in between; an entry is empty only where a font
\* delivered something else than a picture.
CacheIsRight ==
    \A r \in DOMAIN emojies :
        IF isValid(emojies[r]) THEN DrawnFor(emojies[r], r) ELSE OtherModeFor(r)

\* What is answered is a picture of what was asked for, or none.
AnswerIsForRequest ==
    (phase = "answered" /\ isValid(answer)) => DrawnFor(answer, request)

\* Scaling reads the bitmap of the font inside its bounds, for every picture
\* that was made.
ScaleReadsInside ==
    \A r \in DOMAIN emojies : isValid(emojies[r]) =>
        LET png == emojies[r]
            bitmap == Raster(png.font, r.symbol, SizeOn(png.font, r.size))
        IN /\ \A row \in 0..(png.height - 1) :
                 ReadFor(row, bitmap, png, bitmap.h - 1) \subseteq 0..(bitmap.h - 1)
           /\ \A column \in 0..(png.width - 1) :
                 ReadFor(column, bitmap, png, bitmap.w - 1) \subseteq 0..(bitmap.w - 1)

\* A picture, once drawn, is not drawn again: a text that is repeated keeps the
\* looks of its emoji even when a better font is installed meanwhile.
PicturesStay ==
    [][\A r \in DOMAIN emojies :
          /\ r \in DOMAIN emojies'
          /\ isValid(emojies[r]) => emojies'[r] = emojies[r]]_glyphVars
=============================================================================
