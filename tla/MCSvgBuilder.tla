---------------------------- MODULE MCSvgBuilder ----------------------------
(* A few items and fonts: one colour font in two strikes, one without any, *)
(* one with a pixel mode that is not known, an outline font that serves    *)
(* emoji and text, and a text font.                                        *)
EXTENDS SvgBuilder

CONSTANTS color, bare, odd, outline, latin

a == 97
eacute == 233
water == 27700
scissors == 9986
smile == 128512
tab == 9
newline == 10

MCSymbols == {scissors, smile}
MCSizes == {16, 20, 64}
MCEmojiFonts == <<color, bare, odd, outline>>
MCTextFonts == <<latin, outline>>
MCColorFonts == {color, bare}
MCLateFonts == {color, outline}
MCStrikes == [font \in {color, bare} |-> IF font = color THEN <<8, 18>> ELSE <<>>]

MCRaster(font, symbol, size) ==
    CASE font = color /\ symbol = smile -> [w |-> size, h |-> size, mode |-> "bgra"]
      [] font = odd /\ symbol = smile -> [w |-> 4, h |-> 4, mode |-> "other"]
      [] font = outline -> [w |-> size, h |-> size - 3, mode |-> "gray"]
      [] OTHER -> NoBitmap

MCAdvance(font, symbol, size) ==
    CASE font = latin /\ symbol < 256 -> size \div 2
      [] font = outline -> size
      [] OTHER -> NoAdvance

AnItem == [mode |-> "idk", x |-> 30, y |-> 40, text |-> <<>>, fontSize |-> NoFontSize,
           large |-> FALSE, shape |-> "other", vectorFontSize |-> 0, points |-> <<>>]
TextOf(text) == [AnItem EXCEPT !.mode = "text", !.text = text]
Vector(points) == [AnItem EXCEPT !.mode = "shape", !.shape = "vect", !.points = points]
At(x, y) == [x |-> x, y |-> y, good |-> TRUE, typed |-> TRUE, color |-> FALSE,
             marker |-> "none", text |-> <<>>]
Marked(x, y, marker, text) == [At(x, y) EXCEPT !.color = TRUE, !.marker = marker, !.text = text]

Texts ==
    { TextOf(<<>>),
      TextOf(<<a, tab, scissors, scissors, newline, water, newline>>),
      [TextOf(<<smile, scissors, eacute, smile>>) EXCEPT !.large = TRUE],
      [TextOf(<<water, a, smile>>) EXCEPT !.fontSize = 16, !.x = -5] }

Shapes ==
    { AnItem, [AnItem EXCEPT !.mode = "svg"],
      [AnItem EXCEPT !.mode = "shape", !.shape = "rect"],
      [AnItem EXCEPT !.mode = "shape"],
      Vector(<<>>),
      Vector(<<Marked(9, 9, "cross", <<scissors>>)>>),
      Vector(<<At(7, 3), Marked(2, 8, "circle", <<a, newline, smile>>), Marked(5, 5, "none", <<>>),
               At(9, 1)>>),
      [Vector(<<At(1, 1), [At(2, 2) EXCEPT !.typed = FALSE], At(3, 3)>>)
         EXCEPT !.vectorFontSize = 20],
      Vector(<<At(MaxInt, 0), At(-MaxInt, 5), At(8, 5)>>) }

\* A point whose x is not a number; an emoji that is scaled to nothing.
Broken ==
    { Vector(<<At(1, 1), [At(2, 2) EXCEPT !.good = FALSE]>>),
      [TextOf(<<scissors>>) EXCEPT !.fontSize = 64] }

MCItems == Texts \cup Shapes \cup Broken
=============================================================================
