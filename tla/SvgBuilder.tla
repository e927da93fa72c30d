----------------------------- MODULE SvgBuilder -----------------------------
(***************************************************************************)
(* SvgBuilder::BuildSvgTask, called by the network thread for every item   *)
(* of a message: texts and shapes become SVG.  One build is a loop over    *)
(* the points of a vector, and in it, or for a text item, one over lines,  *)
(* over spans of symbols of one class, and over the emoji of a span; the   *)
(* only state that outlives a build is that of the EmojiRenderer (Glyphs). *)
(*                                                                         *)
(* Text is the sequence of its bytes, as getline and the symbol iterator   *)
(* see it; the XML around coordinates, colours and escaped text is left    *)
(* out.  Offsets are the code's: the first byte is at 0.                   *)
(***************************************************************************)
EXTENDS Glyphs, FiniteSetsExt, SequencesExt

CONSTANTS
    Items,         \* the draw items that are built, as parsed from messages
    WindowWidth,   \* windowWidth
    MaxInt,        \* the largest int: 2^31 - 1
    NoFontSize,    \* a text item without font_size
    NoSpan         \* no current_span

kTabSizeInSpaces == 2
kMarkerHalfSize == 4
kTextOffsetX == 1
kTextOffsetY == 0
kNormalFontSize == 16
kDeltaFontDifference == 4

Int32 == (-MaxInt - 1)..MaxInt
\* unsigned int, and its value as an int: what the compiled code computes also
\* where the language leaves the overflow undefined.
Wrap(n) == n % (2 * (MaxInt + 1))
\* Mutant: an int that does not end.
AsInt_Wide(n) == n

AsInt(n) == IF Wrap(n) > MaxInt THEN Wrap(n) - 2 * (MaxInt + 1) ELSE Wrap(n)

\* The symbols of a JSON string, of which 0 would end the text.
CodePoints == {symbol \in Nat : symbol > 0 /\ symbol <= 1114111}
Text == Seq(CodePoints)

(* A point of a vector; good: x and y are numbers; typed: the marker fields *)
(* are strings.                                                            *)
Point == [x : Int32, y : Int32, good : BOOLEAN, typed : BOOLEAN, color : BOOLEAN,
          marker : {"circle", "cross", "none"}, text : Text]

Item == [mode : {"text", "shape", "svg", "idk"}, x : Int32, y : Int32,
         text : Text, fontSize : Nat \cup {NoFontSize}, large : BOOLEAN,
         shape : {"vect", "rect", "other"}, vectorFontSize : Nat, points : Seq(Point)]

Classes == {"Latin1", "Dingbat", "BMP", "Astral"}

ASSUME SvgBuilderAssumption ==
    /\ MaxInt \in Nat \ {0} /\ WindowWidth \in 0..MaxInt
    /\ NoFontSize \notin Nat
    /\ NoSpan \notin [begin : Nat, cls : Classes]
    /\ Items \subseteq Item

VARIABLES
    pc,       \* where the build is
    item,     \* drawTask
    corner,   \* <<minX, minY>>: the screen position of the SVG's 0;0
    extent,   \* <<width, height>> of the SVG of a vector
    at,       \* the point ForEachVectorPointsPair is at
    first, second,  \* <<x1, y1>> and <<x2, y2>> there
    lines,    \* the lines drawn between points of a vector
    tags,     \* the other tags written to svgOutStream
    task,     \* the text TextToSvgConverter works on
    rest,     \* what getline has not read yet
    line,     \* the line it has read
    cursor,   \* state of the converter
    next,     \* next_byte_index of the iterator in use
    span,     \* current_span of makeSpans
    spans,    \* emojiSpans: the spans not written yet
    written,  \* history: the symbols of the task given to a renderer, in order
    begun,    \* history: the tags before the line
    result    \* what BuildSvgTask has returned

boxVars == <<corner, extent>>
joinVars == <<at, first, second, lines>>
textVars == <<task, rest, line, cursor>>
spanVars == <<next, span, spans>>
outVars == <<tags, written, begun, result>>
vars == <<pc, item, boxVars, joinVars, textVars, spanVars, outVars, glyphVars>>

-----------------------------------------------------------------------------
(* Symbols: UnicodeSymbolsIterator.                                        *)

SequenceLength(byte) ==
    CASE byte \in 192..223 -> 2
      [] byte \in 224..239 -> 3
      [] byte \in 240..247 -> 4
      [] OTHER -> 1

LeadBits(byte) ==
    CASE byte < 128 -> byte
      [] byte \in 192..223 -> byte % 32
      [] byte \in 224..239 -> byte % 16
      [] byte \in 240..247 -> byte % 8
      [] OTHER -> 65533

\* Where the iterator is after the symbol at an offset.
After(src, offset) == offset + SequenceLength(src[offset + 1])

\* The bytes after the first give six bits each.
Decode(lead, bytes) ==
    LET cp[n \in 0..Len(bytes)] ==
            IF n = 0 THEN lead ELSE (cp[n - 1] * 64) + (bytes[n] % 64)
    IN cp[Len(bytes)]

\* The symbol at an offset; what is missing of the last one is left out.
SymbolAt(src, offset) ==
    Decode(LeadBits(src[offset + 1]),
           SubSeq(src, offset + 2, Min({After(src, offset), Len(src)})))

classify(symbol) ==
    CASE symbol <= 255 -> "Latin1"
      [] symbol \in 9984..10175 -> "Dingbat"
      [] symbol > 255 /\ symbol <= 65535 /\ symbol \notin 9984..10175 -> "BMP"
      [] OTHER -> "Astral"

needsCustomRender(cls) == cls \in {"Dingbat", "Astral"}

\* The bytes of a symbol.
Utf8(symbol) ==
    LET mark(n) == 128 + (n % 64)
    IN CASE symbol < 128 -> <<symbol>>
         [] symbol >= 128 /\ symbol < 2048 -> <<192 + (symbol \div 64), mark(symbol)>>
         [] symbol >= 2048 /\ symbol < 65536 ->
              <<224 + (symbol \div 4096), mark(symbol \div 64), mark(symbol)>>
         [] OTHER -> <<240 + (symbol \div 262144), mark(symbol \div 4096),
                       mark(symbol \div 64), mark(symbol)>>

Bytes(text) == FlattenSeq([i \in 1..Len(text) |-> Utf8(text[i])])

\* textToDraw: a no-break space for nothing, and spaces for tabs.
TextToDraw(text) ==
    LET bytes == Bytes(IF text = <<>> THEN <<160>> ELSE text)
        spaces == [i \in 1..kTabSizeInSpaces |-> 32]
    IN FlattenSeq([i \in 1..Len(bytes) |->
         IF bytes[i] = 9 THEN spaces ELSE <<bytes[i]>>])

\* The texts that are converted.
TextsOf(i) == {i.text} \cup {i.points[k].text : k \in 1..Len(i.points)}

\* All symbols of a text.
SymbolsOf(src) ==
    LET from[k \in Nat] ==
            IF k >= Len(src) THEN <<>>
            ELSE <<SymbolAt(src, k)>> \o from[After(src, k)]
    IN from[0]

-----------------------------------------------------------------------------
(* Sizes and tags.                                                         *)

\* getFinalFontSize of a text and of a shape.
TextSize(i) ==
    IF i.fontSize # NoFontSize THEN i.fontSize
    ELSE IF i.large THEN kNormalFontSize + kDeltaFontDifference
    ELSE kNormalFontSize

VectorSize(i) == IF i.vectorFontSize > 0 THEN i.vectorFontSize ELSE kNormalFontSize

\* The emoji in a text: the symbols at its offsets that are not text.
EmojiIn(src) == {symbol \in {SymbolAt(src, k) : k \in 0..(Len(src) - 1)} :
                   needsCustomRender(classify(symbol))}

\* Symbols and Sizes are those of the items.
ASSUME RequestAssumption ==
    \A i \in Items :
        /\ {TextSize(i), VectorSize(i)} \subseteq Sizes
        /\ \A text \in TextsOf(i) :
             \A from, to \in 1..Len(TextToDraw(text)) :
                 EmojiIn(SubSeq(TextToDraw(text), from, to)) \subseteq Symbols

isShapeVector(i) == i.mode = "shape" /\ i.shape = "vect"

Tag(kind, from, to) == [kind |-> kind, from |-> from, to |-> to]

NewTask(position, size, text) == [position |-> position, size |-> size, text |-> text]
NoTask == NewTask(<<0, 0>>, 0, <<>>)
NoItem == [mode |-> "idk", x |-> 0, y |-> 0]

NotSet == <<MaxInt, MaxInt>>

Init ==
    /\ GlyphsInit
    /\ pc = "idle" /\ item = NoItem
    /\ corner = NotSet /\ extent = <<0, 0>>
    /\ at = 1 /\ first = NotSet /\ second = NotSet /\ lines = <<>>
    /\ task = NoTask /\ rest = <<>> /\ line = <<>> /\ cursor = [x |-> 0, y |-> 0]
    /\ next = 0 /\ span = NoSpan /\ spans = <<>>
    /\ tags = <<>> /\ written = <<>> /\ begun = 0
    /\ result = NoItem

\* All local variables of the call are new.
Start ==
    /\ pc = "idle" /\ pc' = "box"
    /\ item' \in Items
    /\ corner' = NotSet /\ extent' = <<0, 0>>
    /\ at' = 1 /\ first' = NotSet /\ second' = NotSet /\ lines' = <<>>
    /\ task' = NoTask /\ rest' = <<>> /\ line' = <<>> /\ cursor' = [x |-> 0, y |-> 0]
    /\ next' = 0 /\ span' = NoSpan /\ spans' = <<>>
    /\ tags' = <<>> /\ written' = <<>> /\ begun' = 0
    /\ result' = NoItem
    /\ UNCHANGED glyphVars

-----------------------------------------------------------------------------
(* BuildSvgTask: the frame around the tags.                                *)

Points == item.points
Place(i) == <<Points[i].x, Points[i].y>>

\* An SVG, or what is not to be drawn, is returned as it is.
AsIs ==
    /\ pc = "box" /\ item.mode \in {"svg", "idk"}
    /\ result' = item
    /\ pc' = "idle"
    /\ UNCHANGED <<item, boxVars, joinVars, textVars, spanVars, tags, written, begun, glyphVars>>

\* get<int>() of a point throws, and nothing on the way to the thread catches.
BadPoint ==
    /\ pc = "box" /\ isShapeVector(item)
    /\ \E i \in 1..Len(Points) : ~Points[i].good
    /\ pc' = "thrown"
    /\ UNCHANGED <<item, boxVars, joinVars, textVars, spanVars, outVars, glyphVars>>

\* Mutant: the corner of the points is the first of them.
Corner_FirstPoint(points) ==
    IF points = <<>> THEN NotSet ELSE <<points[1].x, points[1].y>>

Corner(points) ==
    <<Min({points[i].x : i \in 1..Len(points)} \cup {MaxInt}),
      Min({points[i].y : i \in 1..Len(points)} \cup {MaxInt})>>

FarCorner(points) ==
    <<Max({points[i].x : i \in 1..Len(points)} \cup {-MaxInt - 1}),
      Max({points[i].y : i \in 1..Len(points)} \cup {-MaxInt - 1})>>

\* The bounding box; a single point gets room for a marker and its text.
Box ==
    /\ pc = "box" /\ isShapeVector(item)
    /\ \A i \in 1..Len(Points) : Points[i].good
    /\ LET near == Corner(Points)
           far == FarCorner(Points)
       IN IF Len(Points) = 1
          THEN /\ corner' = <<AsInt(near[1] - (kMarkerHalfSize + 1)),
                              AsInt(near[2] - (kMarkerHalfSize + 1))>>
               /\ extent' = <<WindowWidth \div 4,
                              AsInt(2 * kMarkerHalfSize + 1 + VectorSize(item) + kTextOffsetY)>>
          ELSE /\ corner' = near
               /\ extent' = <<AsInt(far[1] - near[1]), AsInt(far[2] - near[2])>>
    /\ pc' = "join"
    /\ UNCHANGED <<item, joinVars, textVars, spanVars, outVars, glyphVars>>

\* The constructor of TextToSvgConverter.
BeginText(t) ==
    /\ task' = t
    /\ rest' = TextToDraw(t.text)
    /\ cursor' = [x |-> 0, y |-> Wrap(t.position[2])]
    /\ line' = <<>> /\ written' = <<>>
    /\ pc' = "line"

TextItem ==
    /\ pc = "box" /\ item.mode = "text"
    /\ BeginText(NewTask(<<item.x, item.y>>, TextSize(item), item.text))
    /\ UNCHANGED <<item, boxVars, joinVars, spanVars, tags, begun, result, glyphVars>>

Rect ==
    /\ pc = "box" /\ item.mode = "shape" /\ ~isShapeVector(item)
    /\ tags' = IF item.shape = "rect"
               THEN Append(tags, Tag("rect", <<item.x, item.y>>, <<item.x, item.y>>))
               ELSE tags
    /\ pc' = "close"
    /\ UNCHANGED <<item, boxVars, joinVars, textVars, spanVars, written, begun, result, glyphVars>>

\* The SVG replaces the text or shape; that of a vector is put at its corner.
Close ==
    /\ pc = "close"
    /\ result' = [mode |-> "svg",
                  x |-> IF isShapeVector(item) THEN corner[1] ELSE item.x,
                  y |-> IF isShapeVector(item) THEN corner[2] ELSE item.y]
    /\ pc' = "idle"
    /\ UNCHANGED <<item, boxVars, joinVars, textVars, spanVars, tags, written, begun, glyphVars>>

-----------------------------------------------------------------------------
(* ForEachVectorPointsPair and drawMarker.                                 *)

\* All points are done, or a marker is not made of strings: break.
LastPoint ==
    /\ pc = "join"
    /\ at <= Len(Points) => ~Points[at].typed
    /\ pc' = "close"
    /\ UNCHANGED <<item, boxVars, joinVars, textVars, spanVars, outVars, glyphVars>>

MarkerTags(p) ==
    LET low == <<AsInt(p.x - kMarkerHalfSize), AsInt(p.y - kMarkerHalfSize)>>
        high == <<AsInt(p.x + kMarkerHalfSize), AsInt(p.y + kMarkerHalfSize)>>
    IN CASE p.marker = "circle" -> <<Tag("circle", low, high)>>
         [] p.marker = "cross" ->
              <<Tag("cross", low, high),
                Tag("cross", <<low[1], high[2]>>, <<high[1], low[2]>>)>>
         [] OTHER -> <<>>

\* A point with a colour has its marker drawn, and its text converted, before
\* the line to it.
Marker ==
    /\ pc = "join" /\ at <= Len(Points) /\ Points[at].typed
    /\ LET p == Points[at]
       IN /\ tags' = IF p.color THEN tags \o MarkerTags(p) ELSE tags
          /\ IF p.color /\ p.text # <<>>
             THEN BeginText(NewTask(<<AsInt(p.x + kMarkerHalfSize + kTextOffsetX),
                                      AsInt(p.y - kTextOffsetY)>>,
                                    VectorSize(item), p.text))
             ELSE /\ pc' = "point"
                  /\ UNCHANGED <<textVars, written>>
    /\ UNCHANGED <<item, boxVars, joinVars, spanVars, begun, result, glyphVars>>

\* Mutant: the line starts where the one before has started.
NextFirst_Kept(from, to) == from

\* x1 and y1 of the line after the one between two points.
NextFirst(from, to) == to

\* A coordinate of INT_MAX means that a point is not set yet.
FirstPoint ==
    /\ pc = "point" /\ first[1] = MaxInt
    /\ first' = Place(at)
    /\ at' = at + 1
    /\ pc' = "join"
    /\ UNCHANGED <<item, boxVars, second, lines, textVars, spanVars, outVars, glyphVars>>

LineTo ==
    /\ pc = "point" /\ first[1] # MaxInt
    /\ first' = IF second[1] = MaxInt THEN first ELSE NextFirst(first, second)
    /\ second' = Place(at)
    /\ lines' = Append(lines, <<first', second'>>)
    /\ at' = at + 1
    /\ pc' = "join"
    /\ UNCHANGED <<item, boxVars, textVars, spanVars, outVars, glyphVars>>

-----------------------------------------------------------------------------
(* TextToSvgConverter: lines and spans.                                    *)

\* getline fails: the text is done.
LastLine ==
    /\ pc = "line" /\ rest = <<>>
    /\ pc' = IF isShapeVector(item) THEN "point" ELSE "close"
    /\ UNCHANGED <<item, boxVars, joinVars, textVars, spanVars, outVars, glyphVars>>

LineStart(t) == Wrap(t.position[1])

\* Mutant: the newline is left for the next line.
RestAfter_KeepsNewline(end) == SubSeq(rest, end, Len(rest))

RestAfter(end) == SubSeq(rest, end + 1, Len(rest))

\* The first newline, or the end.
EndsLine(end) ==
    /\ end <= Len(rest) => rest[end] = 10
    /\ \A i \in 1..(end - 1) : rest[i] # 10

ReadLine ==
    /\ pc = "line" /\ rest # <<>>
    /\ \E end \in 1..(Len(rest) + 1) :
         /\ EndsLine(end)
         /\ line' = SubSeq(rest, 1, end - 1)
         /\ rest' = RestAfter(end)
    /\ cursor' = [cursor EXCEPT !.x = LineStart(task)]
    /\ next' = 0 /\ span' = NoSpan /\ spans' = <<>>
    /\ begun' = Len(tags)
    /\ pc' = "split"
    /\ UNCHANGED <<item, boxVars, joinVars, task, tags, written, result, glyphVars>>

\* Mutant: a new span starts after the symbol that differs.
OpenSpan_Late(cls) == [begin |-> After(line, next), cls |-> cls]

OpenSpan(cls) == [begin |-> next, cls |-> cls]

\* Mutant: a span ends after the symbol that differs.
CloseSpan_Late(end) ==
    [begin |-> span.begin, end |-> IF end = Len(line) THEN end ELSE After(line, end),
     cls |-> span.cls]

CloseSpan(end) == [begin |-> span.begin, end |-> end, cls |-> span.cls]

\* One symbol of makeSpans.
Split ==
    /\ pc = "split" /\ next < Len(line)
    /\ LET cls == classify(SymbolAt(line, next))
       IN \/ /\ span = NoSpan
             /\ span' = OpenSpan(cls)
             /\ UNCHANGED spans
          \/ /\ span # NoSpan /\ span.cls = cls
             /\ UNCHANGED <<span, spans>>
          \/ /\ span # NoSpan /\ span.cls # cls
             /\ spans' = Append(spans, CloseSpan(next))
             /\ span' = OpenSpan(cls)
    /\ next' = After(line, next)
    /\ UNCHANGED <<pc, item, boxVars, joinVars, textVars, outVars, glyphVars>>

\* The end of makeSpans; isValid() of the last span.
SplitEnd ==
    /\ pc = "split" /\ next >= Len(line)
    /\ spans' = IF span # NoSpan /\ span.begin < Len(line)
                THEN Append(spans, CloseSpan(Len(line))) ELSE spans
    /\ span' = NoSpan
    /\ pc' = "span"
    /\ UNCHANGED <<item, boxVars, joinVars, textVars, next, outVars, glyphVars>>

\* All spans are written: down to the next line, by 1.05 of the font size.
LineEnd ==
    /\ pc = "span" /\ spans = <<>>
    /\ cursor' = [cursor EXCEPT !.y = Wrap(cursor.y + ((105 * task.size) \div 100))]
    /\ pc' = "line"
    /\ UNCHANGED <<item, boxVars, joinVars, task, rest, line, spanVars, outVars, glyphVars>>

TagAt(kind, y, width) == Tag(kind, <<cursor.x, Wrap(y)>>, <<Wrap(cursor.x + width), Wrap(y)>>)

\* makeTextTag: measured with the first font that has all symbols, or guessed.
TextTag ==
    /\ pc = "span" /\ spans # <<>> /\ ~needsCustomRender(Head(spans).cls)
    /\ LET text == SymbolsOf(SubSeq(line, Head(spans).begin + 1, Head(spans).end))
           font == FontUsedToMeasure(text, task.size)
           width == IF font = NoFont THEN Len(text) * task.size
                    ELSE WidthIn(font, text, task.size)
       IN /\ tags' = Append(tags, TagAt("text", cursor.y + task.size, width))
          /\ cursor' = [cursor EXCEPT !.x = Wrap(cursor.x + width)]
          /\ written' = written \o text
          /\ Measure(text, task.size)
    /\ spans' = Tail(spans)
    /\ UNCHANGED <<pc, item, boxVars, joinVars, task, rest, line, next, span, begun, result>>

-----------------------------------------------------------------------------
(* Emoji.                                                                  *)

\* rewindTo, and renderToPng for the symbol there.
Custom ==
    /\ pc = "span" /\ spans # <<>> /\ needsCustomRender(Head(spans).cls)
    /\ next' = After(line, Head(spans).begin)
    /\ Ask(SymbolAt(line, Head(spans).begin), task.size)
    /\ pc' = "image"
    /\ UNCHANGED <<item, boxVars, joinVars, textVars, span, spans, outVars>>

Render ==
    /\ pc = "image"
    /\ renderToPng
    /\ UNCHANGED <<pc, item, boxVars, joinVars, textVars, spanVars, outVars>>

ImageSpace(png) == png.width + Min({3, (png.width * 5) \div 100})

\* Mutant: place is left for a symbol no font has.
ImageAdvance_Always(png) == IF isValid(png) THEN ImageSpace(png) ELSE task.size

ImageAdvance(png) == IF isValid(png) THEN ImageSpace(png) ELSE 0

\* Mutant: one image for a span, however many emoji it has.
MoreInSpan_OneImage == FALSE

MoreInSpan == next < Len(line) /\ classify(SymbolAt(line, next)) = Head(spans).cls

\* The image, if there is one, then the next symbol of the span, or the next span.
Image ==
    /\ pc = "image" /\ phase = "answered"
    /\ tags' = IF isValid(answer) THEN Append(tags, TagAt("image", cursor.y, answer.width))
               ELSE tags
    /\ cursor' = [cursor EXCEPT !.x = Wrap(cursor.x + ImageAdvance(answer))]
    /\ written' = Append(written, request.symbol)
    /\ IF MoreInSpan
       THEN /\ Ask(SymbolAt(line, next), task.size)
            /\ next' = After(line, next)
            /\ UNCHANGED <<pc, spans>>
       ELSE /\ Return
            /\ spans' = Tail(spans)
            /\ pc' = "span"
            /\ UNCHANGED next
    /\ UNCHANGED <<item, boxVars, joinVars, task, rest, line, span, begun, result>>

-----------------------------------------------------------------------------
Build ==
    \/ AsIs \/ BadPoint \/ Box \/ TextItem \/ Rect \/ Close
    \/ LastPoint \/ Marker \/ FirstPoint \/ LineTo
    \/ LastLine \/ ReadLine \/ Split \/ SplitEnd \/ LineEnd \/ TextTag
    \/ Custom \/ Render \/ Image

Environment == InstallFont /\ UNCHANGED <<pc, item, boxVars, joinVars, textVars, spanVars, outVars>>

Next == Start \/ Build \/ Environment

\* A build is one call of a function without a wait in it: its thread runs on.
Spec == Init /\ [][Next]_vars /\ WF_vars(Build)

-----------------------------------------------------------------------------
(* Properties.                                                             *)

TypeOK ==
    /\ pc \in {"idle", "box", "join", "point", "line", "split", "span", "image",
              "close", "thrown"}
    /\ item \in Items \cup {NoItem}
    /\ corner \in Int32 \X Int32 /\ extent \in Int32 \X Int32
    /\ at \in Nat \ {0} /\ first \in Int32 \X Int32 /\ second \in Int32 \X Int32
    /\ task.position \in Int32 \X Int32 /\ task.size \in Sizes \cup {0}
    /\ cursor \in [x : 0..(2 * MaxInt + 1), y : 0..(2 * MaxInt + 1)]
    /\ next \in Nat /\ begun \in 0..Len(tags)
    /\ span \in [begin : Nat, cls : Classes] \cup {NoSpan}
    /\ \A i \in 1..Len(spans) : spans[i] \in [begin : Nat, end : Nat, cls : Classes]
    /\ GlyphsTypeOK

\* Spans that lie end to end from one offset to another, each of them not empty
\* and of another class than the one before.
Tile(list, from, to) ==
    IF list = <<>> THEN from = to
    ELSE /\ list[1].begin = from /\ list[Len(list)].end = to
         /\ \A i \in 1..Len(list) : list[i].begin < list[i].end
         /\ \A i \in 1..(Len(list) - 1) :
              list[i].end = list[i + 1].begin /\ list[i].cls # list[i + 1].cls

\* makeSpans loses no byte and gives none twice: its spans cover the line so far
\* read while it runs, and what is left of them the rest of the line while they
\* are written.
SpansTile ==
    /\ pc = "split" => Tile(spans, 0, IF span = NoSpan THEN 0 ELSE span.begin)
    /\ pc \in {"span", "image"} =>
         Tile(spans, IF spans = <<>> THEN Len(line) ELSE spans[1].begin, Len(line))

\* A span holds symbols of its class only: rewindTo always succeeds, and the
\* assertion of computeWidth, that no emoji is measured as text, holds.
SpansAreUniform ==
    pc \in {"span", "image"} =>
        \A i \in 1..Len(spans) :
            LET symbols == SymbolsOf(SubSeq(line, spans[i].begin + 1, spans[i].end))
            IN \A k \in 1..Len(symbols) : classify(symbols[k]) = spans[i].cls

\* What a text is to show: an empty one a space, a tab two spaces.
Shown(text) ==
    FlattenSeq([i \in 1..Len(text) |->
        CASE text[i] = 9 -> <<32, 32>> [] text[i] = 10 -> <<>> [] OTHER -> <<text[i]>>])

\* Through lines, spans and symbol iterators every symbol of a text, item or
\* marker, reaches a renderer once and in its order.
EverySymbolOnce ==
    (pc = "line" /\ rest = <<>>) =>
        written = IF task.text = <<>> THEN <<160>> ELSE Shown(task.text)

\* The tags of a line follow one another from its start: they do not overlap,
\* and a symbol that no font can draw leaves no gap of its own.
TagsFollow ==
    pc \in {"split", "span", "image"} =>
        \A i \in (begun + 1)..Len(tags) :
            IF i = begun + 1 THEN tags[i].from[1] = Wrap(task.position[1])
            ELSE Wrap(tags[i].from[1] - tags[i - 1].to[1]) \in 0..3

\* A vector is one polyline: with k points done there is a line from each to
\* the next, whatever markers are drawn in between.  (A point at INT_MAX is
\* taken for one that is not set.)
LinesJoinNeighbours ==
    (isShapeVector(item) /\ \A i \in 1..Len(Points) : Points[i].x # MaxInt) =>
        /\ Len(lines) = IF at = 1 THEN 0 ELSE at - 2
        /\ \A i \in 1..Len(lines) : lines[i] = <<Place(i), Place(i + 1)>>

\* The shapes of a vector lie inside its SVG: lines if it has several points,
\* the marker if it has one, as long as the box, and all of the marker, is one
\* an int can measure, and the window is four times as wide as the marker.
ShapesInBox ==
    LET near == Corner(Points)
        far == FarCorner(Points)
        fits == \A k \in {1, 2} :
                  near[k] - kMarkerHalfSize - 1 >= -MaxInt - 1 /\ far[k] - near[k] <= MaxInt
        roomy == /\ \A k \in {1, 2} : near[k] + kMarkerHalfSize <= MaxInt
                 /\ 2 * kMarkerHalfSize + 1 <= WindowWidth \div 4
                 /\ 2 * kMarkerHalfSize + 1 + VectorSize(item) <= MaxInt
        inside(p) == \A k \in {1, 2} : p[k] - corner[k] \in 0..extent[k]
    IN (pc \notin {"idle", "box", "thrown"} /\ isShapeVector(item) /\ Points # <<>> /\ fits) =>
         /\ \A i \in 1..Len(lines) : inside(lines[i][1]) /\ inside(lines[i][2])
         /\ (Len(Points) = 1 /\ roomy) =>
              \A i \in 1..Len(tags) : tags[i].kind \in {"circle", "cross"} =>
                  inside(tags[i].from) /\ inside(tags[i].to)

\* A protocol break costs the plugin its connection and no more: building an
\* item never ends the process.
BuildReturns == pc # "thrown" /\ phase # "aborted"

\* A build ends, with an SVG or the process.
EveryBuildEnds == pc = "box" ~> (pc \in {"idle", "thrown"} \/ phase = "aborted")
=============================================================================
