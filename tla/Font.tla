-------------------------------- MODULE Font --------------------------------
(***************************************************************************)
(* Text on the screen: TextureAtlas (narf/gl/textureatlas.cpp), which packs *)
(* the bitmaps of glyphs into one texture; TextureFont                      *)
(* (narf/texture-font.cpp), which loads a glyph when it is first asked for; *)
(* and the two loops of narf/font.cpp over the characters of a text, one    *)
(* that prints it and one that says how wide it is up to a byte, which is   *)
(* where the console draws its cursor.                                      *)
(***************************************************************************)
EXTENDS Utf8

CONSTANTS
  Width, Height,  \* of the atlas, in pixels
  Metrics,        \* what FreeType says of each character: width and height of its bitmap,
                  \* advance, and kerning behind itself
  MaxLine         \* bound on the length of a line

Characters == DOMAIN Metrics

VARIABLES
  font,   \* the atlas: nodes_ and data_, and the font: glyphs_
  line,   \* what a TextBuffer holds: its characters
  pens,   \* pos_x after each character of the line, and where that one was drawn
  cursor  \* the characters before the cursor, and how wide width() says they are

vars == <<font, line, pens, cursor>>

-----------------------------------------------------------------------------
\* The atlas.  Its nodes are the skyline of what is allocated, from left to right.
NoFit == -1

\* The nodes that a region of this width over node i reaches.
Under(nodes, i, width) ==
  {k \in i .. Len(nodes) : MapThenSumSet(LAMBDA j : nodes[j].width, i .. (k - 1)) < width \/ k = i}

\* Mutant of Fit: on the height of the first node.
FitOnFirst(nodes, i, width, height) ==
  IF nodes[i].x + width >= Width \/ nodes[i].y + height > Height - 1 THEN NoFit ELSE nodes[i].y

Fit(nodes, i, width, height) ==
  LET y == Max({nodes[k].y : k \in Under(nodes, i, width)}) IN
  IF nodes[i].x + width >= Width \/ y + height > Height - 1 THEN NoFit ELSE y

\* Neighbours of one height become one node.
Merge(nodes) ==
  FoldLeft(LAMBDA done, node :
             IF done # <<>> /\ Last(done).y = node.y
               THEN [done EXCEPT ![Len(done)].width = @ + node.width]
               ELSE Append(done, node),
           <<>>, nodes)

\* What is left of the nodes that a region now covers up to this x.
Shrunk(nodes, x) ==
  LET rest == SelectSeq(nodes, LAMBDA node : node.x + node.width > x) IN
  [k \in DOMAIN rest |->
     IF rest[k].x < x THEN [rest[k] EXCEPT !.x = x, !.width = @ - (x - rest[k].x)] ELSE rest[k]]

\* getRegion(): lowest, then on the narrowest node, then leftmost; or nowhere.
BestNode(nodes, width, height) ==
  LET fits == {i \in DOMAIN nodes : Fit(nodes, i, width, height) # NoFit}
      worse(i, j) ==
        LET yi == Fit(nodes, i, width, height)
            yj == Fit(nodes, j, width, height)
        IN \/ yi > yj
           \/ yi = yj /\ nodes[i].width > nodes[j].width
           \/ yi = yj /\ nodes[i].width = nodes[j].width /\ i > j
  IN IF fits = {} THEN 0 ELSE CHOOSE i \in fits : \A j \in fits \ {i} : ~worse(i, j)

Allocated(nodes, i, y, width, height) ==
  Merge(SubSeq(nodes, 1, i - 1)
        \o <<[x |-> nodes[i].x, y |-> y + height, width |-> width]>>
        \o Shrunk(SubSeq(nodes, i, Len(nodes)), nodes[i].x + width))

\* setRegion(): the pixels are those of this character from now on.
SetRegion(data, x, y, width, height, c) ==
  [p \in DOMAIN data |->
     IF p \in (x .. (x + width - 1)) \X (y .. (y + height - 1)) THEN c ELSE data[p]]

-----------------------------------------------------------------------------
\* The font.  generateKerning() asks for the pair of each glyph and itself, once for
\* every glyph there is.
GenerateKerning(glyphs) ==
  [i \in DOMAIN glyphs |->
     [glyphs[i] EXCEPT !.kerning =
        IF Metrics[glyphs[i].charcode].kerning = 0 THEN <<>>
        ELSE [j \in DOMAIN glyphs |-> [charcode |-> glyphs[i].charcode,
                                       kerning  |-> Metrics[glyphs[i].charcode].kerning]]]]

\* getKerning() looks for the glyph's own character, whatever comes before it.
GetKerning(glyph) ==
  LET own == SelectSeq(glyph.kerning, LAMBDA k : k.charcode = glyph.charcode) IN
  IF own = <<>> THEN 0 ELSE Head(own).kerning

\* A glyph is one pixel wider and higher in the atlas than its bitmap.
LoadGlyph(f, c) ==
  LET w == Metrics[c].width
      h == Metrics[c].height
      i == BestNode(f.nodes, w + 1, h + 1)
      x == f.nodes[i].x
      y == Fit(f.nodes, i, w + 1, h + 1)
  IN IF i = 0 THEN f
     ELSE [nodes  |-> Allocated(f.nodes, i, y, w + 1, h + 1),
           data   |-> SetRegion(f.data, x, y, w, h, c),
           glyphs |-> GenerateKerning(Append(f.glyphs,
             [charcode |-> c, x |-> x, y |-> y, width |-> w, height |-> h,
              advance |-> Metrics[c].advance, kerning |-> <<>>]))]

GlyphsOf(f, c) == {i \in DOMAIN f.glyphs : f.glyphs[i].charcode = c}

\* getGlyph(): what the font is afterwards; a glyph the atlas has no room for is missing.
GetGlyph(f, c) == IF GlyphsOf(f, c) # {} THEN f ELSE LoadGlyph(f, c)

\* One turn of either loop: kerning, unless no character came before that has a glyph;
\* there print() draws the character; and its advance.
Step(f, pen, c) ==
  IF GlyphsOf(f, c) = {} THEN pen
  ELSE LET glyph == f.glyphs[Min(GlyphsOf(f, c))]
           at    == pen.x + (IF pen.prev # 0 THEN GetKerning(glyph) ELSE 0)
       IN [drawn |-> at, x |-> at + glyph.advance, prev |-> c]

StartPen == [drawn |-> 0, x |-> 0, prev |-> 0]

\* Mutant of Measure: the character that begins at the cursor counts too.
MeasureBeyond(f, text, nbytes) ==
  FoldLeft(LAMBDA m, c :
             IF m.n > nbytes THEN m
             ELSE LET g == GetGlyph(m.font, c) IN
                  [n |-> m.n + UTF8CharSize(c), font |-> g, pen |-> Step(g, m.pen, c)],
           [n |-> 0, font |-> f, pen |-> StartPen], text)

\* Font::width(): the characters that begin before byte nbytes, by sizes it works out
\* from the characters.
Measure(f, text, nbytes) ==
  FoldLeft(LAMBDA m, c :
             IF m.n >= nbytes THEN m
             ELSE LET g == GetGlyph(m.font, c) IN
                  [n |-> m.n + UTF8CharSize(c), font |-> g, pen |-> Step(g, m.pen, c)],
           [n |-> 0, font |-> f, pen |-> StartPen], text)

Bytes(text) == FlattenSeq([k \in DOMAIN text |-> AppendUTF8(text[k])])

-----------------------------------------------------------------------------
NoCursor == [after |-> 0, width |-> 0]

\* A one pixel border is never allocated.
Init ==
  /\ font = [nodes |-> <<[x |-> 1, y |-> 1, width |-> Width - 2]>>,
             data  |-> [p \in (0 .. (Width - 1)) \X (0 .. (Height - 1)) |-> 0],
             glyphs |-> <<>>]
  /\ line = <<>> /\ pens = <<StartPen>> /\ cursor = NoCursor

\* One turn of the loop of TextBuffer::print().
PrintCharacter(c) ==
  /\ Len(line) < MaxLine
  /\ \E f \in {GetGlyph(font, c)} :
       font' = f /\ pens' = Append(pens, Step(f, Last(pens), c))
  /\ line' = Append(line, c) /\ cursor' = NoCursor

\* The console draws its cursor behind n characters of the line that it edits.
DrawCursor(n) ==
  /\ \E m \in {Measure(font, line, Len(Bytes(SubSeq(line, 1, n))))} :
       font' = m.font /\ cursor' = [after |-> n, width |-> m.pen.x]
  /\ UNCHANGED <<line, pens>>

\* TextBuffer::clear(), before another text is printed.
Clear ==
  /\ line' = <<>> /\ pens' = <<StartPen>> /\ cursor' = NoCursor
  /\ UNCHANGED font

Next == (\E c \in Characters : PrintCharacter(c)) \/ (\E n \in 0 .. Len(line) : DrawCursor(n)) \/ Clear

Spec == Init /\ [][Next]_vars

-----------------------------------------------------------------------------
(***************************************************************************)
(* Properties.                                                              *)
(***************************************************************************)
\* Whatever glyphs of whatever sizes were loaded in whatever order, and whichever found
\* no room, each that is there still has its own pixels, with nothing of another next to
\* them: "each glyph to be separated by at least one black pixel" (texture-font.cpp), and
\* "a one pixel border around the whole atlas" (textureatlas.cpp) stays empty.
GlyphsIntact ==
  \A i \in DOMAIN font.glyphs :
    LET g    == font.glyphs[i]
        own  == (g.x .. (g.x + g.width - 1)) \X (g.y .. (g.y + g.height - 1))
        near == ((g.x - 1) .. (g.x + g.width)) \X ((g.y - 1) .. (g.y + g.height))
    IN /\ near \subseteq DOMAIN font.data
       /\ \A p \in own : font.data[p] = g.charcode
       /\ own # {} => \A p \in near \ own : font.data[p] = 0

\* The cursor is drawn where the text before it ends, and the character behind it is drawn
\* from there, moved only by its kerning; for characters of one to four bytes, of which some
\* have no glyph, though width() counts the bytes by itself.  From U+1000 to U+FFFF it
\* counts one too many, so a line with such characters before the cursor is excluded.
CursorAtPen ==
  LET n      == cursor.after
      behind == line[n + 1]
  IN (\A k \in 1 .. n : line[k] \notin 4096 .. 65535) =>
       /\ cursor.width = pens[n + 1].x
       /\ n < Len(line) /\ GlyphsOf(font, behind) # {} =>
            pens[n + 2].drawn =
              cursor.width + (IF pens[n + 1].prev = 0 THEN 0 ELSE Metrics[behind].kerning)
=============================================================================
