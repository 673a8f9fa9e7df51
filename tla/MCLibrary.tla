------------------------------ MODULE MCLibrary ------------------------------
(***************************************************************************)
(* The parts that share nothing with one another, each on an instance of    *)
(* its own: a behaviour is one of one part, and the others stand still.     *)
(***************************************************************************)
EXTENDS Renderer, Signals, ByteStream, TLC

VARIABLES
  part,
  lines, values, disk, saved, lossless, settings,
  text, at, out, wide, wideAt, back,
  font, line, pens, cursor

iniVars      == <<lines, values, disk, saved, lossless, settings>>
textVars     == <<text, at, out, wide, wideAt, back>>
fontVars     == <<font, line, pens, cursor>>
libraryVars == <<part, vars, signalVars, iniVars, streamVars, textVars, fontVars>>

-----------------------------------------------------------------------------
\* Four chunks of two blocks each; the camera at either end.
MCWorldChunks == <<2, 2, 1>>
MCChunkSize   == <<2, 1, 1>>
MCTerrain     == {<<1, 0, 0>>, <<2, 0, 0>>, <<0, 1, 0>>, <<1, 1, 0>>}
MCCameras     == {<<1, 1>>, <<0, 0>>}

\* Forms of lines: an empty file; comment, quoted and escaped values, sections; a key without
\* a value; a last line without a newline; a section whose name has a dot; a section twice,
\* and another whose name ends in its name; a quote that is not closed, and a comment
\* instead of a value; a file that ends where a value would begin; a section without a
\* name, and blanks at the end.
Files ==
  {<<>>,
   <<";", "c", "newline", "g", "=", "a", "newline", "[", "s", "]", "newline", " ", "k", " ",
     "=", "\"", "a", " ", "\"", " ", ";", "c", "newline", "newline", "[", "t", "]",
     "newline", "k", "=", "b", "\\", ";", "newline">>,
   <<"[", "s", "]", "newline", "j", " ", "=", "newline">>,
   <<"[", "s", "]", "newline", "k", "=", "a">>,
   <<"[", "s", ".", "t", "]", "newline", "k", "=", "a", "newline">>,
   <<"[", "x", "s", "]", "newline", "k", "=", "a", "newline", "[", "s", "]", "newline", "k",
     "=", "a", "newline", "[", "x", "s", "]", "newline", "k", "=", "b", "newline">>,
   <<"g", "=", "\"", "a", ";", " ", "newline", "[", "s", "]", "newline", "k", "=", " ", ";",
     "c", "newline">>,
   <<"[", "s", "]", "newline", "k", " ", "=">>,
   <<"[", "]", "newline", "k", "=", "a", "newline", " ">>}

I == INSTANCE IniFile WITH
       Files <- Files,
       Keys <- {<<"g">>, <<"s", ".", "k">>, <<"x", "s", ".", "k">>, <<"s", ".", "t", ".", "k">>},
       Values <- {<<"a">>, <<"\\", "n">>, <<"newline">>, <<"a", ";">>, <<"\\", ";">>},
       MaxChanges <- 4, changes <- settings

\* Bytes have three values.
MCStrings == {<<2>>, <<1, 2, 1>>}

\* The code points at which the encodings change.
C == INSTANCE Conversion WITH
       CodePoints <- {127, 2047, 2048, 55295, 65535, 65536, 1114111},
       Truncated <- {<<195>>, <<226, 130>>, <<240, 159, 146>>}, MaxPieces <- 3

\* A space, and characters of one to four bytes, not all of which fit, one of them never;
\* kerning draws some together and others apart.
Metric(w, h, advance, kerning) ==
  [width |-> w, height |-> h, advance |-> advance, kerning |-> kerning]
F == INSTANCE Font WITH
       Width <- 8, Height <- 8, MaxLine <- 3,
       Metrics <- 32 :> Metric(0, 0, 1, 0) @@ 65 :> Metric(2, 3, 2, 1) @@
                  233 :> Metric(3, 2, 3, -1) @@ 2309 :> Metric(1, 4, 1, 0) @@
                  8730 :> Metric(7, 7, 1, 0) @@
                  65536 :> Metric(2, 1, 2, 0)

-----------------------------------------------------------------------------
\* What a part that does not run starts with is one value.
LibraryInit ==
  /\ part \in {"renderer", "signal", "ini", "stream", "text", "font"}
  /\ Init /\ (part # "renderer" => camera = <<1, 1>> /\ distance = 0)
  /\ SignalInit /\ (part # "signal" => link = <<>>)
  /\ I!Init /\ (part # "ini" => disk = <<>>)
  /\ StreamInit /\ (part # "stream" => ~overran /\ default = "LITTLE")
  /\ C!Init
  /\ F!Init

Rendering == part = "renderer" /\ Next
             /\ UNCHANGED <<part, signalVars, iniVars, streamVars, textVars, fontVars>>
Signalling == part = "signal" /\ SignalNext
              /\ UNCHANGED <<part, vars, iniVars, streamVars, textVars, fontVars>>
Configuring == part = "ini" /\ I!Next
               /\ UNCHANGED <<part, vars, signalVars, streamVars, textVars, fontVars>>
Streaming == part = "stream" /\ StreamNext
             /\ UNCHANGED <<part, vars, signalVars, iniVars, textVars, fontVars>>
Converting == part = "text" /\ C!Next
              /\ UNCHANGED <<part, vars, signalVars, iniVars, streamVars, fontVars>>
Typesetting == part = "font" /\ F!Next
               /\ UNCHANGED <<part, vars, signalVars, iniVars, streamVars, textVars>>

LibraryNext == Rendering \/ Signalling \/ Configuring \/ Streaming \/ Converting \/ Typesetting

\* The game loop draws a frame again and again.
LibrarySpec ==
  /\ LibraryInit /\ [][LibraryNext]_libraryVars
  /\ WF_libraryVars(part = "renderer" /\ Frame
             /\ UNCHANGED <<part, signalVars, iniVars, streamVars, textVars, fontVars>>)

-----------------------------------------------------------------------------
(***************************************************************************)
(* The properties of the parts that are instances.                          *)
(***************************************************************************)
\* A configuration saved and loaded again is the same, but for the losses lossless names.
SavedFileReloads == I!SavedFileReloads

\* A text is read as its characters, and survives UTF-16; after a character cut short, what
\* is lost, and whether the end of the text is found, depends on the sizes of the next ones.
TextSurvives == C!TextSurvives

\* No glyph in the atlas touches another.
GlyphsIntact == F!GlyphsIntact

\* The cursor is drawn where the text before it ends, a kerning from the character behind.
CursorAtPen == F!CursorAtPen
=============================================================================
