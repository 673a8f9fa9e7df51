----------------------------- MODULE Conversion -----------------------------
(***************************************************************************)
(* Reading a text: the loops over UTF8Iterator and UTF16Iterator by which   *)
(* toUTF16() and toUTF8() (lib/utf.cpp) convert a path for Windows, and by  *)
(* which all that draws a text (font.cpp) reads it.                         *)
(***************************************************************************)
EXTENDS Utf8

CONSTANTS
  CodePoints,  \* the characters of texts
  Truncated,   \* characters cut short: a first byte of two to four and too few after it
  MaxPieces    \* bound on the characters, whole or cut, of a text

VARIABLES
  text,   \* the pieces written: their bytes, and the character if they are one
  at,     \* i_ of the UTF8Iter; beyond the text when it has stepped over the NUL
  out,    \* the characters it has returned
  wide,   \* the UTF-16 made of them
  wideAt, \* i_ of the UTF16Iter over wide
  back    \* the UTF-8 made of wide

vars == <<text, at, out, wide, wideAt, back>>

-----------------------------------------------------------------------------
Whole(c) == [char |-> c, bytes |-> AppendUTF8(c)]
Cut(bytes) == [char |-> Replacement, bytes |-> bytes]
IsCut(piece) == piece.bytes \in Truncated

Bytes(ps) == FlattenSeq([k \in DOMAIN ps |-> ps[k].bytes])

\* What a text is read as.  A cut character takes the first byte of the piece behind it
\* along.  The rest of that piece, if there is one, is a cut character again, which takes
\* the first byte of the next, and so on: each piece is read as one replacement character,
\* until one of a single byte is lost altogether.  losing: there was none, up to here.
Read(ps) ==
  LET read[k \in 0 .. Len(ps)] ==
        IF k = 0 THEN [chars |-> <<>>, losing |-> FALSE]
        ELSE LET r == read[k - 1] IN
             IF r.losing /\ Len(ps[k].bytes) = 1 THEN [r EXCEPT !.losing = FALSE]
             ELSE [chars  |-> Append(r.chars, IF r.losing THEN Replacement ELSE ps[k].char),
                   losing |-> r.losing \/ IsCut(ps[k])]
  IN read[Len(ps)]

-----------------------------------------------------------------------------
Init ==
  /\ text = <<>> /\ at = 0 /\ out = <<>>
  /\ wide = <<>> /\ wideAt = 0 /\ back = <<>>

\* A text is written before any of it is read.
Write(piece) ==
  /\ Len(text) < MaxPieces /\ at = 0
  /\ text' = Append(text, piece)
  /\ UNCHANGED <<at, out, wide, wideAt, back>>

\* The loop of toUTF16(), which ends at the text's end and nowhere else: once the iterator
\* has stepped over the NUL it reads what lies behind, and the behaviour stops here.
ToUTF16 ==
  /\ at < Len(Bytes(text))
  /\ LET d == Decode(Bytes(text), at) IN
     /\ at' = at + d.len
     /\ out' = Append(out, d.char)
     /\ wide' = wide \o AppendUTF16(d.char)
  /\ UNCHANGED <<text, wideAt, back>>

\* The loop of toUTF8(), over what toUTF16() made.
ToUTF8 ==
  /\ at = Len(Bytes(text)) /\ wideAt # Len(wide)
  /\ LET d == DecodeUTF16(wide, wideAt) IN
     /\ wideAt' = wideAt + d.len
     /\ back' = back \o AppendUTF8(d.char)
  /\ UNCHANGED <<text, at, out, wide>>

Next ==
  \/ \E c \in CodePoints : Write(Whole(c))
  \/ \E bytes \in Truncated : Write(Cut(bytes))
  \/ ToUTF16 \/ ToUTF8

Spec == Init /\ [][Next]_vars

-----------------------------------------------------------------------------
(***************************************************************************)
(* Property.                                                                *)
(***************************************************************************)
\* A text is read as its characters, each once and in order, whatever their sizes, and the
\* iterator stops at its end; converted to UTF-16 and back, it is the same text.  If there
\* is a character cut short, it and those behind it come out as Read says: one replacement
\* character for each until one of a single byte is lost, and all is well behind that.
\* If none of a single byte comes behind, the iterator does not stop: it steps over the
\* text's NUL, in this case and in no other, also when the last character is whole.
TextSurvives ==
  LET read == Read(text)
      end  == Len(Bytes(text))
  IN
  /\ IsPrefix(out, read.chars)
  /\ at > 0 /\ at >= end => out = read.chars /\ at = end + (IF read.losing THEN 1 ELSE 0)
  /\ wideAt > 0 /\ wideAt = Len(wide) =>
       back = Bytes([k \in DOMAIN read.chars |-> Whole(read.chars[k])])
=============================================================================
