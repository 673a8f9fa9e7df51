---------------------------- MODULE FrontEnd_proofs ----------------------------
(***************************************************************************)
(* Proofs about FrontEnd, for every keyboard, every set of character sizes  *)
(* and every length of lines and console.  The first half shows that the    *)
(* byte editor keeps whole characters around its cursor and so implements   *)
(* LineEdit; the second that input, pauses and scrolling keep their         *)
(* promises however the events fall between the ticks.                      *)
(***************************************************************************)
EXTENDS FrontEnd, SequenceLemmas

-----------------------------------------------------------------------------
(* Characters and their bytes.                                             *)

Byte == CharSizes \cup {Continuation}

\* Encoded() and Chars() are made element by element.
EncodingOf == [c \in CharSizes |-> Encoding(c)]
CharOf == [b \in Byte |-> IF IsStart(b) THEN <<b>> ELSE <<>>]

\* A character of n bytes is its lead byte and n - 1 continuation bytes (utf.cpp:208).
LEMMA EncodingProperties ==
  ASSUME NEW c \in CharSizes
  PROVE  /\ c \in 1 .. 4
         /\ Encoding(c) \in Seq(Byte)
         /\ Len(Encoding(c)) = c
         /\ Encoding(c)[1] = c
         /\ \A i \in 2 .. c : Encoding(c)[i] = Continuation
<1> DEFINE z == [i \in 1 .. (c - 1) |-> Continuation]
<1>1. c \in 1 .. 4 /\ c \in Byte /\ Continuation \in Byte
  BY FrontEndAssumption DEF Byte
<1>2. z \in Seq(Byte) /\ Len(z) = c - 1 /\ \A i \in 1 .. c - 1 : z[i] = Continuation
  <2>1. c - 1 \in Nat /\ z \in [1 .. (c - 1) -> Byte]
    BY <1>1
  <2>2. \A i \in 1 .. c - 1 : z[i] = Continuation
    OBVIOUS
  <2> HIDE DEF z
  <2>3. QED
    BY <2>1, <2>2, FunctionIsSeq
<1>3. Encoding(c) = <<c>> \o z
  BY DEF Encoding
<1> HIDE DEF z
<1>4. <<c>> \in Seq(Byte) /\ Len(<<c>>) = 1 /\ <<c>>[1] = c
  BY <1>1
<1> DEFINE e == <<c>> \o z
           h == <<c>>
<1> HIDE DEF h
<1>5. /\ h \o z \in Seq(Byte) /\ Len(h \o z) = 1 + (c - 1)
      /\ \A i \in 1 .. 1 + (c - 1) : (h \o z)[i] = IF i <= 1 THEN h[i] ELSE z[i - 1]
  BY <1>2, <1>4, ConcatProperties DEF h
<1>6. (h \o z)[1] = c
  BY <1>1, <1>4, <1>5 DEF h
<1>7. ASSUME NEW i \in 2 .. c
      PROVE  (h \o z)[i] = Continuation
  <2>1. i \in 1 .. 1 + (c - 1) /\ ~(i <= 1) /\ i - 1 \in 1 .. c - 1
    BY <1>1
  <2>2. QED
    BY <1>2, <1>5, <2>1
<1>8. 1 + (c - 1) = c
  BY <1>1
<1>9. QED
  BY <1>1, <1>3, <1>5, <1>6, <1>7, <1>8 DEF h

LEMMA EncodedIsMap ==
  ASSUME NEW text \in Seq(CharSizes)
  PROVE  Encoded(text) = FlatMap(EncodingOf, text)
<1>1. \A i \in DOMAIN text : text[i] \in CharSizes
  BY LenProperties, ElementOfSeq
<1>2. [i \in DOMAIN text |-> Encoding(text[i])] = [i \in DOMAIN text |-> EncodingOf[text[i]]]
  BY <1>1 DEF EncodingOf
<1>3. QED
  BY <1>2 DEF Encoded, FlatMap

LEMMA CharsIsMap ==
  ASSUME NEW str \in Seq(Byte)
  PROVE  Chars(str) = FlatMap(CharOf, str)
<1>1. \A i \in DOMAIN str : str[i] \in Byte
  BY LenProperties, ElementOfSeq
<1>2. [i \in DOMAIN str |-> IF IsStart(str[i]) THEN <<str[i]>> ELSE <<>>]
        = [i \in DOMAIN str |-> CharOf[str[i]]]
  BY <1>1 DEF CharOf
<1>3. QED
  BY <1>2 DEF Chars, FlatMap

LEMMA MapTypes ==
  /\ EncodingOf \in [CharSizes -> Seq(Byte)]
  /\ CharOf \in [Byte -> Seq(CharSizes)]
<1>1. EncodingOf \in [CharSizes -> Seq(Byte)]
  BY EncodingProperties DEF EncodingOf
<1>2. \A b \in Byte : IF IsStart(b) THEN <<b>> \in Seq(CharSizes) ELSE <<>> \in Seq(CharSizes)
  <2>1. \A b \in CharSizes : <<b>> \in Seq(CharSizes)
    OBVIOUS
  <2>2. QED
    BY <2>1, EmptySeq DEF Byte, IsStart
<1>3. QED
  BY <1>1, <1>2 DEF CharOf

\* Encoding is a homomorphism of texts.
LEMMA EncodedProperties ==
  ASSUME NEW s \in Seq(CharSizes), NEW t \in Seq(CharSizes)
  PROVE  /\ Encoded(s) \in Seq(Byte)
         /\ Encoded(<<>>) = <<>>
         /\ Encoded(s \o t) = Encoded(s) \o Encoded(t)
<1>1. s \o t \in Seq(CharSizes) /\ <<>> \in Seq(CharSizes)
  BY ConcatProperties, EmptySeq
<1>2. /\ FlatMap(EncodingOf, s) \in Seq(Byte)
      /\ FlatMap(EncodingOf, <<>>) = <<>>
  BY MapTypes, FlatMapType
<1>3. FlatMap(EncodingOf, s \o t) = FlatMap(EncodingOf, s) \o FlatMap(EncodingOf, t)
  <2>1. \A f \in [CharSizes -> Seq(Byte)] : FlatMap(f, s \o t) = FlatMap(f, s) \o FlatMap(f, t)
    BY FlatMapConcat
  <2>2. QED
    BY <2>1, MapTypes, Zenon
<1>4. /\ Encoded(s) = FlatMap(EncodingOf, s) /\ Encoded(t) = FlatMap(EncodingOf, t)
      /\ Encoded(s \o t) = FlatMap(EncodingOf, s \o t)
      /\ Encoded(<<>>) = FlatMap(EncodingOf, <<>>)
  BY <1>1, EncodedIsMap
<1>5. QED
  BY <1>2, <1>3, <1>4

\* What a byte adds to the characters of a line.
LEMMA CharsAppend ==
  ASSUME NEW s \in Seq(Byte), NEW b \in Byte
  PROVE  Chars(Append(s, b)) = Chars(s) \o CharOf[b]
<1>1. FlatMap(CharOf, Append(s, b)) = FlatMap(CharOf, s) \o CharOf[b]
  BY MapTypes, FlatMapAppend
<1>2. Chars(s) = FlatMap(CharOf, s)
  BY CharsIsMap, Zenon
<1>3. Append(s, b) \in Seq(Byte)
  BY AppendProperties
<1>4. Chars(Append(s, b)) = FlatMap(CharOf, Append(s, b))
  BY <1>3, CharsIsMap, Zenon
<1>5. QED
  BY <1>1, <1>2, <1>4

LEMMA EncodedOne ==
  ASSUME NEW c \in CharSizes
  PROVE  Encoded(<<c>>) = Encoding(c)
<1>1. <<>> \in Seq(CharSizes) /\ <<c>> = Append(<<>>, c) /\ <<c>> \in Seq(CharSizes)
  BY EmptySeq
<1>2. FlatMap(EncodingOf, Append(<<>>, c)) = FlatMap(EncodingOf, <<>>) \o EncodingOf[c]
  BY <1>1, MapTypes, FlatMapAppend
<1>3. FlatMap(EncodingOf, <<>>) = <<>>
  BY <1>1, MapTypes, FlatMapType
<1>4. EncodingOf[c] = Encoding(c) /\ Encoding(c) \in Seq(Byte)
  BY EncodingProperties DEF EncodingOf
<1>5. QED
  BY <1>1, <1>2, <1>3, <1>4, EncodedIsMap, ConcatEmptySeq

\* So is reading back.
LEMMA CharsProperties ==
  ASSUME NEW s \in Seq(Byte), NEW t \in Seq(Byte)
  PROVE  /\ Chars(s) \in Seq(CharSizes)
         /\ Chars(<<>>) = <<>>
         /\ Chars(s \o t) = Chars(s) \o Chars(t)
<1>1. s \o t \in Seq(Byte) /\ <<>> \in Seq(Byte)
  BY ConcatProperties, EmptySeq
<1>2. /\ FlatMap(CharOf, s) \in Seq(CharSizes)
      /\ FlatMap(CharOf, <<>>) = <<>>
  BY MapTypes, FlatMapType
<1>3. FlatMap(CharOf, s \o t) = FlatMap(CharOf, s) \o FlatMap(CharOf, t)
  <2>1. \A f \in [Byte -> Seq(CharSizes)] : FlatMap(f, s \o t) = FlatMap(f, s) \o FlatMap(f, t)
    BY FlatMapConcat
  <2>2. QED
    BY <2>1, MapTypes, Zenon
<1>4. /\ Chars(s) = FlatMap(CharOf, s) /\ Chars(t) = FlatMap(CharOf, t)
      /\ Chars(s \o t) = FlatMap(CharOf, s \o t)
      /\ Chars(<<>>) = FlatMap(CharOf, <<>>)
  BY <1>1, CharsIsMap
<1>5. QED
  BY <1>2, <1>3, <1>4

\* Of the bytes of a character only the lead byte counts.
LEMMA CharsOfEncoding ==
  ASSUME NEW c \in CharSizes
  PROVE  Chars(Encoding(c)) = <<c>>
<1> DEFINE z == [i \in 1 .. (c - 1) |-> Continuation]
           T == {s \in Seq({Continuation}) : Chars(s) = <<>>}
<1>1. c \in 1 .. 4 /\ c \in Byte /\ Continuation \in Byte /\ c # Continuation
  BY FrontEndAssumption DEF Byte, Continuation
<1>2. z \in Seq({Continuation})
  <2>1. z \in [1 .. (c - 1) -> {Continuation}] /\ c - 1 \in Nat
    BY <1>1
  <2>2. QED
    BY <2>1, FunctionIsSeq
<1>3. \A s \in Seq({Continuation}) : s \in Seq(Byte)
  <2>1. {Continuation} \subseteq Byte
    BY <1>1
  <2>2. QED
    BY <2>1, SeqMonotonic
<1>4. <<>> \in Seq(Byte) /\ Chars(<<>>) = <<>>
  BY EmptySeq, CharsProperties
<1>5. ASSUME NEW b \in Byte
      PROVE  /\ <<b>> \in Seq(Byte) /\ <<b>> = Append(<<>>, b)
             /\ Chars(<<b>>) = CharOf[b]
  <2>1. <<b>> \in Seq(Byte) /\ <<b>> = Append(<<>>, b)
    OBVIOUS
  <2>2. FlatMap(CharOf, Append(<<>>, b)) = FlatMap(CharOf, <<>>) \o CharOf[b]
    BY <1>4, MapTypes, FlatMapAppend
  <2>3. FlatMap(CharOf, <<>>) = <<>> /\ CharOf[b] \in Seq(CharSizes)
    BY <1>4, MapTypes, FlatMapType
  <2>4. <<>> \o CharOf[b] = CharOf[b]
    BY <2>3, ConcatEmptySeq
  <2>5. QED
    BY <2>1, <2>2, <2>3, <2>4, CharsIsMap
<1>6. T = Seq({Continuation})
  <2>1. T \subseteq Seq({Continuation}) /\ <<>> \in T
    BY <1>4, EmptySeq
  <2>2. ASSUME NEW s \in T, NEW x \in {Continuation}
        PROVE  Append(s, x) \in T
    <3>1. Append(s, x) \in Seq({Continuation}) /\ s \in Seq(Byte) /\ x \in Byte
      BY <1>1, <1>3, AppendProperties
    <3>2. Chars(Append(s, x)) = Chars(s) \o CharOf[x]
      BY <3>1, CharsAppend, Zenon
    <3>3. CharOf[x] = <<>> /\ Chars(s) = <<>>
      BY <3>1 DEF CharOf, IsStart
    <3>4. QED
      BY <3>1, <3>2, <3>3, <1>4, ConcatEmptySeq
  <2> HIDE DEF T
  <2>3. QED
    BY <2>1, <2>2, SeqInduction
<1>7. Chars(z) = <<>> /\ z \in Seq(Byte)
  <2> HIDE DEF z
  <2>1. QED
    BY <1>2, <1>3, <1>6
<1>8. Chars(<<c>>) = <<c>> /\ <<c>> \in Seq(Byte) /\ <<c>> \in Seq(CharSizes)
  BY <1>1, <1>5 DEF CharOf, IsStart
<1>9. Encoding(c) = <<c>> \o z
  BY DEF Encoding
<1> HIDE DEF z
<1>10. Chars(<<c>> \o z) = Chars(<<c>>) \o Chars(z)
  BY <1>7, <1>8, CharsProperties
<1>11. QED
  BY <1>7, <1>8, <1>9, <1>10, ConcatEmptySeq

\* What was encoded is read back.
LEMMA CharsOfEncoded ==
  ASSUME NEW text \in Seq(CharSizes)
  PROVE  Chars(Encoded(text)) = text
<1> DEFINE T == {s \in Seq(CharSizes) : Chars(Encoded(s)) = s}
<1>1. <<>> \in T
  BY EmptySeq, EncodedProperties, CharsProperties
<1>2. ASSUME NEW s \in T, NEW c \in CharSizes
      PROVE  Append(s, c) \in T
  <2>1. /\ s \in Seq(CharSizes) /\ Append(s, c) \in Seq(CharSizes)
        /\ Append(s, c) = s \o <<c>> /\ <<c>> \in Seq(CharSizes)
    BY AppendProperties, AppendIsConcat
  <2>2. Encoded(s \o <<c>>) = Encoded(s) \o Encoding(c)
    BY <2>1, EncodedProperties, EncodedOne
  <2>3. Encoded(s) \in Seq(Byte) /\ Encoding(c) \in Seq(Byte)
    BY <2>1, EncodedProperties, EncodingProperties
  <2>4. Chars(Encoded(s) \o Encoding(c)) = Chars(Encoded(s)) \o Chars(Encoding(c))
    BY <2>3, CharsProperties
  <2>5. QED
    BY <2>1, <2>2, <2>4, CharsOfEncoding
<1>3. T = Seq(CharSizes)
  <2>1. T \subseteq Seq(CharSizes)
    OBVIOUS
  <2> HIDE DEF T
  <2>2. QED
    BY <1>1, <1>2, <2>1, SeqInduction
<1>4. QED
  BY <1>3

-----------------------------------------------------------------------------
(* The editor, seen as the characters b before its cursor and a after it.  *)

IsLine(e, b, a) ==
  /\ b \in Seq(CharSizes) /\ a \in Seq(CharSizes)
  /\ e = [str |-> Encoded(b) \o Encoded(a), cursor |-> Len(Encoded(b))]

\* What the parts of such an editor are.
LEMMA LineParts ==
  ASSUME NEW e, NEW b, NEW a, IsLine(e, b, a)
  PROVE  /\ Encoded(b) \in Seq(Byte) /\ Encoded(a) \in Seq(Byte) /\ e.str \in Seq(Byte)
         /\ e.str = Encoded(b) \o Encoded(a)
         /\ e.cursor = Len(Encoded(b)) /\ e.cursor \in Nat
         /\ Len(e.str) = e.cursor + Len(Encoded(a)) /\ Len(Encoded(a)) \in Nat
         /\ SubSeq(e.str, 1, e.cursor) = Encoded(b)
         /\ SubSeq(e.str, e.cursor + 1, Len(e.str)) = Encoded(a)
<1>1. Encoded(b) \in Seq(Byte) /\ Encoded(a) \in Seq(Byte)
  BY EncodedProperties DEF IsLine
<1>2. e.str = Encoded(b) \o Encoded(a) /\ e.cursor = Len(Encoded(b))
  BY DEF IsLine
<1>3. QED
  BY <1>1, <1>2, ConcatProperties, ConcatSplit, LenProperties

\* What a reader sees of it.
LEMMA LineShows ==
  ASSUME NEW e, NEW b, NEW a, IsLine(e, b, a)
  PROVE  Before(e) = b /\ After(e) = a /\ Chars(e.str) = b \o a
<1>1. b \in Seq(CharSizes) /\ a \in Seq(CharSizes)
  BY DEF IsLine
<1>2. Chars(Encoded(b)) = b /\ Chars(Encoded(a)) = a
  BY <1>1, CharsOfEncoded
<1>3. Encoded(b) \in Seq(Byte) /\ Encoded(a) \in Seq(Byte)
  BY LineParts
<1>4. Chars(Encoded(b) \o Encoded(a)) = Chars(Encoded(b)) \o Chars(Encoded(a))
  BY <1>3, CharsProperties
<1>5. /\ e.str = Encoded(b) \o Encoded(a)
      /\ SubSeq(e.str, 1, e.cursor) = Encoded(b)
      /\ SubSeq(e.str, e.cursor + 1, Len(e.str)) = Encoded(a)
  BY LineParts
<1>6. QED
  BY <1>2, <1>4, <1>5 DEF Before, After

\* The byte behind the cursor is the lead byte of the next character, if there is one.
LEMMA ByteAtCursor ==
  ASSUME NEW e, NEW b, NEW a, IsLine(e, b, a)
  PROVE  /\ a = <<>> => ByteAt(e.str, e.cursor) = Nul
         /\ \A c \in CharSizes, r \in Seq(CharSizes) :
              a = <<c>> \o r => ByteAt(e.str, e.cursor) = c
<1>1. CASE a = <<>>
  <2>1. Encoded(a) = <<>> /\ Len(Encoded(a)) = 0
    BY <1>1, EncodedProperties, EmptySeq DEF IsLine
  <2>2. ~(e.cursor < Len(e.str))
    BY <2>1, LineParts
  <2>3. \A c \in CharSizes, r \in Seq(CharSizes) : a # <<c>> \o r
    <3> SUFFICES ASSUME NEW c \in CharSizes, NEW r \in Seq(CharSizes), <<c>> \o r = <<>>
                 PROVE  FALSE
      BY <1>1
    <3>1. <<c>> \in Seq(CharSizes) /\ Len(<<c>>) = 1
      OBVIOUS
    <3>2. Len(<<c>> \o r) = 1 + Len(r) /\ Len(r) \in Nat
      BY <3>1, ConcatProperties, LenProperties
    <3>3. QED
      BY <3>2, EmptySeq
  <2>4. QED
    BY <2>2, <2>3 DEF ByteAt
<1>2. ASSUME NEW c \in CharSizes, NEW r \in Seq(CharSizes), a = <<c>> \o r
      PROVE  ByteAt(e.str, e.cursor) = c /\ a # <<>>
  <2> DEFINE x == Encoded(b)
             y == Encoded(a)
             z == Encoding(c)
  <2>1. <<c>> \in Seq(CharSizes) /\ y = z \o Encoded(r) /\ Encoded(r) \in Seq(Byte)
    <3>1. <<c>> \in Seq(CharSizes)
      OBVIOUS
    <3>2. Encoded(<<c>> \o r) = Encoded(<<c>>) \o Encoded(r) /\ Encoded(r) \in Seq(Byte)
      BY <3>1, EncodedProperties
    <3>3. QED
      BY <1>2, <3>1, <3>2, EncodedOne
  <2>2. z \in Seq(Byte) /\ Len(z) = c /\ c \in 1 .. 4 /\ z[1] = c
    BY EncodingProperties
  <2> HIDE DEF z, x, y
  <2>3. y[1] = c /\ Len(y) >= 1 /\ y \in Seq(Byte) /\ Len(y) \in Nat
    BY <2>1, <2>2, ConcatProperties, LenProperties
  <2>4. /\ e.str = x \o y /\ e.cursor = Len(x) /\ Len(x) \in Nat /\ x \in Seq(Byte)
        /\ Len(e.str) = Len(x) + Len(y)
    BY LineParts DEF x, y
  <2>5. (x \o y)[Len(x) + 1] = c
    <3>1. /\ Len(x) + 1 \in 1 .. Len(x) + Len(y) /\ ~(Len(x) + 1 <= Len(x))
          /\ Len(x) + 1 - Len(x) = 1
      BY <2>3, <2>4
    <3>2. QED
      BY <2>3, <2>4, <3>1, ConcatProperties
  <2>6. e.cursor < Len(e.str)
    BY <2>3, <2>4
  <2>7. a # <<>>
    BY <2>1, <1>2, ConcatEqualIffEmpty, EmptySeq
  <2>8. QED
    BY <2>4, <2>5, <2>6, <2>7 DEF ByteAt
<1>3. QED
  BY <1>1, <1>2

\* The assertions of texteditor.cpp hold of such an editor.
LEMMA LineWellFormed ==
  ASSUME NEW e, NEW b, NEW a, IsLine(e, b, a)
  PROVE  WellFormed(e)
<1>1. b \in Seq(CharSizes) /\ a \in Seq(CharSizes)
  BY DEF IsLine
<1>2. e.cursor \in 0 .. Len(e.str)
  BY LineParts
<1>3. e.str = Encoded(Chars(e.str))
  <2>1. Encoded(b \o a) = Encoded(b) \o Encoded(a)
    BY <1>1, EncodedProperties
  <2>2. e.str = Encoded(b) \o Encoded(a) /\ Chars(e.str) = b \o a
    BY LineParts, LineShows
  <2>3. QED
    BY <2>1, <2>2
<1>4. IsStart(ByteAt(e.str, e.cursor))
  <2>1. CASE a = <<>>
    BY <2>1, ByteAtCursor DEF IsStart, Nul, Continuation
  <2>2. CASE a # <<>>
    <3>1. Head(a) \in CharSizes /\ Tail(a) \in Seq(CharSizes) /\ a = <<Head(a)>> \o Tail(a)
      BY <1>1, <2>2, EndsOfSeq
    <3>2. ByteAt(e.str, e.cursor) = Head(a)
      BY <3>1, ByteAtCursor
    <3>3. Head(a) # 0
      BY <3>1, FrontEndAssumption
    <3>4. QED
      BY <3>2, <3>3 DEF IsStart, Continuation
  <2>3. QED
    BY <2>1, <2>2
<1>5. QED
  BY <1>2, <1>3, <1>4 DEF WellFormed

-----------------------------------------------------------------------------
(* What the functions of TextEditor do to such an editor.                  *)

LEMMA MaxOfTwo ==
  ASSUME NEW n \in Nat
  PROVE  Max({0, n}) = n
BY DEF Max

\* The size read behind the cursor is that of the next character (utf.cpp:208).
LEMMA SizeAtCursor ==
  ASSUME NEW e, NEW b, NEW a, IsLine(e, b, a)
  PROVE  /\ a = <<>> => UTF8CharSize(ByteAt(e.str, e.cursor)) = 0
         /\ \A c \in CharSizes, r \in Seq(CharSizes) :
              a = <<c>> \o r => UTF8CharSize(ByteAt(e.str, e.cursor)) = c
<1>1. \A c \in CharSizes : c \in 1 .. 4 /\ c # Nul /\ c # Continuation
  BY FrontEndAssumption DEF Nul, Continuation
<1>2. QED
  BY <1>1, ByteAtCursor DEF UTF8CharSize

\* Changing one of the two fields of an editor.
LEMMA EditorFields ==
  ASSUME NEW s, NEW k, NEW e, e = [str |-> s, cursor |-> k], NEW s2, NEW k2
  PROVE  /\ e.str = s /\ e.cursor = k
         /\ [e EXCEPT !.cursor = k2] = [str |-> s, cursor |-> k2]
         /\ [e EXCEPT !.str = s2] = [str |-> s2, cursor |-> k]
OBVIOUS

LEMMA LineFields ==
  ASSUME NEW e, NEW b, NEW a, IsLine(e, b, a), NEW s2, NEW k2
  PROVE  /\ e = [str |-> e.str, cursor |-> e.cursor]
         /\ [e EXCEPT !.cursor = k2] = [str |-> e.str, cursor |-> k2]
         /\ [e EXCEPT !.str = s2] = [str |-> s2, cursor |-> e.cursor]
<1> DEFINE s == Encoded(b) \o Encoded(a)
           k == Len(Encoded(b))
<1>1. e = [str |-> s, cursor |-> k]
  BY DEF IsLine
<1> HIDE DEF s, k
<1>2. QED
  BY <1>1, EditorFields

LEMMA EmptyLine == IsLine(Empty, <<>>, <<>>)
<1>1. <<>> \in Seq(CharSizes) /\ <<>> \in Seq(Byte) /\ Len(<<>>) = 0
  BY EmptySeq
<1>2. Encoded(<<>>) = <<>> /\ <<>> \o <<>> = <<>>
  BY <1>1, EncodedProperties, ConcatEmptySeq
<1>3. QED
  BY <1>1, <1>2 DEF IsLine, Empty

LEMMA AddStringLine ==
  ASSUME NEW e, NEW b, NEW a, IsLine(e, b, a), NEW t \in Seq(CharSizes)
  PROVE  IsLine(AddString(e, t), b \o t, a)
<1>1. b \in Seq(CharSizes) /\ a \in Seq(CharSizes) /\ b \o t \in Seq(CharSizes)
  BY ConcatProperties DEF IsLine
<1>2. /\ Encoded(b \o t) = Encoded(b) \o Encoded(t)
      /\ Encoded(b) \in Seq(Byte) /\ Encoded(t) \in Seq(Byte)
  BY <1>1, EncodedProperties
<1>3. Len(Encoded(b) \o Encoded(t)) = Len(Encoded(b)) + Len(Encoded(t))
  BY <1>2, ConcatProperties
<1>4. /\ SubSeq(e.str, 1, e.cursor) = Encoded(b) /\ e.cursor = Len(Encoded(b))
      /\ SubSeq(e.str, e.cursor + 1, Len(e.str)) = Encoded(a)
  BY LineParts
<1>5. AddString(e, t) = [str |-> Encoded(b) \o Encoded(t) \o Encoded(a),
                         cursor |-> Len(Encoded(b)) + Len(Encoded(t))]
  BY <1>4 DEF AddString
<1>6. QED
  BY <1>1, <1>2, <1>3, <1>5 DEF IsLine

LEMMA HomeLine ==
  ASSUME NEW e, NEW b, NEW a, IsLine(e, b, a)
  PROVE  IsLine(HomeCursor(e), <<>>, b \o a)
<1>1. /\ b \in Seq(CharSizes) /\ a \in Seq(CharSizes) /\ b \o a \in Seq(CharSizes)
      /\ <<>> \in Seq(CharSizes)
  BY ConcatProperties, EmptySeq DEF IsLine
<1>2. /\ Encoded(<<>>) = <<>> /\ Encoded(b \o a) = Encoded(b) \o Encoded(a)
      /\ Encoded(b \o a) \in Seq(Byte)
  BY <1>1, EncodedProperties
<1>3. <<>> \o Encoded(b \o a) = Encoded(b \o a) /\ Len(<<>>) = 0
  BY <1>2, ConcatEmptySeq, EmptySeq
<1>4. HomeCursor(e) = [str |-> Encoded(b) \o Encoded(a), cursor |-> 0]
  <2>1. e.str = Encoded(b) \o Encoded(a)
    BY LineParts
  <2>2. [e EXCEPT !.cursor = 0] = [str |-> e.str, cursor |-> 0]
    BY LineFields
  <2>3. QED
    BY <2>1, <2>2 DEF HomeCursor
<1>5. QED
  BY <1>1, <1>2, <1>3, <1>4 DEF IsLine

LEMMA EndLine ==
  ASSUME NEW e, NEW b, NEW a, IsLine(e, b, a)
  PROVE  IsLine(EndCursor(e), b \o a, <<>>)
<1>1. /\ b \in Seq(CharSizes) /\ a \in Seq(CharSizes) /\ b \o a \in Seq(CharSizes)
      /\ <<>> \in Seq(CharSizes)
  BY ConcatProperties, EmptySeq DEF IsLine
<1>2. /\ Encoded(<<>>) = <<>> /\ Encoded(b \o a) = Encoded(b) \o Encoded(a)
      /\ Encoded(b \o a) \in Seq(Byte)
  BY <1>1, EncodedProperties
<1>3. Encoded(b \o a) \o <<>> = Encoded(b \o a)
  BY <1>2, ConcatEmptySeq
<1>4. EndCursor(e) = [str |-> Encoded(b) \o Encoded(a), cursor |-> Len(Encoded(b) \o Encoded(a))]
  <2>1. e.str = Encoded(b) \o Encoded(a)
    BY LineParts
  <2>2. [e EXCEPT !.cursor = Len(e.str)] = [str |-> e.str, cursor |-> Len(e.str)]
    BY LineFields
  <2>3. QED
    BY <2>1, <2>2 DEF EndCursor
<1>5. QED
  BY <1>1, <1>2, <1>3, <1>4 DEF IsLine

\* The same bytes, with the cursor behind the next character or before the last one.
LEMMA ShiftLine ==
  ASSUME NEW b \in Seq(CharSizes), NEW a \in Seq(CharSizes), NEW c \in CharSizes
  PROVE  /\ b \o <<c>> \in Seq(CharSizes) /\ <<c>> \o a \in Seq(CharSizes)
         /\ Encoded(b \o <<c>>) \o Encoded(a) = Encoded(b) \o Encoded(<<c>> \o a)
         /\ Len(Encoded(b \o <<c>>)) = Len(Encoded(b)) + c
         /\ Len(Encoded(b)) \in Nat
<1>1. <<c>> \in Seq(CharSizes)
  OBVIOUS
<1>2. b \o <<c>> \in Seq(CharSizes) /\ <<c>> \o a \in Seq(CharSizes)
  BY <1>1, ConcatProperties
<1>3. /\ Encoded(b \o <<c>>) = Encoded(b) \o Encoding(c)
      /\ Encoded(b) \in Seq(Byte)
  BY <1>1, EncodedProperties, EncodedOne
<1>4. /\ Encoded(<<c>> \o a) = Encoding(c) \o Encoded(a)
      /\ Encoded(a) \in Seq(Byte)
  BY <1>1, EncodedProperties, EncodedOne
<1>5. Encoding(c) \in Seq(Byte) /\ Len(Encoding(c)) = c
  BY EncodingProperties
<1>6. (Encoded(b) \o Encoding(c)) \o Encoded(a) = Encoded(b) \o (Encoding(c) \o Encoded(a))
  <2>1. Regroups(Byte)
    BY ConcatRegroups
  <2>2. QED
    BY <1>3, <1>4, <1>5, <2>1 DEF Regroups
<1>7. Len(Encoded(b) \o Encoding(c)) = Len(Encoded(b)) + c /\ Len(Encoded(b)) \in Nat
  BY <1>3, <1>5, ConcatProperties, LenProperties
<1>8. QED
  BY <1>2, <1>3, <1>4, <1>6, <1>7

\* moveCursorRight() goes over one character, or stays at the end (texteditor.cpp:54).
LEMMA RightLine ==
  ASSUME NEW e, NEW b, NEW a, IsLine(e, b, a)
  PROVE  /\ a = <<>> => MoveCursorRight(e) = e
         /\ \A c \in CharSizes, r \in Seq(CharSizes) :
              a = <<c>> \o r => IsLine(MoveCursorRight(e), b \o <<c>>, r)
<1>1. b \in Seq(CharSizes) /\ e = [str |-> Encoded(b) \o Encoded(a), cursor |-> Len(Encoded(b))]
  BY DEF IsLine
<1>2. e.cursor \in Nat /\ e.cursor = Len(Encoded(b)) /\ e.str = Encoded(b) \o Encoded(a)
  BY LineParts
<1>3. MoveCursorRight(e) =
        [str |-> e.str, cursor |-> e.cursor + Max({0, UTF8CharSize(ByteAt(e.str, e.cursor))})]
  BY LineFields DEF MoveCursorRight
<1>4. CASE a = <<>>
  <2>1. Max({0, UTF8CharSize(ByteAt(e.str, e.cursor))}) = 0
    BY <1>4, SizeAtCursor, MaxOfTwo
  <2>2. MoveCursorRight(e) = e
    <3>1. e.cursor + 0 = e.cursor
      BY <1>2
    <3>2. QED
      BY <1>3, <2>1, <3>1, LineFields
  <2>3. \A c \in CharSizes, r \in Seq(CharSizes) : a # <<c>> \o r
    <3>1. ByteAt(e.str, e.cursor) = Nul
      BY <1>4, ByteAtCursor
    <3>2. \A c \in CharSizes : c # Nul
      BY FrontEndAssumption DEF Nul
    <3>3. QED
      BY <3>1, <3>2, ByteAtCursor
  <2>4. QED
    BY <2>2, <2>3
<1>5. ASSUME NEW c \in CharSizes, NEW r \in Seq(CharSizes), a = <<c>> \o r
      PROVE  a # <<>> /\ IsLine(MoveCursorRight(e), b \o <<c>>, r)
  <2>1. c \in Nat /\ c # Nul
    BY FrontEndAssumption DEF Nul
  <2>2. Max({0, UTF8CharSize(ByteAt(e.str, e.cursor))}) = c
    BY <1>5, <2>1, SizeAtCursor, MaxOfTwo
  <2>3. /\ Encoded(b \o <<c>>) \o Encoded(r) = e.str
        /\ Len(Encoded(b \o <<c>>)) = e.cursor + c
        /\ b \o <<c>> \in Seq(CharSizes)
    BY <1>1, <1>2, <1>5, ShiftLine
  <2>4. a # <<>>
    BY <1>5, <2>1, ByteAtCursor
  <2>5. QED
    BY <1>3, <2>2, <2>3, <2>4 DEF IsLine
<1>6. QED
  BY <1>4, <1>5

\* What UTF8PrevCharSize() finds by walking back is the size of the character before the
\* cursor (utf.cpp:241).
LEMMA SizeBeforeCursor ==
  ASSUME NEW e, NEW b \in Seq(CharSizes), NEW a, NEW c \in CharSizes,
         IsLine(e, b \o <<c>>, a)
  PROVE  UTF8PrevCharSize(e.str, e.cursor) = c
<1> DEFINE p == Len(Encoded(b))
           off == e.cursor
           str == e.str
           before == [str |-> str, cursor |-> p]
           x == Encoded(b)
           y == Encoding(c)
           z == Encoded(a)
<1>1. a \in Seq(CharSizes)
  BY DEF IsLine
<1>2. c \in 1 .. 4
  BY FrontEndAssumption
<1>3. /\ str = Encoded(b \o <<c>>) \o z /\ off = Len(Encoded(b \o <<c>>))
      /\ x \in Seq(Byte) /\ z \in Seq(Byte)
  <2>1. x \in Seq(Byte) /\ z \in Seq(Byte)
    BY <1>1, EncodedProperties, Zenon
  <2>2. QED
    BY <2>1, LineParts
<1>4. /\ off = p + c /\ p \in Nat
      /\ str = Encoded(b) \o Encoded(<<c>> \o a) /\ <<c>> \o a \in Seq(CharSizes)
  BY <1>1, <1>3, ShiftLine
<1>5. IsLine(before, b, <<c>> \o a)
  BY <1>4 DEF IsLine
<1>6. ByteAt(str, p) = c
  <2>1. ByteAt(before.str, before.cursor) = c
    BY <1>1, <1>5, ByteAtCursor
  <2>2. QED
    BY <2>1
<1>7. IsStart(ByteAt(str, off))
  BY LineWellFormed DEF WellFormed
<1>8. str = (x \o y) \o z /\ y \in Seq(Byte) /\ Len(y) = c /\ \A i \in 2 .. c : y[i] = Continuation
  <2>1. Encoded(b \o <<c>>) = x \o y
    <3>1. <<c>> \in Seq(CharSizes)
      OBVIOUS
    <3>2. QED
      BY <3>1, EncodedProperties, EncodedOne
  <2>2. QED
    BY <1>3, <2>1, EncodingProperties
<1> HIDE DEF x, y, z, str, off, p, before
<1>9. ASSUME NEW o \in 0 .. off - 1, o > p
      PROVE  ~IsStart(ByteAt(str, o)) /\ o # 0
  <2>1. /\ x \o y \in Seq(Byte) /\ Len(x \o y) = Len(x) + Len(y) /\ Len(x) = p
        /\ \A i \in 1 .. Len(x) + Len(y) :
             (x \o y)[i] = IF i <= Len(x) THEN x[i] ELSE y[i - Len(x)]
    BY <1>3, <1>8, ConcatProperties DEF x, p
  <2>2. o + 1 \in 1 .. p + c /\ ~(o + 1 <= p) /\ o + 1 - p \in 2 .. c
    BY <1>2, <1>4, <1>9
  <2>3. (x \o y)[o + 1] = Continuation
    BY <1>8, <2>1, <2>2
  <2> DEFINE u == x \o y
  <2>4. /\ Len(str) = p + c + Len(z) /\ Len(z) \in Nat
        /\ \A i \in 1 .. p + c + Len(z) :
             str[i] = IF i <= p + c THEN (x \o y)[i] ELSE z[i - (p + c)]
    <3>1. u \in Seq(Byte) /\ Len(u) = p + c /\ str = u \o z
      BY <1>8, <2>1
    <3> HIDE DEF u
    <3>2. /\ Len(u \o z) = Len(u) + Len(z) /\ Len(z) \in Nat
          /\ \A i \in 1 .. Len(u) + Len(z) :
               (u \o z)[i] = IF i <= Len(u) THEN u[i] ELSE z[i - Len(u)]
      BY <1>3, <3>1, ConcatProperties, LenProperties
    <3>3. QED
      BY <3>1, <3>2 DEF u
  <2>5. o < Len(str) /\ o + 1 \in 1 .. p + c + Len(z) /\ o + 1 <= p + c
    <3>1. o \in Int /\ p \in Nat /\ c \in Nat /\ Len(z) \in Nat /\ Len(str) = p + c + Len(z)
      <4>1. off \in Int /\ p \in Nat /\ c \in Nat
        BY <1>2, <1>4
      <4>2. QED
        BY <1>9, <2>4, <4>1
    <3>2. QED
      BY <2>2, <3>1
  <2>6. ByteAt(str, o) = Continuation
    BY <2>3, <2>4, <2>5 DEF ByteAt
  <2>7. QED
    BY <1>4, <1>9, <2>6 DEF IsStart
<1> DEFINE T == {o \in 0 .. (off - 1) : IsStart(ByteAt(str, o)) \/ o = 0}
<1>10. p \in T /\ \A o \in T : p >= o
  <2>1. p \in 0 .. (off - 1) /\ off \in Nat
    BY <1>2, <1>4
  <2>2. IsStart(ByteAt(str, p))
    BY <1>2, <1>6 DEF IsStart, Continuation
  <2>3. ASSUME NEW o \in T
        PROVE  p >= o
    <3>1. ~(o > p)
      BY <1>9
    <3>2. QED
      BY <1>4, <2>1, <3>1
  <2>4. QED
    BY <2>1, <2>2, <2>3
<1>11. Max(T) = p
  <2>1. \A o \in T : o \in Int
    BY <1>4
  <2> HIDE DEF T
  <2>2. \A o \in T : (\A r \in T : o >= r) => o = p
    BY <1>4, <1>10, <2>1
  <2>3. QED
    BY <1>10, <2>2 DEF Max
<1>12. UTF8PrevCharSize(str, off) = off - Max(T)
  BY <1>2, <1>4, <1>7 DEF UTF8PrevCharSize
<1>13. QED
  BY <1>2, <1>4, <1>11, <1>12 DEF str, off

\* moveCursorLeft() goes over one character, or stays at the start (texteditor.cpp:37).
LEMMA LeftLine ==
  ASSUME NEW e, NEW b, NEW a, IsLine(e, b, a)
  PROVE  /\ b = <<>> => MoveCursorLeft(e) = e
         /\ \A c \in CharSizes, r \in Seq(CharSizes) :
              b = r \o <<c>> => IsLine(MoveCursorLeft(e), r, <<c>> \o a)
<1>1. a \in Seq(CharSizes) /\ e = [str |-> Encoded(b) \o Encoded(a), cursor |-> Len(Encoded(b))]
  BY DEF IsLine
<1>2. e.cursor \in Nat /\ e.cursor = Len(Encoded(b)) /\ e.str = Encoded(b) \o Encoded(a)
  BY LineParts
<1>3. MoveCursorLeft(e) =
        [str |-> e.str, cursor |-> e.cursor - Max({0, UTF8PrevCharSize(e.str, e.cursor)})]
  BY LineFields DEF MoveCursorLeft
<1>4. b = <<>> => MoveCursorLeft(e) = e
  <2> SUFFICES ASSUME b = <<>>
               PROVE  MoveCursorLeft(e) = e
    OBVIOUS
  <2>1. e.cursor = 0
    BY <1>1, <1>2, EncodedProperties, EmptySeq
  <2>2. Max({0, UTF8PrevCharSize(e.str, e.cursor)}) = 0
    BY <2>1, MaxOfTwo DEF UTF8PrevCharSize
  <2>3. e.cursor - 0 = e.cursor
    BY <1>2
  <2>4. QED
    BY <1>3, <2>2, <2>3, LineFields
<1>5. ASSUME NEW c \in CharSizes, NEW r \in Seq(CharSizes), b = r \o <<c>>
      PROVE  IsLine(MoveCursorLeft(e), r, <<c>> \o a)
  <2>1. c \in Nat
    BY FrontEndAssumption
  <2>2. UTF8PrevCharSize(e.str, e.cursor) = c
    BY <1>5, SizeBeforeCursor
  <2>3. Max({0, UTF8PrevCharSize(e.str, e.cursor)}) = c
    BY <2>1, <2>2, MaxOfTwo
  <2>4. /\ e.str = Encoded(r) \o Encoded(<<c>> \o a)
        /\ e.cursor = Len(Encoded(r)) + c /\ Len(Encoded(r)) \in Nat
        /\ <<c>> \o a \in Seq(CharSizes)
    BY <1>1, <1>2, <1>5, ShiftLine
  <2>5. e.cursor - c = Len(Encoded(r))
    BY <2>1, <2>4
  <2>6. QED
    BY <1>3, <2>3, <2>4, <2>5 DEF IsLine
<1>6. QED
  BY <1>4, <1>5

\* Erasing at the cursor takes the next character, if there is one (texteditor.cpp:81).
LEMMA EraseLine ==
  ASSUME NEW e, NEW b, NEW a, IsLine(e, b, a)
  PROVE  /\ a = <<>> => EraseAtCursor(e) = e
         /\ \A c \in CharSizes, r \in Seq(CharSizes) :
              a = <<c>> \o r => IsLine(EraseAtCursor(e), b, r)
<1>1. b \in Seq(CharSizes) /\ e = [str |-> Encoded(b) \o Encoded(a), cursor |-> Len(Encoded(b))]
  BY DEF IsLine
<1>2. /\ e.cursor \in Nat /\ e.cursor = Len(Encoded(b)) /\ e.str = Encoded(b) \o Encoded(a)
      /\ SubSeq(e.str, 1, e.cursor) = Encoded(b)
      /\ SubSeq(e.str, e.cursor + 1, Len(e.str)) = Encoded(a)
  BY LineParts
<1>3. EraseAtCursor(e) =
        [str |-> SubSeq(e.str, 1, e.cursor)
                   \o SubSeq(e.str, e.cursor + UTF8CharSize(ByteAt(e.str, e.cursor)) + 1, Len(e.str)),
         cursor |-> e.cursor]
  BY LineFields DEF EraseAtCursor, Erase
<1>4. a = <<>> => EraseAtCursor(e) = e
  <2> SUFFICES ASSUME a = <<>>
               PROVE  EraseAtCursor(e) = e
    OBVIOUS
  <2>1. UTF8CharSize(ByteAt(e.str, e.cursor)) = 0
    BY SizeAtCursor
  <2>2. e.cursor + 0 + 1 = e.cursor + 1
    BY <1>2
  <2>3. QED
    BY <1>1, <1>2, <1>3, <2>1, <2>2, LineFields
<1>5. ASSUME NEW c \in CharSizes, NEW r \in Seq(CharSizes), a = <<c>> \o r
      PROVE  IsLine(EraseAtCursor(e), b, r)
  <2>1. UTF8CharSize(ByteAt(e.str, e.cursor)) = c
    BY <1>5, SizeAtCursor
  <2> DEFINE right == [str |-> e.str, cursor |-> e.cursor + c]
  <2>2. IsLine(right, b \o <<c>>, r)
    <3>1. /\ e.str = Encoded(b \o <<c>>) \o Encoded(r)
          /\ e.cursor + c = Len(Encoded(b \o <<c>>))
          /\ b \o <<c>> \in Seq(CharSizes)
      <4>1. b \in Seq(CharSizes)
        BY <1>1
      <4>2. /\ Encoded(b \o <<c>>) \o Encoded(r) = Encoded(b) \o Encoded(<<c>> \o r)
            /\ Len(Encoded(b \o <<c>>)) = Len(Encoded(b)) + c
            /\ b \o <<c>> \in Seq(CharSizes)
        BY <4>1, ShiftLine
      <4>3. QED
        BY <1>2, <1>5, <4>2
    <3>2. QED
      BY <3>1 DEF IsLine
  <2>3. SubSeq(right.str, right.cursor + 1, Len(right.str)) = Encoded(r)
    <3> HIDE DEF right
    <3>1. QED
      BY <2>2, LineParts
  <2>4. SubSeq(e.str, e.cursor + c + 1, Len(e.str)) = Encoded(r)
    BY <2>3
  <2>5. QED
    BY <1>1, <1>2, <1>3, <2>1, <2>4 DEF IsLine
<1>6. QED
  BY <1>4, <1>5

\* Backspace takes the character before the cursor, or at the start the one behind it
\* (texteditor.cpp:69).
LEMMA BackspaceLine ==
  ASSUME NEW e, NEW b, NEW a, IsLine(e, b, a)
  PROVE  /\ b = <<>> => EraseBackwards(e) = EraseAtCursor(e)
         /\ \A c \in CharSizes, r \in Seq(CharSizes) :
              b = r \o <<c>> => IsLine(EraseBackwards(e), r, a)
<1>1. b = <<>> => EraseBackwards(e) = EraseAtCursor(e)
  BY LeftLine DEF EraseBackwards
<1>2. ASSUME NEW c \in CharSizes, NEW r \in Seq(CharSizes), b = r \o <<c>>
      PROVE  IsLine(EraseBackwards(e), r, a)
  <2> DEFINE left == MoveCursorLeft(e)
  <2>1. IsLine(left, r, <<c>> \o a) /\ a \in Seq(CharSizes)
    <3>1. a \in Seq(CharSizes)
      BY DEF IsLine
    <3>2. QED
      BY <1>2, <3>1, LeftLine
  <2> HIDE DEF left
  <2>2. IsLine(EraseAtCursor(left), r, a)
    BY <2>1, EraseLine
  <2>3. QED
    BY <2>2 DEF EraseBackwards, left
<1>3. QED
  BY <1>1, <1>2

-----------------------------------------------------------------------------
(* The inductive invariant.                                                *)

\* The members of Input.
Input ==
  [state : {"Normal", "Text"}, text : Seq(CharSizes), held : [Directions -> Int],
   last : SUBSET Directions, run : BOOLEAN, action : SUBSET Controls,
   begin : SUBSET Controls, ended : SUBSET Controls, shots : SUBSET Shots, exit : BOOLEAN]

\* The editor's bytes are whole characters around its cursor.
EditorOK == \E b, a \in Seq(CharSizes) : IsLine(ed, b, a)

ConsoleOK == lines \in 0 .. MaxLines /\ scrollback \in 0 .. (Word - 1) /\ height \in Heights

HistoryOK ==
  /\ down \subseteq Keys \cup Buttons /\ IsFiniteSet(down)
  /\ missed \subseteq {"text", "numlock", "pause"}
  /\ clicked \subseteq Controls

\* The keys of dn that move in direction d.
HeldFor(dn, d) ==
  {k \in dn : Sym(k, {}) \in DOMAIN KeyDirection /\ KeyDirection[Sym(k, {})] = d}

\* While no event was eaten, the four counters count the keys that are held, and of two
\* opposite directions the one asked for last is remembered once there was one.
MovesOK ==
  missed \cap {"text", "numlock"} = {} =>
    \A d \in Directions :
      /\ in.held[d] = Cardinality(HeldFor(down, d))
      /\ in.held[d] # 0 => d \in in.last \/ Opposite[d] \in in.last

\* An action begins only where its control was pressed; that of a button alone in its
\* control lasts while it is held, and has begun if it was pressed since the last tick.
ClicksOK ==
  /\ in.begin \subseteq clicked
  /\ missed \cap {"text", "pause"} = {} /\ "primary" \in clicked => "primary" \in in.begin
  /\ "text" \notin missed => ("primary" \in in.action <=> "leftButton" \in down)

\* What was given while paused is there only while paused.
PauseOK == paused \in BOOLEAN /\ pausedInput \in BOOLEAN /\ (pausedInput => paused)

IInv ==
  /\ pc \in {"poll", "ticks", "stopped"}
  /\ in \in Input
  /\ EditorOK
  /\ ConsoleOK
  /\ HistoryOK
  /\ MovesOK
  /\ ClicksOK
  /\ PauseOK
  /\ ScrollbackShowsPage

LEMMA IInvTypes == IInv => TypeOK
<1> SUFFICES ASSUME IInv
             PROVE  TypeOK
  OBVIOUS
<1>1. /\ in.state \in {"Normal", "Text"} /\ in.text \in Seq(CharSizes)
      /\ in.held \in [Directions -> Int] /\ in.last \subseteq Directions
      /\ in.run \in BOOLEAN /\ in.exit \in BOOLEAN
      /\ in.action \subseteq Controls /\ in.begin \subseteq Controls
      /\ in.ended \subseteq Controls /\ in.shots \subseteq Shots
  BY DEF IInv, Input
<1>2. ed.str \in Seq(CharSizes \cup {Continuation}) /\ ed.cursor \in Nat
  BY LineParts DEF IInv, EditorOK, Byte
<1>3. lines \in Nat /\ scrollback \in 0 .. (Word - 1) /\ height \in Heights
  BY FrontEndAssumption DEF IInv, ConsoleOK
<1>4. QED
  BY <1>1, <1>2, <1>3 DEF IInv, HistoryOK, PauseOK, TypeOK

\* The names the keyboard is made of.
LEMMA Names ==
  /\ Directions = {"forward", "backward", "strafeLeft", "strafeRight"}
  /\ DOMAIN KeyDirection = {"up", "w", "down", "s", "left", "a", "right", "d"}
  /\ \A k \in DOMAIN KeyDirection : KeyDirection[k] \in Directions
  /\ \A d \in Directions : Opposite[d] \in Directions /\ Opposite[d] # d /\ Opposite[Opposite[d]] = d
  /\ DOMAIN Control = {"leftButton", "rightButton", "middleButton", "q"}
  /\ \A b \in DOMAIN Control : Control[b] \in Controls /\ (Control[b] = "primary" <=> b = "leftButton")
  /\ DOMAIN Keypad = {"kp8", "kp2", "kp4", "kp6", "kp7", "kp1", "kp9", "kp3", "kp0", "kpPeriod"}
  /\ {"fullscreen"} \cup {KeyShot[k] : k \in DOMAIN KeyShot} \subseteq Shots
  /\ "ternary" \in Controls /\ "pause" \in Shots
  /\ DOMAIN KeyShot = {"space", "f1", "f2", "f3", "f4", "pause"}
<1>1. Directions = {"forward", "backward", "strafeLeft", "strafeRight"}
  BY DEF Directions, Opposite
<1>2. DOMAIN KeyDirection = {"up", "w", "down", "s", "left", "a", "right", "d"}
  BY DEF KeyDirection
<1>3. \A k \in DOMAIN KeyDirection : KeyDirection[k] \in Directions
  BY <1>1, <1>2 DEF KeyDirection
<1>4. \A d \in Directions : Opposite[d] \in Directions /\ Opposite[d] # d /\ Opposite[Opposite[d]] = d
  BY <1>1 DEF Opposite
<1>5. DOMAIN Control = {"leftButton", "rightButton", "middleButton", "q"}
  BY DEF Control
<1>6. \A b \in DOMAIN Control : Control[b] \in Controls /\ (Control[b] = "primary" <=> b = "leftButton")
  <2>1. \A b \in DOMAIN Control : Control[b] = "primary" <=> b = "leftButton"
    BY <1>5 DEF Control
  <2>2. QED
    BY <2>1 DEF Controls
<1>7. DOMAIN Keypad = {"kp8", "kp2", "kp4", "kp6", "kp7", "kp1", "kp9", "kp3", "kp0", "kpPeriod"}
  BY DEF Keypad
<1>8. {"fullscreen"} \cup {KeyShot[k] : k \in DOMAIN KeyShot} \subseteq Shots
  BY DEF Shots
<1>9. "ternary" \in Controls
  <2>1. "q" \in DOMAIN Control /\ Control["q"] = "ternary"
    BY DEF Control
  <2>2. QED
    BY <2>1 DEF Controls
<1>10. "pause" \in Shots
  <2>1. "pause" \in DOMAIN KeyShot /\ KeyShot["pause"] = "pause"
    BY DEF KeyShot
  <2>2. QED
    BY <2>1 DEF Shots
<1>11. DOMAIN KeyShot = {"space", "f1", "f2", "f3", "f4", "pause"}
  BY DEF KeyShot
<1>12. QED
  BY <1>1, <1>2, <1>3, <1>4, <1>5, <1>6, <1>7, <1>8, <1>9, <1>10, <1>11

LEMMA InitIInv == Init => IInv
<1> SUFFICES ASSUME Init
             PROVE  IInv
  OBVIOUS
<1>1. in \in Input
  <2>1. <<>> \in Seq(CharSizes) /\ [d \in Directions |-> 0] \in [Directions -> Int]
    BY EmptySeq
  <2>2. QED
    BY <2>1 DEF Init, Input
<1>2. EditorOK
  BY EmptyLine, EmptySeq DEF Init, EditorOK
<1>3. ConsoleOK
  <2>1. height \in 1 .. (Word - 1) /\ Word \in Nat /\ MaxLines \in Nat
    BY FrontEndAssumption DEF Init
  <2>2. QED
    BY <2>1 DEF Init, ConsoleOK
<1>4. HistoryOK
  BY FS_EmptySet DEF Init, HistoryOK
<1>5. MovesOK
  <2>1. Cardinality({}) = 0
    BY FS_EmptySet
  <2>2. \A d : HeldFor(down, d) = {}
    BY DEF Init, HeldFor
  <2>3. \A d \in Directions : in.held[d] = 0
    BY DEF Init
  <2>4. QED
    BY <2>1, <2>2, <2>3 DEF MovesOK
<1>6. ClicksOK /\ PauseOK
  BY DEF Init, ClicksOK, PauseOK
<1>7. ScrollbackShowsPage
  <2>1. height \in 1 .. (Word - 1) /\ lines = 0
    BY FrontEndAssumption DEF Init
  <2>2. QED
    BY <2>1 DEF ScrollbackShowsPage
<1>8. QED
  BY <1>1, <1>2, <1>3, <1>4, <1>5, <1>6, <1>7 DEF Init, IInv

-----------------------------------------------------------------------------
(* What the handlers of input.cpp do to the members of Input.              *)

LEMMA ResetSound ==
  ASSUME NEW i \in Input
  PROVE  /\ Reset(i) \in Input
         /\ Reset(i).held = i.held /\ Reset(i).last = i.last /\ Reset(i).action = i.action
         /\ Reset(i).begin = {}
         /\ ~HasOneShots(Reset(i))
<1>1. <<>> \in Seq(CharSizes)
  BY EmptySeq
<1>2. Reset(i) \in Input
  BY <1>1 DEF Reset, Input
<1>3. /\ Reset(i).held = i.held /\ Reset(i).last = i.last /\ Reset(i).action = i.action
      /\ Reset(i).begin = {} /\ Reset(i).shots = {} /\ Reset(i).ended = {}
      /\ Reset(i).text = <<>>
  BY DEF Reset, Input
<1>4. QED
  BY <1>2, <1>3 DEF HasOneShots, OneShots

LEMMA PressSound ==
  ASSUME NEW i \in Input, NEW c \in Controls
  PROVE  /\ Press(i, c) \in Input
         /\ Press(i, c).held = i.held /\ Press(i, c).last = i.last
         /\ Press(i, c).begin = IF c \in i.action THEN i.begin \ {c} ELSE i.begin \cup {c}
         /\ Press(i, c).action = i.action \cup {c}
<1> DEFINE b == IF c \in i.action THEN i.begin \ {c} ELSE i.begin \cup {c}
           a == i.action \cup {c}
<1>1. Press(i, c) = [i EXCEPT !.begin = b, !.action = a]
  BY DEF Press
<1>2. b \in SUBSET Controls /\ a \in SUBSET Controls
  BY DEF Input
<1> HIDE DEF a, b
<1>3. /\ [i EXCEPT !.begin = b, !.action = a] \in Input
      /\ [i EXCEPT !.begin = b, !.action = a].held = i.held
      /\ [i EXCEPT !.begin = b, !.action = a].last = i.last
      /\ [i EXCEPT !.begin = b, !.action = a].begin = b
      /\ [i EXCEPT !.begin = b, !.action = a].action = a
  BY <1>2 DEF Input
<1>4. QED
  BY <1>1, <1>3 DEF a, b

LEMMA ReleaseSound ==
  ASSUME NEW i \in Input, NEW c \in Controls
  PROVE  /\ Release(i, c) \in Input
         /\ Release(i, c).held = i.held /\ Release(i, c).last = i.last
         /\ Release(i, c).begin = i.begin
         /\ Release(i, c).action = i.action \ {c}
<1> DEFINE a == i.action \ {c}
           n == i.ended \cup {c}
<1>1. Release(i, c) = [i EXCEPT !.action = a, !.ended = n]
  BY DEF Release
<1>2. a \in SUBSET Controls /\ n \in SUBSET Controls
  BY DEF Input
<1> HIDE DEF a, n
<1>3. /\ [i EXCEPT !.action = a, !.ended = n] \in Input
      /\ [i EXCEPT !.action = a, !.ended = n].held = i.held
      /\ [i EXCEPT !.action = a, !.ended = n].last = i.last
      /\ [i EXCEPT !.action = a, !.ended = n].begin = i.begin
      /\ [i EXCEPT !.action = a, !.ended = n].action = a
  BY <1>2 DEF Input
<1>4. QED
  BY <1>1, <1>3 DEF a

\* The members that movement and clicks read.
SameMoves(i, n) == n.held = i.held /\ n.last = i.last
SameClicks(i, n) ==
  /\ n.begin \subseteq i.begin \cup {"ternary"}
  /\ "primary" \in n.begin <=> "primary" \in i.begin
  /\ "primary" \in n.action <=> "primary" \in i.action

\* A key pressed in normal mode counts for its direction, or changes no counter
\* (input.cpp:96); only Q is also a button, and not the primary one.
LEMMA KeyDownSound ==
  ASSUME NEW i \in Input, NEW sym, NEW mods
  PROVE  LET n == NormalKeyDown(i, sym, mods) IN
         /\ n \in Input
         /\ SameClicks(i, n)
         /\ sym # "q" => n.begin = i.begin
         /\ sym \notin DOMAIN KeyDirection => SameMoves(i, n)
         /\ sym \in DOMAIN KeyDirection =>
              LET d == KeyDirection[sym] IN
              /\ n.held = [i.held EXCEPT ![d] = i.held[d] + 1]
              /\ n.last = (i.last \ {Opposite[d]}) \cup {d}
<1> DEFINE n == NormalKeyDown(i, sym, mods)
<1>1. CASE sym \in DOMAIN KeyDirection
  <2> DEFINE d == KeyDirection[sym]
             h == [i.held EXCEPT ![d] = i.held[d] + 1]
             l == (i.last \ {Opposite[d]}) \cup {d}
  <2>1. n = [i EXCEPT !.held = h, !.last = l]
    <3>1. sym \notin {"return", "slash", "escape", "q", "lshift"} \cup DOMAIN KeyShot
      BY <1>1, Names
    <3>2. NormalKeyDown(i, sym, mods)
            = [i EXCEPT !.held[d] = @ + 1, !.last = (@ \ {Opposite[d]}) \cup {d}]
      BY <1>1, <3>1 DEF NormalKeyDown
    <3> HIDE DEF d
    <3>3. QED
      BY <3>2
  <2>2. d \in Directions
    BY <1>1, Names
  <2>3. h \in [Directions -> Int] /\ l \in SUBSET Directions
    <3> HIDE DEF d
    <3>1. QED
      BY <2>2 DEF Input
  <2> HIDE DEF h, l, n
  <2>4. /\ n \in Input /\ n.held = h /\ n.last = l /\ n.begin = i.begin /\ n.action = i.action
    BY <2>1, <2>3 DEF Input
  <2>5. sym # "q"
    BY <1>1, Names
  <2>6. QED
    BY <1>1, <2>4, <2>5 DEF SameClicks, h, l, n
<1>2. CASE sym = "q"
  <2>1. sym \notin DOMAIN KeyDirection /\ sym \notin {"return", "slash", "escape"}
    BY <1>2, Names
  <2>2. n = Press(i, "ternary") /\ "ternary" \in Controls
    <3>1. sym \notin DOMAIN KeyShot \cup {"lshift"}
      BY <1>2, Names
    <3>2. QED
      BY <1>2, <2>1, <3>1, Names DEF NormalKeyDown
  <2> HIDE DEF n
  <2>3. /\ n \in Input /\ n.held = i.held /\ n.last = i.last
        /\ n.begin = IF "ternary" \in i.action THEN i.begin \ {"ternary"} ELSE i.begin \cup {"ternary"}
        /\ n.action = i.action \cup {"ternary"}
    BY <2>2, PressSound
  <2>4. QED
    BY <1>2, <2>1, <2>3 DEF SameClicks, SameMoves, n
<1>3. CASE sym \notin DOMAIN KeyDirection /\ sym # "q"
  <2>1. \/ n = i
        \/ n = [i EXCEPT !.shots = i.shots \cup {"fullscreen"}]
        \/ n = [i EXCEPT !.state = "Text"]
        \/ n = [i EXCEPT !.exit = TRUE]
        \/ n = [i EXCEPT !.run = TRUE]
        \/ sym \in DOMAIN KeyShot /\ n = [i EXCEPT !.shots = i.shots \cup {KeyShot[sym]}]
    BY <1>3 DEF NormalKeyDown
  <2> HIDE DEF n
  <2>2. ASSUME NEW s \in SUBSET Shots, n = [i EXCEPT !.shots = s]
        PROVE  n \in Input /\ SameMoves(i, n) /\ n.begin = i.begin /\ n.action = i.action
    BY <2>2 DEF Input, SameMoves
  <2>3. i.shots \cup {"fullscreen"} \in SUBSET Shots
    BY Names DEF Input
  <2>4. sym \in DOMAIN KeyShot => i.shots \cup {KeyShot[sym]} \in SUBSET Shots
    BY Names DEF Input
  <2>5. \/ n = [i EXCEPT !.state = "Text"]
        \/ n = [i EXCEPT !.exit = TRUE]
        \/ n = [i EXCEPT !.run = TRUE]
        \/ n = i
        => n \in Input /\ SameMoves(i, n) /\ n.begin = i.begin /\ n.action = i.action
    <3>1. ASSUME n = [i EXCEPT !.state = "Text"]
          PROVE  n \in Input /\ SameMoves(i, n) /\ n.begin = i.begin /\ n.action = i.action
      BY <3>1 DEF Input, SameMoves
    <3>2. ASSUME n = [i EXCEPT !.exit = TRUE]
          PROVE  n \in Input /\ SameMoves(i, n) /\ n.begin = i.begin /\ n.action = i.action
      BY <3>2 DEF Input, SameMoves
    <3>3. ASSUME n = [i EXCEPT !.run = TRUE]
          PROVE  n \in Input /\ SameMoves(i, n) /\ n.begin = i.begin /\ n.action = i.action
      BY <3>3 DEF Input, SameMoves
    <3>4. n = i => n \in Input /\ SameMoves(i, n) /\ n.begin = i.begin /\ n.action = i.action
      BY DEF SameMoves
    <3>5. QED
      BY <3>1, <3>2, <3>3, <3>4
  <2>6. n \in Input /\ SameMoves(i, n) /\ n.begin = i.begin /\ n.action = i.action
    BY <2>1, <2>2, <2>3, <2>4, <2>5
  <2>7. QED
    BY <1>3, <2>6 DEF SameClicks, n
<1>4. QED
  BY <1>1, <1>2, <1>3

LEMMA KeyUpSound ==
  ASSUME NEW i \in Input, NEW sym
  PROVE  LET n == NormalKeyUp(i, sym) IN
         /\ n \in Input
         /\ n.begin = i.begin /\ n.last = i.last
         /\ "primary" \in n.action <=> "primary" \in i.action
         /\ sym \notin DOMAIN KeyDirection => n.held = i.held
         /\ sym \in DOMAIN KeyDirection =>
              n.held = [i.held EXCEPT ![KeyDirection[sym]] = i.held[KeyDirection[sym]] - 1]
<1> DEFINE n == NormalKeyUp(i, sym)
<1>1. CASE sym \in DOMAIN KeyDirection
  <2> DEFINE d == KeyDirection[sym]
             h == [i.held EXCEPT ![d] = i.held[d] - 1]
  <2>1. n = [i EXCEPT !.held = h]
    <3>1. NormalKeyUp(i, sym) = [i EXCEPT !.held[d] = @ - 1]
      BY <1>1, Names DEF NormalKeyUp
    <3> HIDE DEF d
    <3>2. QED
      BY <3>1
  <2>2. d \in Directions
    BY <1>1, Names
  <2>3. h \in [Directions -> Int]
    <3> HIDE DEF d
    <3>1. QED
      BY <2>2 DEF Input
  <2> HIDE DEF h, n
  <2>4. n \in Input /\ n.held = h /\ n.last = i.last /\ n.begin = i.begin /\ n.action = i.action
    BY <2>1, <2>3 DEF Input
  <2>5. QED
    BY <1>1, <2>4 DEF h, n
<1>2. CASE sym = "q"
  <2>1. sym \notin DOMAIN KeyDirection
    BY <1>2, Names
  <2>2. n = Release(i, "ternary") /\ "ternary" \in Controls
    BY <1>2, <2>1, Names DEF NormalKeyUp
  <2> HIDE DEF n
  <2>3. /\ n \in Input /\ n.held = i.held /\ n.last = i.last /\ n.begin = i.begin
        /\ n.action = i.action \ {"ternary"}
    BY <2>2, ReleaseSound
  <2>4. QED
    BY <2>1, <2>3 DEF n
<1>3. CASE sym \notin DOMAIN KeyDirection /\ sym # "q"
  <2>1. n = i \/ n = [i EXCEPT !.run = FALSE]
    BY <1>3 DEF NormalKeyUp
  <2> HIDE DEF n
  <2>2. /\ n \in Input /\ n.held = i.held /\ n.last = i.last /\ n.begin = i.begin
        /\ n.action = i.action
    BY <2>1 DEF Input
  <2>3. QED
    BY <1>3, <2>2 DEF n
<1>4. QED
  BY <1>1, <1>2, <1>3

-----------------------------------------------------------------------------
(* Keys and directions.                                                    *)

\* NumLock takes a keypad key away, and nothing else changes what a key means.
LEMMA SymProperties ==
  ASSUME NEW key, NEW mods
  PROVE  /\ ~(key \in DOMAIN Keypad /\ "num" \in mods) => Sym(key, mods) = Sym(key, {})
         /\ key \in DOMAIN Keypad /\ "num" \in mods => Sym(key, mods) \notin DOMAIN KeyDirection
         /\ ~Holdable(key) => Sym(key, {}) \notin DOMAIN KeyDirection
         /\ Sym(key, mods) = "q" => key = "q"
         /\ key \in {"leftButton", "rightButton", "middleButton"} =>
              Sym(key, {}) \notin DOMAIN KeyDirection /\ Holdable(key)
<1>1. ~(key \in DOMAIN Keypad /\ "num" \in mods) => Sym(key, mods) = Sym(key, {})
  BY DEF Sym
<1>2. key \in DOMAIN Keypad /\ "num" \in mods => Sym(key, mods) \notin DOMAIN KeyDirection
  BY Names DEF Sym
<1>3. ~Holdable(key) => Sym(key, {}) \notin DOMAIN KeyDirection
  BY DEF Sym, Holdable
<1>4. Sym(key, mods) = "q" => key = "q"
  <2>1. \A k \in DOMAIN Keypad : Keypad[k] # "q"
    BY Names DEF Keypad
  <2>2. QED
    BY <2>1 DEF Sym
<1>5. key \in {"leftButton", "rightButton", "middleButton"} =>
        Sym(key, {}) \notin DOMAIN KeyDirection /\ Holdable(key)
  <2> SUFFICES ASSUME key \in {"leftButton", "rightButton", "middleButton"}
               PROVE  Sym(key, {}) \notin DOMAIN KeyDirection /\ Holdable(key)
    OBVIOUS
  <2>1. key \notin DOMAIN Keypad /\ key \notin DOMAIN KeyDirection /\ key \in DOMAIN Control
    BY Names
  <2>2. QED
    BY <2>1 DEF Sym, Holdable
<1>6. QED
  BY <1>1, <1>2, <1>3, <1>4, <1>5

\* A key counts for its direction, and one without a direction for none.
LEMMA HeldForCounts ==
  ASSUME NEW dn, IsFiniteSet(dn), NEW k, NEW d
  PROVE  /\ Cardinality(HeldFor(dn, d)) \in Nat
         /\ Sym(k, {}) \notin DOMAIN KeyDirection =>
              HeldFor(dn \cup {k}, d) = HeldFor(dn, d) /\ HeldFor(dn \ {k}, d) = HeldFor(dn, d)
         /\ Sym(k, {}) \in DOMAIN KeyDirection /\ KeyDirection[Sym(k, {})] # d =>
              HeldFor(dn \cup {k}, d) = HeldFor(dn, d) /\ HeldFor(dn \ {k}, d) = HeldFor(dn, d)
         /\ Sym(k, {}) \in DOMAIN KeyDirection /\ KeyDirection[Sym(k, {})] = d =>
              /\ k \notin dn =>
                   Cardinality(HeldFor(dn \cup {k}, d)) = Cardinality(HeldFor(dn, d)) + 1
              /\ k \in dn =>
                   Cardinality(HeldFor(dn \ {k}, d)) = Cardinality(HeldFor(dn, d)) - 1
<1> DEFINE H == HeldFor(dn, d)
<1>1. IsFiniteSet(H)
  <2>1. H \subseteq dn
    BY DEF HeldFor
  <2> HIDE DEF H
  <2>2. QED
    BY <2>1, FS_Subset
<1>2. Cardinality(H) \in Nat
  BY <1>1, FS_CardinalityType
<1>3. Sym(k, {}) \notin DOMAIN KeyDirection \/ KeyDirection[Sym(k, {})] # d =>
        HeldFor(dn \cup {k}, d) = H /\ HeldFor(dn \ {k}, d) = H
  BY DEF HeldFor
<1>4. ASSUME Sym(k, {}) \in DOMAIN KeyDirection, KeyDirection[Sym(k, {})] = d, k \notin dn
      PROVE  Cardinality(HeldFor(dn \cup {k}, d)) = Cardinality(H) + 1
  <2>1. HeldFor(dn \cup {k}, d) = H \cup {k} /\ k \notin H
    BY <1>4 DEF HeldFor
  <2> HIDE DEF H
  <2>2. QED
    BY <1>1, <2>1, FS_AddElement
<1>5. ASSUME Sym(k, {}) \in DOMAIN KeyDirection, KeyDirection[Sym(k, {})] = d, k \in dn
      PROVE  Cardinality(HeldFor(dn \ {k}, d)) = Cardinality(H) - 1
  <2>1. HeldFor(dn \ {k}, d) = H \ {k} /\ k \in H
    BY <1>5 DEF HeldFor
  <2> HIDE DEF H
  <2>2. QED
    BY <1>1, <2>1, FS_RemoveElement
<1>6. QED
  BY <1>2, <1>3, <1>4, <1>5

-----------------------------------------------------------------------------
(* The user's side of an event, and what events leave alone.               *)

LEMMA PushedSound ==
  ASSUME HistoryOK, PauseOK, paused' = paused, NEW key \in Keys \cup Buttons, NEW mods,
         NEW repeat \in BOOLEAN, Pushed(key, mods, repeat)
  PROVE  /\ HistoryOK' /\ PauseOK'
         /\ missed \subseteq missed' /\ clicked \subseteq clicked'
         /\ down' = IF Holdable(key) THEN down \cup {key} ELSE down
<1>1. down' = IF Holdable(key) THEN down \cup {key} ELSE down
  BY DEF Pushed
<1>2. IsFiniteSet(down')
  BY <1>1, FS_AddElement DEF HistoryOK
<1>3. Misses(key, mods) \subseteq {"text", "numlock"}
  BY DEF Misses
<1>4. missed \subseteq missed' /\ missed' \subseteq {"text", "numlock", "pause"}
  BY <1>3 DEF Pushed, HistoryOK
<1>5. clicked \subseteq clicked' /\ clicked' \subseteq Controls
  BY DEF Pushed, HistoryOK, Controls
<1>6. PauseOK'
  BY DEF Pushed, NotePaused, PauseOK
<1>7. QED
  BY <1>1, <1>2, <1>4, <1>5, <1>6 DEF HistoryOK

LEMMA LetGoSound ==
  ASSUME HistoryOK, PauseOK, paused' = paused, NEW key, NEW mods, LetGo(key, mods)
  PROVE  /\ HistoryOK' /\ PauseOK'
         /\ missed \subseteq missed'
         /\ key \in down /\ down' = down \ {key}
<1>1. key \in down /\ down' = down \ {key}
  BY DEF LetGo
<1>2. IsFiniteSet(down')
  BY <1>1, FS_RemoveElement DEF HistoryOK
<1>3. Misses(key, mods) \subseteq {"text", "numlock"}
  BY DEF Misses
<1>4. missed \subseteq missed' /\ missed' \subseteq {"text", "numlock", "pause"}
  BY <1>3 DEF LetGo, HistoryOK
<1>5. PauseOK'
  BY DEF LetGo, NotePaused, PauseOK
<1>6. QED
  BY <1>1, <1>2, <1>4, <1>5 DEF HistoryOK, LetGo

LEMMA MovesKept ==
  ASSUME MovesOK, SameMoves(in, in'), missed \subseteq missed',
         \A d \in Directions : HeldFor(down', d) = HeldFor(down, d)
  PROVE  MovesOK'
BY DEF MovesOK, SameMoves

LEMMA ClicksKept ==
  ASSUME ClicksOK, in'.begin \subseteq clicked',
         "primary" \in in'.begin <=> "primary" \in in.begin,
         "primary" \in in'.action <=> "primary" \in in.action,
         missed \subseteq missed', "primary" \in clicked' <=> "primary" \in clicked,
         "leftButton" \in down' <=> "leftButton" \in down
  PROVE  ClicksOK'
BY DEF ClicksOK

\* Nothing but the edits touches the editor.
LEMMA EditorKept ==
  ASSUME EditorOK, ed' = ed
  PROVE  EditorOK'
BY DEF EditorOK

LEMMA ConsoleKept ==
  ASSUME ConsoleOK, ScrollbackShowsPage, UNCHANGED console
  PROVE  ConsoleOK' /\ ScrollbackShowsPage'
BY DEF ConsoleOK, ScrollbackShowsPage, console

-----------------------------------------------------------------------------
(* Scrolling and printing.                                                 *)

LEMMA SmallMod ==
  ASSUME NEW w \in Nat \ {0}, NEW n \in Int
  PROVE  n % w \in 0 .. (w - 1) /\ (n \in 0 .. (w - 1) => n % w = n)
OBVIOUS

\* Scrolling shows a full page when there is one, in spite of unsigned arithmetic
\* (console.cpp:62).
LEMMA ScrolledSound ==
  ASSUME ConsoleOK, ScrollbackShowsPage, NEW sym, NEW mods, scrollback' = Scrolled(sym, mods),
         lines' = lines, height' = height
  PROVE  ConsoleOK' /\ ScrollbackShowsPage'
<1>1. /\ lines \in Nat /\ lines < Word /\ height \in Nat \ {0} /\ scrollback \in 0 .. (Word - 1)
      /\ Word \in Nat \ {0}
      /\ lines >= height => scrollback <= lines - height
  BY FrontEndAssumption DEF ConsoleOK, ScrollbackShowsPage
<1> DEFINE m == (scrollback + height) % Word
           r == (lines - height) % Word
<1>2. m \in 0 .. (Word - 1) /\ r \in 0 .. (Word - 1)
  BY <1>1, SmallMod
<1>3. lines >= height => r = lines - height
  <2>1. lines >= height => lines - height \in 0 .. (Word - 1)
    BY <1>1
  <2>2. lines - height \in Int
    BY <1>1
  <2>3. QED
    BY <1>1, <2>1, <2>2, SmallMod
<1> HIDE DEF m, r
<1>4. PageUp \in {m, r} /\ PageUp <= r
  BY <1>1, <1>2 DEF PageUp, Smaller, m, r
<1>5. Smaller(height, scrollback) \in 0 .. scrollback
  BY <1>1 DEF Smaller
<1>6. \/ scrollback' = PageUp
      \/ scrollback' = scrollback - Smaller(height, scrollback)
      \/ scrollback' = r
      \/ scrollback' = 0
      \/ scrollback' = scrollback
  BY DEF Scrolled, r
<1>7. /\ scrollback' \in 0 .. (Word - 1)
      /\ lines >= height => scrollback' <= lines - height
  <2> HIDE DEF PageUp
  <2> DEFINE q == Smaller(height, scrollback)
  <2> HIDE DEF q
  <2>1. q \in 0 .. scrollback
    BY <1>5 DEF q
  <2>2. \/ scrollback' = PageUp \/ scrollback' = scrollback - q
        \/ scrollback' = r \/ scrollback' = 0 \/ scrollback' = scrollback
    BY <1>6 DEF q
  <2>3. QED
    BY <1>1, <1>2, <1>3, <1>4, <2>1, <2>2
<1>8. QED
  BY <1>7 DEF ConsoleOK, ScrollbackShowsPage

\* Printing shows the newest lines, so the font may change as long as something is printed.
LEMMA PrintlnSound ==
  ASSUME ConsoleOK, ScrollbackShowsPage, NEW n \in Nat, Println(n), height' \in Heights,
         n = 0 => height' = height
  PROVE  ConsoleOK' /\ ScrollbackShowsPage'
<1>1. /\ lines \in 0 .. MaxLines /\ scrollback \in 0 .. (Word - 1) /\ MaxLines \in Nat
      /\ height \in 1 .. (Word - 1) /\ height' \in 1 .. (Word - 1) /\ Word \in Nat
  BY FrontEndAssumption DEF ConsoleOK
<1>2. lines' = lines + n /\ lines + n <= MaxLines
      /\ scrollback' = IF n > 0 THEN 0 ELSE scrollback
  BY DEF Println
<1>3. ConsoleOK'
  BY <1>1, <1>2 DEF ConsoleOK
<1>4. CASE n = 0
  <2>1. lines' = lines /\ scrollback' = scrollback /\ height' = height
    BY <1>1, <1>2, <1>4
  <2>2. QED
    BY <1>3, <2>1 DEF ScrollbackShowsPage
<1>5. CASE n # 0
  <2>1. scrollback' = 0 /\ lines' \in Int /\ height' \in Int
    BY <1>1, <1>2, <1>5
  <2> DEFINE l == lines'
             h == height'
  <2>2. l \in Int /\ h \in Int => (l >= h => 0 <= l - h)
    <3> HIDE DEF l, h
    <3>1. QED
      OBVIOUS
  <2>3. lines' >= height' => scrollback' <= lines' - height'
    BY <2>1, <2>2
  <2>4. QED
    BY <1>3, <2>3 DEF ScrollbackShowsPage
<1>6. QED
  BY <1>4, <1>5

-----------------------------------------------------------------------------
(* The editor's steps are those of LineEdit.                               *)

LEMMA TextsAreSeqs == Texts \subseteq Seq(CharSizes)
<1>1. \A m \in 0 .. 2 : \A t \in [1 .. m -> CharSizes] : t \in Seq(CharSizes)
  BY FunctionIsSeq
<1>2. QED
  BY <1>1 DEF Texts, SeqOf

\* What a step may do to the editor.
Edited ==
  \/ ed' \in {ed, Empty, EraseBackwards(ed), EraseAtCursor(ed), MoveCursorLeft(ed),
              MoveCursorRight(ed), HomeCursor(ed), EndCursor(ed)}
  \/ \E t \in Texts : ed' = AddString(ed, t)

\* Each edit of bytes is an edit of characters, or changes nothing a reader sees.
LEMMA EditSound ==
  ASSUME EditorOK, Edited
  PROVE  EditorOK' /\ [Line!Next]_(Line!vars)
<1>1. PICK b \in Seq(CharSizes), a \in Seq(CharSizes) : IsLine(ed, b, a)
  BY DEF EditorOK
<1>2. Before(ed) = b /\ After(ed) = a
  BY <1>1, LineShows
<1>3. ASSUME NEW b2 \in Seq(CharSizes), NEW a2 \in Seq(CharSizes), IsLine(ed', b2, a2)
      PROVE  EditorOK' /\ Before(ed') = b2 /\ After(ed') = a2
  BY <1>3, LineShows DEF EditorOK
<1>4. /\ a # <<>> => /\ Head(a) \in CharSizes /\ Tail(a) \in Seq(CharSizes)
                     /\ a = <<Head(a)>> \o Tail(a)
                     /\ b \o <<Head(a)>> = Append(b, Head(a)) /\ b \o <<Head(a)>> \in Seq(CharSizes)
      /\ b # <<>> => /\ Last(b) \in CharSizes /\ Front(b) \in Seq(CharSizes)
                     /\ b = Front(b) \o <<Last(b)>>
                     /\ <<Last(b)>> \o a \in Seq(CharSizes)
  <2>1. ASSUME a # <<>>
        PROVE  /\ Head(a) \in CharSizes /\ Tail(a) \in Seq(CharSizes)
               /\ a = <<Head(a)>> \o Tail(a)
               /\ b \o <<Head(a)>> = Append(b, Head(a)) /\ b \o <<Head(a)>> \in Seq(CharSizes)
    BY <2>1, EndsOfSeq, AppendIsConcat, AppendProperties
  <2>2. ASSUME b # <<>>
        PROVE  /\ Last(b) \in CharSizes /\ Front(b) \in Seq(CharSizes)
               /\ b = Front(b) \o <<Last(b)>>
               /\ <<Last(b)>> \o a \in Seq(CharSizes)
    <3>1. Last(b) \in CharSizes /\ Front(b) \in Seq(CharSizes) /\ b = Append(Front(b), Last(b))
      BY <2>2, EndsOfSeq
    <3>2. <<Last(b)>> \in Seq(CharSizes)
      BY <3>1
    <3>3. QED
      BY <3>1, <3>2, AppendIsConcat, ConcatProperties
  <2>3. QED
    BY <2>1, <2>2
<1>5. CASE ed' = ed
  BY <1>5 DEF EditorOK, Line!vars
<1>6. CASE ed' = Empty
  <2>1. IsLine(ed', <<>>, <<>>) /\ <<>> \in Seq(CharSizes)
    BY <1>6, EmptyLine, EmptySeq
  <2>2. EditorOK' /\ Before(ed') = <<>> /\ After(ed') = <<>>
    BY <1>3, <2>1
  <2>3. QED
    BY <2>2 DEF Line!Next, Line!Clear
<1>7. ASSUME NEW t \in Texts, ed' = AddString(ed, t)
      PROVE  EditorOK' /\ [Line!Next]_(Line!vars)
  <2>1. t \in Seq(CharSizes) /\ b \o t \in Seq(CharSizes)
    BY TextsAreSeqs, ConcatProperties
  <2>2. IsLine(ed', b \o t, a)
    BY <1>1, <1>7, <2>1, AddStringLine
  <2>3. EditorOK' /\ Before(ed') = b \o t /\ After(ed') = a
    BY <1>3, <2>1, <2>2
  <2>4. Line!Insert(t)
    BY <1>2, <2>3 DEF Line!Insert
  <2>5. QED
    BY <2>3, <2>4 DEF Line!Next
<1>8. ASSUME a # <<>>, ed' = EraseAtCursor(ed)
      PROVE  EditorOK' /\ Line!DeleteNext
  <2>1. IsLine(ed', b, Tail(a))
    BY <1>1, <1>4, <1>8, EraseLine
  <2>2. EditorOK' /\ Before(ed') = b /\ After(ed') = Tail(a)
    BY <1>3, <1>4, <1>8, <2>1
  <2>3. QED
    BY <1>2, <1>8, <2>2 DEF Line!DeleteNext
<1>9. CASE ed' = EraseAtCursor(ed)
  <2>1. CASE a = <<>>
    BY <1>1, <1>5, <1>9, <2>1, EraseLine
  <2>2. CASE a # <<>>
    BY <1>8, <1>9, <2>2 DEF Line!Next
  <2>3. QED
    BY <2>1, <2>2
<1>10. CASE ed' = EraseBackwards(ed)
  <2>1. CASE b = <<>>
    <3>1. ed' = EraseAtCursor(ed)
      BY <1>1, <1>10, <2>1, BackspaceLine
    <3>2. QED
      BY <1>9, <3>1
  <2>2. CASE b # <<>>
    <3>1. IsLine(ed', Front(b), a)
      BY <1>1, <1>4, <1>10, <2>2, BackspaceLine
    <3>2. EditorOK' /\ Before(ed') = Front(b) /\ After(ed') = a
      BY <1>3, <1>4, <2>2, <3>1
    <3>3. Line!Backspace
      <4>1. Line!Front(b) = Front(b)
        BY DEF Line!Front, Front
      <4>2. QED
        BY <1>2, <2>2, <3>2, <4>1 DEF Line!Backspace, Line!DeletePrevious
    <3>4. QED
      BY <3>2, <3>3 DEF Line!Next
  <2>3. QED
    BY <2>1, <2>2
<1>11. CASE ed' = MoveCursorLeft(ed)
  <2>1. CASE b = <<>>
    BY <1>1, <1>5, <1>11, <2>1, LeftLine
  <2>2. CASE b # <<>>
    <3>1. IsLine(ed', Front(b), <<Last(b)>> \o a)
      BY <1>1, <1>4, <1>11, <2>2, LeftLine
    <3>2. EditorOK' /\ Before(ed') = Front(b) /\ After(ed') = <<Last(b)>> \o a
      BY <1>3, <1>4, <2>2, <3>1
    <3>3. Line!Left
      <4>1. Line!Front(b) = Front(b) /\ Line!Last(b) = Last(b)
        BY DEF Line!Front, Front, Line!Last, Last
      <4>2. QED
        BY <1>2, <2>2, <3>2, <4>1 DEF Line!Left
    <3>4. QED
      BY <3>2, <3>3 DEF Line!Next
  <2>3. QED
    BY <2>1, <2>2
<1>12. CASE ed' = MoveCursorRight(ed)
  <2>1. CASE a = <<>>
    BY <1>1, <1>5, <1>12, <2>1, RightLine
  <2>2. CASE a # <<>>
    <3>1. IsLine(ed', b \o <<Head(a)>>, Tail(a))
      BY <1>1, <1>4, <1>12, <2>2, RightLine
    <3>2. EditorOK' /\ Before(ed') = Append(b, Head(a)) /\ After(ed') = Tail(a)
      BY <1>3, <1>4, <2>2, <3>1
    <3>3. Line!Right
      BY <1>2, <2>2, <3>2 DEF Line!Right
    <3>4. QED
      BY <3>2, <3>3 DEF Line!Next
  <2>3. QED
    BY <2>1, <2>2
<1>13. /\ b \o a \in Seq(CharSizes) /\ <<>> \in Seq(CharSizes)
  BY ConcatProperties, EmptySeq
<1>14. CASE ed' = HomeCursor(ed)
  <2>1. IsLine(ed', <<>>, b \o a)
    BY <1>1, <1>14, HomeLine
  <2>2. EditorOK' /\ Before(ed') = <<>> /\ After(ed') = b \o a
    BY <1>3, <1>13, <2>1
  <2>3. Line!Home
    BY <1>2, <2>2 DEF Line!Home
  <2>4. QED
    BY <2>2, <2>3 DEF Line!Next
<1>15. CASE ed' = EndCursor(ed)
  <2>1. IsLine(ed', b \o a, <<>>)
    BY <1>1, <1>15, EndLine
  <2>2. EditorOK' /\ Before(ed') = b \o a /\ After(ed') = <<>>
    BY <1>3, <1>13, <2>1
  <2>3. Line!End
    BY <1>2, <2>2 DEF Line!End
  <2>4. QED
    BY <2>2, <2>3 DEF Line!Next
<1>16. QED
  BY <1>5, <1>6, <1>7, <1>9, <1>10, <1>11, <1>12, <1>14, <1>15 DEF Edited

\* No other code touches the editor.
LEMMA NextEdited ==
  ASSUME [Next]_vars
  PROVE  Edited
<1>1. CASE UNCHANGED vars
  BY <1>1 DEF vars, Edited
<1>2. ASSUME NEW key \in Keys, NEW mods \in Mods, NEW repeat \in BOOLEAN,
             NormalKeyPressed(key, mods, repeat)
      PROVE  Edited
  BY <1>2 DEF NormalKeyPressed, Edited
<1>3. ASSUME NEW key \in Keys, NEW mods \in Mods, NEW repeat \in BOOLEAN,
             TextKeyPressed(key, mods, repeat)
      PROVE  Edited
  BY <1>3 DEF TextKeyPressed, Edited
<1>4. ASSUME NEW key \in Keys, NEW mods \in Mods, NEW repeat \in BOOLEAN, NEW clip \in Texts,
             PasteKeyPressed(key, mods, repeat, clip)
      PROVE  Edited
  BY <1>4 DEF PasteKeyPressed, Edited
<1>5. ASSUME NEW text \in Texts, TextTyped(text)
      PROVE  Edited
  BY <1>5 DEF TextTyped, Edited
<1>6. ASSUME NEW key \in Keys, NEW mods \in Mods, KeyReleased(key, mods)
      PROVE  Edited
  BY <1>6 DEF KeyReleased, Edited
<1>7. ASSUME NEW button \in Buttons, ButtonPressed(button) \/ ButtonReleased(button)
      PROVE  Edited
  BY <1>7 DEF ButtonPressed, ButtonReleased, Edited
<1>8. CASE WindowClosed \/ InputHandled \/ Tick \/ FrameDrawn
  BY <1>8 DEF WindowClosed, InputHandled, Tick, FrameDrawn, Edited
<1>9. QED
  BY <1>1, <1>2, <1>3, <1>4, <1>5, <1>6, <1>7, <1>8 DEF Next

-----------------------------------------------------------------------------
(* The steps: keys.                                                        *)

\* A key pressed in normal mode is counted once, however often it repeats (input.cpp:79).
LEMMA NormalKeyPressedIInv ==
  ASSUME IInv, NEW key \in Keys, NEW mods \in Mods, NEW repeat \in BOOLEAN,
         NormalKeyPressed(key, mods, repeat)
  PROVE  IInv'
<1> DEFINE sym == Sym(key, mods)
<1>1. /\ in.state = "Normal" /\ scrollback' = Scrolled(sym, mods)
      /\ in' = IF Scrolls(sym, mods) \/ repeat THEN in ELSE NormalKeyDown(in, sym, mods)
      /\ Pushed(key, mods, repeat)
      /\ UNCHANGED <<pc, ed, lines, height, paused>>
  BY DEF NormalKeyPressed
<1>2. /\ HistoryOK' /\ PauseOK'
      /\ missed \subseteq missed' /\ clicked \subseteq clicked'
      /\ down' = IF Holdable(key) THEN down \cup {key} ELSE down
  BY <1>1, PushedSound DEF IInv
<1>3. /\ in' \in Input /\ SameClicks(in, in')
      /\ sym \notin DOMAIN KeyDirection => SameMoves(in, in')
      /\ repeat => in' = in
      /\ sym # "q" => in'.begin = in.begin
  <2>1. in \in Input /\ SameClicks(in, in) /\ SameMoves(in, in)
    BY DEF IInv, SameClicks, SameMoves
  <2> DEFINE n == NormalKeyDown(in, sym, mods)
  <2> HIDE DEF sym
  <2>2. /\ n \in Input /\ SameClicks(in, n)
        /\ sym # "q" => n.begin = in.begin
        /\ sym \notin DOMAIN KeyDirection => SameMoves(in, n)
    <3> HIDE DEF n
    <3>1. /\ n \in Input
          /\ SameClicks(in, n)
          /\ sym # "q" => n.begin = in.begin
          /\ sym \notin DOMAIN KeyDirection => SameMoves(in, n)
          /\ sym \in DOMAIN KeyDirection =>
               LET d == KeyDirection[sym] IN
               /\ n.held = [in.held EXCEPT ![d] = in.held[d] + 1]
               /\ n.last = (in.last \ {Opposite[d]}) \cup {d}
      BY <2>1, KeyDownSound, Zenon DEF n
    <3>2. QED
      BY <3>1
  <2>3. in' = in \/ (in' = n /\ ~repeat)
    BY <1>1
  <2> HIDE DEF n
  <2>4. CASE in' = in
    BY <2>1, <2>4
  <2>5. CASE in' = n /\ ~repeat
    BY <2>2, <2>5
  <2>6. QED
    BY <2>3, <2>4, <2>5
<1>4. EditorOK' /\ ConsoleOK' /\ ScrollbackShowsPage'
  BY <1>1, EditorKept, ScrolledSound DEF IInv
<1>5. key \notin {"leftButton", "rightButton", "middleButton"}
  BY FrontEndAssumption
<1>6. ClicksOK'
  <2>1. /\ "primary" \in clicked' <=> "primary" \in clicked
        /\ key = "q" /\ ~repeat => "ternary" \in clicked'
    <3>1. key \in DOMAIN Control => key = "q" /\ Control[key] = "ternary"
      BY <1>5, Names DEF Control
    <3>2. "q" \in DOMAIN Control
      BY Names
    <3>3. QED
      BY <1>1, <3>1, <3>2 DEF Pushed
  <2>2. in'.begin \subseteq clicked'
    <3>1. in.begin \subseteq clicked
      BY DEF IInv, ClicksOK
    <3>2. CASE sym # "q" \/ repeat
      BY <1>2, <1>3, <3>1, <3>2
    <3>3. CASE sym = "q" /\ ~repeat
      <4>1. key = "q"
        BY <3>3, SymProperties
      <4>2. QED
        BY <1>2, <1>3, <2>1, <3>1, <3>3, <4>1 DEF SameClicks
    <3>4. QED
      BY <3>2, <3>3
  <2>3. "leftButton" \in down' <=> "leftButton" \in down
    BY <1>2, <1>5
  <2>4. QED
    BY <1>2, <1>3, <2>1, <2>2, <2>3, ClicksKept DEF IInv, SameClicks
<1>7. MovesOK'
  <2>1. IsFiniteSet(down) /\ MovesOK
    BY DEF IInv, HistoryOK
  <2>2. CASE repeat
    <3>1. down' = down
      BY <1>1, <1>2, <2>2 DEF Pushed
    <3>2. QED
      BY <1>2, <1>3, <2>1, <2>2, <3>1, MovesKept DEF SameMoves
  <2>3. CASE ~repeat /\ sym \notin DOMAIN KeyDirection
    <3>1. CASE Sym(key, {}) \in DOMAIN KeyDirection
      <4>1. key \in DOMAIN Keypad /\ "num" \in mods /\ Holdable(key)
        BY <2>3, <3>1, SymProperties, Zenon
      <4>2. "numlock" \in missed'
        BY <1>1, <2>3, <4>1 DEF Pushed, Misses
      <4>3. QED
        BY <4>2 DEF MovesOK
    <3>2. CASE Sym(key, {}) \notin DOMAIN KeyDirection
      <4>1. \A d \in Directions : HeldFor(down', d) = HeldFor(down, d)
        <5>1. \A d \in Directions : /\ HeldFor(down \cup {key}, d) = HeldFor(down, d)
                                     /\ HeldFor(down \ {key}, d) = HeldFor(down, d)
          BY <2>1, <3>2, HeldForCounts
        <5>2. QED
          BY <1>2, <5>1
      <4>2. QED
        BY <1>2, <1>3, <2>1, <2>3, <4>1, MovesKept
    <3>3. QED
      BY <3>1, <3>2
  <2>4. CASE ~repeat /\ sym \in DOMAIN KeyDirection
    <3> DEFINE c == KeyDirection[sym]
    <3>1. ~(key \in DOMAIN Keypad /\ "num" \in mods)
      BY <2>4, SymProperties
    <3>2. Sym(key, {}) = sym /\ Holdable(key) /\ key \notin down /\ down' = down \cup {key}
      BY <1>1, <1>2, <2>4, <3>1, SymProperties DEF Pushed
    <3>3. ~Scrolls(sym, mods)
      BY <2>4, Names DEF Scrolls
    <3>4. c \in Directions
      BY <2>4, Names
    <3>5. /\ in'.held = [in.held EXCEPT ![c] = in.held[c] + 1]
          /\ in'.last = (in.last \ {Opposite[c]}) \cup {c}
      BY <1>1, <2>4, <3>3, KeyDownSound DEF IInv
    <3>6. in.held \in [Directions -> Int]
      BY DEF IInv, Input
    <3>7. \A d \in Directions :
            Cardinality(HeldFor(down', d)) =
              IF d = c THEN Cardinality(HeldFor(down, d)) + 1 ELSE Cardinality(HeldFor(down, d))
      BY <2>1, <2>4, <3>2, HeldForCounts
    <3> HIDE DEF c
    <3>8. SUFFICES ASSUME missed' \cap {"text", "numlock"} = {}, NEW d \in Directions
                   PROVE  /\ in'.held[d] = Cardinality(HeldFor(down', d))
                          /\ in'.held[d] # 0 => d \in in'.last \/ Opposite[d] \in in'.last
      BY DEF MovesOK
    <3>9. /\ in.held[d] = Cardinality(HeldFor(down, d))
          /\ in.held[d] # 0 => d \in in.last \/ Opposite[d] \in in.last
      BY <1>2, <2>1, <3>8 DEF MovesOK
    <3>10. in'.held[d] = Cardinality(HeldFor(down', d))
      BY <3>4, <3>5, <3>6, <3>7, <3>9
    <3>11. CASE d = c \/ d = Opposite[c]
      BY <3>4, <3>5, <3>10, <3>11, Names
    <3>12. CASE d # c /\ d # Opposite[c]
      <4>1. in'.held[d] = in.held[d]
        BY <3>5, <3>6, <3>12
      <4>2. Opposite[d] # Opposite[c]
        BY <3>4, <3>12, Names
      <4>3. QED
        BY <3>5, <3>9, <3>10, <3>12, <4>1, <4>2
    <3>13. QED
      BY <3>10, <3>11, <3>12
  <2>5. QED
    BY <2>2, <2>3, <2>4
<1>8. QED
  BY <1>1, <1>2, <1>3, <1>4, <1>6, <1>7 DEF IInv

\* In text mode a key that counts when held is noted as eaten, and any other counts for
\* nothing (input.cpp:268).
LEMMA TextPushKept ==
  ASSUME IInv, in.state = "Text", NEW key \in Keys, NEW mods, NEW repeat \in BOOLEAN,
         Pushed(key, mods, repeat), SameMoves(in, in'), in'.begin = in.begin,
         in'.action = in.action, paused' = paused
  PROVE  HistoryOK' /\ PauseOK' /\ MovesOK' /\ ClicksOK'
<1>1. /\ HistoryOK' /\ PauseOK'
      /\ missed \subseteq missed' /\ clicked' = clicked
      /\ down' = IF Holdable(key) THEN down \cup {key} ELSE down
  BY PushedSound DEF IInv, Pushed
<1>2. "text" \in missed' \/ down' = down
  BY <1>1 DEF Pushed, Misses
<1>3. MovesOK'
  <2>1. CASE "text" \in missed'
    BY <2>1 DEF MovesOK
  <2>2. CASE down' = down
    BY <1>1, <2>2, MovesKept DEF IInv
  <2>3. QED
    BY <1>2, <2>1, <2>2
<1>4. "leftButton" \in down' <=> "leftButton" \in down
  BY <1>1, FrontEndAssumption
<1>5. ClicksOK'
  BY <1>1, <1>4, ClicksKept DEF IInv, ClicksOK
<1>6. QED
  BY <1>1, <1>3, <1>5

LEMMA PasteKeyPressedIInv ==
  ASSUME IInv, NEW key \in Keys, NEW mods \in Mods, NEW repeat \in BOOLEAN, NEW clip \in Texts,
         PasteKeyPressed(key, mods, repeat, clip), EditorOK'
  PROVE  IInv'
<1>1. /\ in.state = "Text" /\ Pushed(key, mods, repeat)
      /\ UNCHANGED <<pc, in, console, paused>>
  BY DEF PasteKeyPressed
<1>2. HistoryOK' /\ PauseOK' /\ MovesOK' /\ ClicksOK'
  BY <1>1, TextPushKept DEF SameMoves
<1>3. ConsoleOK' /\ ScrollbackShowsPage'
  BY <1>1, ConsoleKept DEF IInv
<1>4. QED
  BY <1>1, <1>2, <1>3 DEF IInv

LEMMA TextKeyPressedIInv ==
  ASSUME IInv, NEW key \in Keys, NEW mods \in Mods, NEW repeat \in BOOLEAN,
         TextKeyPressed(key, mods, repeat), EditorOK'
  PROVE  IInv'
<1> DEFINE text == in.text \o Chars(ed.str)
<1>1. /\ in.state = "Text" /\ Pushed(key, mods, repeat)
      /\ \/ in' = [in EXCEPT !.state = "Normal", !.text = text]
         \/ in' = [in EXCEPT !.state = "Normal"]
         \/ in' = in
      /\ UNCHANGED <<pc, console, paused>>
  BY DEF TextKeyPressed
<1>2. text \in Seq(CharSizes)
  <2>1. in.text \in Seq(CharSizes)
    BY DEF IInv, Input
  <2>2. Chars(ed.str) \in Seq(CharSizes)
    <3>1. ed.str \in Seq(Byte)
      BY LineParts DEF IInv, EditorOK
    <3>2. QED
      BY <3>1, CharsProperties
  <2>3. QED
    BY <2>1, <2>2, ConcatProperties
<1> HIDE DEF text
<1>3. /\ in' \in Input /\ SameMoves(in, in')
      /\ in'.begin = in.begin /\ in'.action = in.action
  <2>1. in \in Input
    BY DEF IInv
  <2>2. CASE in' = [in EXCEPT !.state = "Normal", !.text = text]
    BY <1>2, <2>1, <2>2 DEF Input, SameMoves
  <2>3. CASE in' = [in EXCEPT !.state = "Normal"]
    BY <2>1, <2>3 DEF Input, SameMoves
  <2>4. CASE in' = in
    BY <2>1, <2>4 DEF SameMoves
  <2>5. QED
    BY <1>1, <2>2, <2>3, <2>4
<1>4. HistoryOK' /\ PauseOK' /\ MovesOK' /\ ClicksOK'
  BY <1>1, <1>3, TextPushKept
<1>5. ConsoleOK' /\ ScrollbackShowsPage'
  BY <1>1, ConsoleKept DEF IInv
<1>6. QED
  BY <1>1, <1>3, <1>4, <1>5 DEF IInv

LEMMA TextTypedIInv ==
  ASSUME IInv, NEW text \in Texts, TextTyped(text), EditorOK'
  PROVE  IInv'
<1>1. UNCHANGED <<pc, in, console, paused, down, missed, clicked, pausedInput>>
  BY DEF TextTyped
<1>2. HistoryOK' /\ PauseOK' /\ MovesOK' /\ ClicksOK'
  BY <1>1 DEF IInv, HistoryOK, PauseOK, MovesOK, ClicksOK
<1>3. ConsoleOK' /\ ScrollbackShowsPage'
  BY <1>1, ConsoleKept DEF IInv
<1>4. QED
  BY <1>1, <1>2, <1>3 DEF IInv

\* A key released in normal mode is taken off the counter it was counted in (input.cpp:170).
LEMMA KeyReleasedIInv ==
  ASSUME IInv, NEW key \in Keys, NEW mods \in Mods, KeyReleased(key, mods)
  PROVE  IInv'
<1> DEFINE sym == Sym(key, mods)
<1>1. /\ in' = IF in.state = "Normal" THEN NormalKeyUp(in, sym) ELSE in
      /\ LetGo(key, mods)
      /\ UNCHANGED <<pc, ed, console, paused>>
  BY DEF KeyReleased
<1>2. /\ HistoryOK' /\ PauseOK' /\ missed \subseteq missed'
      /\ key \in down /\ down' = down \ {key} /\ clicked' = clicked
      /\ missed' = missed \cup Misses(key, mods)
  BY <1>1, LetGoSound DEF IInv, LetGo
<1>3. /\ in' \in Input /\ in'.begin = in.begin /\ in'.last = in.last
      /\ "primary" \in in'.action <=> "primary" \in in.action
      /\ sym \notin DOMAIN KeyDirection \/ in.state # "Normal" => in'.held = in.held
      /\ sym \in DOMAIN KeyDirection /\ in.state = "Normal" =>
           in'.held = [in.held EXCEPT ![KeyDirection[sym]] = in.held[KeyDirection[sym]] - 1]
  <2>1. in \in Input
    BY DEF IInv
  <2> HIDE DEF sym
  <2>2. QED
    BY <1>1, <2>1, KeyUpSound
<1>4. EditorOK' /\ ConsoleOK' /\ ScrollbackShowsPage'
  BY <1>1, EditorKept, ConsoleKept DEF IInv
<1>5. ClicksOK'
  <2>1. "leftButton" \in down' <=> "leftButton" \in down
    BY <1>2, FrontEndAssumption
  <2>2. QED
    BY <1>2, <1>3, <2>1, ClicksKept DEF IInv, ClicksOK
<1>6. MovesOK'
  <2>1. IsFiniteSet(down) /\ MovesOK /\ in.state \in {"Normal", "Text"}
    BY DEF IInv, HistoryOK, Input
  <2>2. CASE Sym(key, {}) \notin DOMAIN KeyDirection
    <3>1. \A d \in Directions : HeldFor(down', d) = HeldFor(down, d)
      BY <1>2, <2>1, <2>2, HeldForCounts
    <3>2. sym \notin DOMAIN KeyDirection
      BY <2>2, SymProperties
    <3>3. QED
      BY <1>2, <1>3, <2>1, <3>1, <3>2, MovesKept DEF SameMoves
  <2>3. CASE Sym(key, {}) \in DOMAIN KeyDirection /\ (sym \notin DOMAIN KeyDirection \/ in.state = "Text")
    <3>1. Holdable(key)
      BY <2>3, SymProperties
    <3>2. "text" \in missed' \/ "numlock" \in missed'
      BY <1>2, <2>3, <3>1, SymProperties DEF Misses
    <3>3. QED
      BY <3>2 DEF MovesOK
  <2>4. CASE Sym(key, {}) \in DOMAIN KeyDirection /\ sym \in DOMAIN KeyDirection /\ in.state = "Normal"
    <3> DEFINE c == KeyDirection[sym]
    <3>1. Sym(key, {}) = sym
      BY <2>4, SymProperties
    <3>2. c \in Directions
      BY <2>4, Names
    <3>3. in'.held = [in.held EXCEPT ![c] = in.held[c] - 1] /\ in.held \in [Directions -> Int]
      BY <1>3, <2>4 DEF IInv, Input
    <3>4. \A d \in Directions :
            /\ Cardinality(HeldFor(down, d)) \in Nat
            /\ Cardinality(HeldFor(down', d)) =
                 IF d = c THEN Cardinality(HeldFor(down, d)) - 1 ELSE Cardinality(HeldFor(down, d))
      BY <1>2, <2>1, <2>4, <3>1, HeldForCounts
    <3> HIDE DEF c
    <3>5. SUFFICES ASSUME missed' \cap {"text", "numlock"} = {}, NEW d \in Directions
                   PROVE  /\ in'.held[d] = Cardinality(HeldFor(down', d))
                          /\ in'.held[d] # 0 => d \in in'.last \/ Opposite[d] \in in'.last
      BY DEF MovesOK
    <3>6. /\ in.held[d] = Cardinality(HeldFor(down, d))
          /\ in.held[d] # 0 => d \in in.last \/ Opposite[d] \in in.last
      BY <1>2, <2>1, <3>5 DEF MovesOK
    <3>7. in'.held[d] = Cardinality(HeldFor(down', d))
      BY <3>2, <3>3, <3>4, <3>6
    <3>8. in.held[d] # 0
          \/ in'.held[d] = 0
      <4>1. CASE d = c
        <5>1. in.held[c] # 0
          <6>1. key \in HeldFor(down, c) /\ IsFiniteSet(HeldFor(down, c))
            <7>1. key \in HeldFor(down, c)
              BY <1>2, <2>4, <3>1 DEF HeldFor, c
            <7>2. HeldFor(down, c) \subseteq down
              BY DEF HeldFor
            <7>3. QED
              BY <2>1, <7>1, <7>2, FS_Subset
          <6>2. Cardinality(HeldFor(down, c)) # 0
            BY <6>1, FS_EmptySet
          <6>3. QED
            BY <3>6, <4>1, <6>2
        <5>2. QED
          BY <4>1, <5>1
      <4>2. CASE d # c
        BY <3>3, <4>2
      <4>3. QED
        BY <4>1, <4>2
    <3>9. QED
      BY <1>3, <3>6, <3>7, <3>8
  <2>5. QED
    BY <2>1, <2>2, <2>3, <2>4
<1>7. QED
  BY <1>1, <1>2, <1>3, <1>4, <1>5, <1>6 DEF IInv

-----------------------------------------------------------------------------
(* The steps: buttons, the window, and the frame.                          *)

LEMMA ButtonsAreControls ==
  ASSUME NEW button \in Buttons
  PROVE  /\ button \in {"leftButton", "rightButton", "middleButton"}
         /\ button \in DOMAIN Control /\ Control[button] \in Controls
         /\ Control[button] = "primary" <=> button = "leftButton"
         /\ Sym(button, {}) \notin DOMAIN KeyDirection /\ Holdable(button)
<1>1. button \in {"leftButton", "rightButton", "middleButton"}
  BY FrontEndAssumption
<1>2. button \in DOMAIN Control /\ Control[button] \in Controls
      /\ (Control[button] = "primary" <=> button = "leftButton")
  BY <1>1, Names
<1>3. Sym(button, {}) \notin DOMAIN KeyDirection /\ Holdable(button)
  BY <1>1, SymProperties
<1>4. QED
  BY <1>1, <1>2, <1>3

\* Pressing a button begins its action, unless an earlier release was eaten
\* (input.cpp:231).
LEMMA ButtonPressedIInv ==
  ASSUME IInv, NEW button \in Buttons, ButtonPressed(button)
  PROVE  IInv'
<1> DEFINE c == Control[button]
<1>1. /\ in' = IF in.state = "Normal" THEN Press(in, c) ELSE in
      /\ Pushed(button, {}, FALSE)
      /\ UNCHANGED <<pc, ed, console, paused>>
  BY DEF ButtonPressed
<1>2. /\ c \in Controls /\ (c = "primary" <=> button = "leftButton") /\ button \in DOMAIN Control
      /\ Sym(button, {}) \notin DOMAIN KeyDirection /\ Holdable(button)
  BY ButtonsAreControls
<1>3. /\ HistoryOK' /\ PauseOK'
      /\ missed \subseteq missed'
      /\ down' = down \cup {button} /\ button \notin down
      /\ missed' = missed \cup Misses(button, {})
      /\ clicked' = IF in.state = "Normal" THEN clicked \cup {c} ELSE clicked
  BY <1>1, <1>2, PushedSound DEF IInv, Pushed
<1> HIDE DEF c
<1>4. /\ in \in Input /\ in.state \in {"Normal", "Text"} /\ ClicksOK /\ MovesOK
      /\ IsFiniteSet(down)
  BY DEF IInv, Input, HistoryOK
<1>5. in' \in Input /\ SameMoves(in, in')
  BY <1>1, <1>2, <1>4, PressSound DEF SameMoves
<1>6. MovesOK'
  <2>1. \A d \in Directions : HeldFor(down', d) = HeldFor(down, d)
    BY <1>2, <1>3, <1>4, HeldForCounts
  <2>2. QED
    BY <1>3, <1>4, <1>5, <2>1, MovesKept
<1>7. ClicksOK'
  <2>1. CASE in.state = "Text"
    <3>1. in' = in /\ clicked' = clicked /\ "text" \in missed'
      BY <1>1, <1>2, <1>3, <2>1 DEF Misses
    <3>2. QED
      BY <1>4, <3>1 DEF ClicksOK
  <2>2. CASE in.state = "Normal"
    <3>1. /\ in'.begin = IF c \in in.action THEN in.begin \ {c} ELSE in.begin \cup {c}
          /\ in'.action = in.action \cup {c}
          /\ clicked' = clicked \cup {c}
      BY <1>1, <1>2, <1>3, <1>4, <2>2, PressSound
    <3>2. in'.begin \subseteq clicked'
      BY <1>4, <3>1 DEF ClicksOK
    <3>3. "text" \notin missed' => ("primary" \in in'.action <=> "leftButton" \in down')
      BY <1>2, <1>3, <1>4, <3>1 DEF ClicksOK
    <3>4. ASSUME missed' \cap {"text", "pause"} = {}, "primary" \in clicked'
          PROVE  "primary" \in in'.begin
      <4>1. missed \cap {"text", "pause"} = {}
        BY <1>3, <3>4
      <4>2. CASE c = "primary"
        <5>1. "primary" \notin in.action
          BY <1>2, <1>3, <1>4, <4>1, <4>2 DEF ClicksOK
        <5>2. QED
          BY <3>1, <4>2, <5>1
      <4>3. CASE c # "primary"
        BY <1>4, <3>1, <3>4, <4>1, <4>3 DEF ClicksOK
      <4>4. QED
        BY <4>2, <4>3
    <3>5. QED
      BY <3>2, <3>3, <3>4 DEF ClicksOK
  <2>3. QED
    BY <1>4, <2>1, <2>2
<1>8. EditorOK' /\ ConsoleOK' /\ ScrollbackShowsPage'
  BY <1>1, EditorKept, ConsoleKept DEF IInv
<1>9. QED
  BY <1>1, <1>3, <1>5, <1>6, <1>7, <1>8 DEF IInv

LEMMA ButtonReleasedIInv ==
  ASSUME IInv, NEW button \in Buttons, ButtonReleased(button)
  PROVE  IInv'
<1> DEFINE c == Control[button]
<1>1. /\ in' = IF in.state = "Normal" THEN Release(in, c) ELSE in
      /\ LetGo(button, {})
      /\ UNCHANGED <<pc, ed, console, paused>>
  BY DEF ButtonReleased
<1>2. /\ c \in Controls /\ (c = "primary" <=> button = "leftButton")
      /\ Sym(button, {}) \notin DOMAIN KeyDirection /\ Holdable(button)
  BY ButtonsAreControls
<1>3. /\ HistoryOK' /\ PauseOK'
      /\ missed \subseteq missed'
      /\ down' = down \ {button} /\ clicked' = clicked
      /\ missed' = missed \cup Misses(button, {})
  BY <1>1, LetGoSound DEF IInv, LetGo
<1> HIDE DEF c
<1>4. /\ in \in Input /\ in.state \in {"Normal", "Text"} /\ ClicksOK /\ MovesOK
      /\ IsFiniteSet(down)
  BY DEF IInv, Input, HistoryOK
<1>5. in' \in Input /\ SameMoves(in, in') /\ in'.begin = in.begin
  BY <1>1, <1>2, <1>4, ReleaseSound DEF SameMoves
<1>6. MovesOK'
  <2>1. \A d \in Directions : HeldFor(down', d) = HeldFor(down, d)
    BY <1>2, <1>3, <1>4, HeldForCounts
  <2>2. QED
    BY <1>3, <1>4, <1>5, <2>1, MovesKept
<1>7. "text" \notin missed' => ("primary" \in in'.action <=> "leftButton" \in down')
  <2>1. CASE in.state = "Text"
    BY <1>2, <1>3, <2>1 DEF Misses
  <2>2. CASE in.state = "Normal"
    <3>1. in'.action = in.action \ {c}
      BY <1>1, <1>2, <1>4, <2>2, ReleaseSound
    <3>2. QED
      BY <1>2, <1>3, <1>4, <3>1 DEF ClicksOK
  <2>3. QED
    BY <1>4, <2>1, <2>2
<1>8. ClicksOK'
  BY <1>3, <1>4, <1>5, <1>7 DEF ClicksOK
<1>9. EditorOK' /\ ConsoleOK' /\ ScrollbackShowsPage'
  BY <1>1, EditorKept, ConsoleKept DEF IInv
<1>10. QED
  BY <1>1, <1>3, <1>5, <1>6, <1>8, <1>9 DEF IInv

LEMMA WindowClosedIInv ==
  ASSUME IInv, WindowClosed
  PROVE  IInv'
<1>1. /\ in' = [in EXCEPT !.exit = TRUE] /\ NotePaused
      /\ UNCHANGED <<pc, ed, console, paused, down, missed, clicked>>
  BY DEF WindowClosed
<1>2. /\ in' \in Input /\ SameMoves(in, in')
      /\ in'.begin = in.begin /\ in'.action = in.action
  <2>1. in \in Input
    BY DEF IInv
  <2>2. QED
    BY <1>1, <2>1 DEF Input, SameMoves
<1>3. HistoryOK' /\ PauseOK' /\ ClicksOK'
  BY <1>1, <1>2 DEF IInv, HistoryOK, PauseOK, NotePaused, ClicksOK
<1>4. MovesOK'
  BY <1>1, <1>2, MovesKept DEF IInv
<1>5. EditorOK' /\ ConsoleOK' /\ ScrollbackShowsPage'
  BY <1>1, EditorKept, ConsoleKept DEF IInv
<1>6. QED
  BY <1>1, <1>2, <1>3, <1>4, <1>5 DEF IInv

\* What Reset() takes away are clicks and requests, not what is held.
LEMMA ResetKept ==
  ASSUME IInv, in' = Reset(in), down' = down, missed \subseteq missed',
         clicked' = {} \/ "pause" \in missed'
  PROVE  in' \in Input /\ MovesOK' /\ ClicksOK'
<1>1. /\ in' \in Input /\ SameMoves(in, in') /\ in'.begin = {} /\ in'.action = in.action
  BY ResetSound DEF IInv, SameMoves
<1>2. MovesOK'
  BY <1>1, MovesKept DEF IInv
<1>3. ClicksOK'
  BY <1>1 DEF IInv, ClicksOK
<1>4. QED
  BY <1>1, <1>2, <1>3

\* The Pause key toggles the pause after taking away all that was asked for before it
\* (main.cpp:906).
LEMMA InputHandledIInv ==
  ASSUME IInv, InputHandled
  PROVE  IInv'
<1> DEFINE toggled == "pause" \in in.shots
<1>1. /\ pc' = "ticks" /\ pausedInput' = (pausedInput /\ HasOneShots(in'))
      /\ UNCHANGED <<ed, height, down, clicked>>
  BY DEF InputHandled
<1>2. EditorOK'
  BY <1>1, EditorKept DEF IInv
<1>3. CASE in.exit
  <2>1. UNCHANGED <<in, lines, scrollback, paused, missed>>
    BY <1>3 DEF InputHandled
  <2>2. HistoryOK' /\ MovesOK' /\ ClicksOK'
    BY <1>1, <2>1 DEF IInv, HistoryOK, MovesOK, ClicksOK
  <2>3. PauseOK'
    BY <1>1, <2>1 DEF IInv, PauseOK
  <2>4. ConsoleOK' /\ ScrollbackShowsPage'
    BY <1>1, <2>1, ConsoleKept DEF IInv, console
  <2>5. QED
    BY <1>1, <1>2, <2>1, <2>2, <2>3, <2>4 DEF IInv
<1>4. CASE ~in.exit
  <2>1. /\ paused' = (paused # toggled)
        /\ in' = IF toggled THEN Reset(in) ELSE in
        /\ missed' = IF toggled THEN missed \cup {"pause"} ELSE missed
    BY <1>4 DEF InputHandled
  <2>2. PICK printed \in 0 .. 1 : Println(printed + IF toggled THEN 1 ELSE 0)
    BY <1>4 DEF InputHandled
  <2>3. ConsoleOK' /\ ScrollbackShowsPage'
    <3> DEFINE n == printed + IF toggled THEN 1 ELSE 0
    <3>1. n \in Nat /\ Println(n)
      BY <2>2
    <3>2. height' \in Heights /\ height' = height
      BY <1>1 DEF IInv, ConsoleOK
    <3> HIDE DEF n
    <3>3. QED
      BY <3>1, <3>2, PrintlnSound DEF IInv
  <2>4. HistoryOK' /\ missed \subseteq missed'
    BY <1>1, <2>1 DEF IInv, HistoryOK
  <2>5. in' \in Input /\ MovesOK' /\ ClicksOK'
    <3>1. CASE toggled
      BY <1>1, <2>1, <2>4, <3>1, ResetKept
    <3>2. CASE ~toggled
      BY <1>1, <2>1, <3>2 DEF IInv, MovesOK, ClicksOK
    <3>3. QED
      BY <3>1, <3>2
  <2>6. PauseOK'
    <3>1. CASE toggled
      <4>1. ~HasOneShots(in')
        BY <2>1, <3>1, ResetSound DEF IInv
      <4>2. pausedInput' = FALSE /\ paused' \in BOOLEAN
        BY <1>1, <2>1, <4>1
      <4>3. QED
        BY <4>2 DEF PauseOK
    <3>2. CASE ~toggled
      <4>1. paused \in BOOLEAN /\ (pausedInput => paused)
        BY DEF IInv, PauseOK
      <4>2. paused' = paused
        BY <2>1, <3>2, <4>1
      <4>3. pausedInput' \in BOOLEAN /\ (pausedInput' => pausedInput)
        BY <1>1
      <4>4. QED
        BY <4>1, <4>2, <4>3 DEF PauseOK
    <3>3. QED
      BY <3>1, <3>2
  <2>7. QED
    BY <1>1, <1>2, <2>3, <2>4, <2>5, <2>6 DEF IInv
<1>5. QED
  BY <1>3, <1>4

\* A tick uses up the requests, and may print and change the font (main.cpp:919).
LEMMA TickIInv ==
  ASSUME IInv, Tick
  PROVE  IInv'
<1>1. /\ in' = Reset(in) /\ clicked' = {} /\ pausedInput' = FALSE
      /\ UNCHANGED <<pc, ed, paused, down, missed>>
  BY DEF Tick
<1>2. PICK printed \in 0 .. 2 :
        /\ Println(printed)
        /\ height' \in IF in.text # <<>> /\ printed > 0 THEN Heights ELSE {height}
  BY DEF Tick
<1>3. ConsoleOK' /\ ScrollbackShowsPage'
  <2>1. printed \in Nat /\ height \in Heights
    BY DEF IInv, ConsoleOK
  <2>2. height' \in Heights /\ (printed = 0 => height' = height)
    BY <1>2, <2>1
  <2>3. QED
    BY <1>2, <2>1, <2>2, PrintlnSound DEF IInv
<1>4. in' \in Input /\ MovesOK' /\ ClicksOK'
  BY <1>1, ResetKept
<1>5. HistoryOK' /\ PauseOK'
  BY <1>1 DEF IInv, HistoryOK, PauseOK
<1>6. EditorOK'
  BY <1>1, EditorKept DEF IInv
<1>7. QED
  BY <1>1, <1>3, <1>4, <1>5, <1>6 DEF IInv

LEMMA FrameDrawnIInv ==
  ASSUME IInv, pc' \in {"poll", "ticks", "stopped"},
         UNCHANGED <<in, ed, console, paused, down, missed, clicked, pausedInput>>
  PROVE  IInv'
<1>1. HistoryOK' /\ PauseOK' /\ MovesOK' /\ ClicksOK'
  BY DEF IInv, HistoryOK, PauseOK, MovesOK, ClicksOK
<1>2. EditorOK' /\ ConsoleOK' /\ ScrollbackShowsPage'
  BY EditorKept, ConsoleKept DEF IInv
<1>3. QED
  BY <1>1, <1>2 DEF IInv

-----------------------------------------------------------------------------
LEMMA NextIInv == IInv /\ [Next]_vars => IInv'
<1> SUFFICES ASSUME IInv, [Next]_vars
             PROVE  IInv'
  OBVIOUS
<1>1. EditorOK'
  BY NextEdited, EditSound DEF IInv
<1>2. CASE UNCHANGED vars
  <2>1. pc' \in {"poll", "ticks", "stopped"}
    BY <1>2 DEF IInv, vars
  <2>2. QED
    BY <1>2, <2>1, FrameDrawnIInv DEF vars, console
<1>3. ASSUME NEW key \in Keys, NEW mods \in Mods, NEW repeat \in BOOLEAN,
             NormalKeyPressed(key, mods, repeat)
      PROVE  IInv'
  BY <1>3, NormalKeyPressedIInv
<1>4. ASSUME NEW key \in Keys, NEW mods \in Mods, NEW repeat \in BOOLEAN,
             TextKeyPressed(key, mods, repeat)
      PROVE  IInv'
  BY <1>1, <1>4, TextKeyPressedIInv
<1>5. ASSUME NEW key \in Keys, NEW mods \in Mods, NEW repeat \in BOOLEAN, NEW clip \in Texts,
             PasteKeyPressed(key, mods, repeat, clip)
      PROVE  IInv'
  BY <1>1, <1>5, PasteKeyPressedIInv
<1>6. ASSUME NEW text \in Texts, TextTyped(text)
      PROVE  IInv'
  BY <1>1, <1>6, TextTypedIInv
<1>7. ASSUME NEW key \in Keys, NEW mods \in Mods, KeyReleased(key, mods)
      PROVE  IInv'
  BY <1>7, KeyReleasedIInv
<1>8. ASSUME NEW button \in Buttons, ButtonPressed(button)
      PROVE  IInv'
  BY <1>8, ButtonPressedIInv
<1>9. ASSUME NEW button \in Buttons, ButtonReleased(button)
      PROVE  IInv'
  BY <1>9, ButtonReleasedIInv
<1>10. CASE WindowClosed
  BY <1>10, WindowClosedIInv
<1>11. CASE InputHandled
  BY <1>11, InputHandledIInv
<1>12. CASE Tick
  BY <1>12, TickIInv
<1>13. CASE FrameDrawn
  BY <1>13, FrameDrawnIInv DEF FrameDrawn
<1>14. QED
  BY <1>2, <1>3, <1>4, <1>5, <1>6, <1>7, <1>8, <1>9, <1>10, <1>11, <1>12, <1>13 DEF Next

-----------------------------------------------------------------------------
(* The theorems.                                                           *)

\* The invariant holds in every reachable state, for every keyboard and console.
THEOREM Invariance == Spec => []IInv
BY InitIInv, NextIInv, PTL DEF Spec

\* Every variable keeps the type the code gives it: controls and requests come from the
\* tables of input.cpp:24, and the scroll position from unsigned numbers (console.cpp:62).
THEOREM TypeCorrect == Spec => []TypeOK
BY IInvTypes, Invariance, PTL

\* Every line, of characters of one to four bytes in any order and edited in any way, is
\* whole characters with the cursor between two of them: the assertions of
\* texteditor.cpp:43 and 65 hold, and stepping back never fails (utf.cpp:241).
THEOREM LinesStayWellFormed == Spec => []LineIsWellFormed
<1>1. IInv => LineIsWellFormed
  BY LineWellFormed DEF IInv, EditorOK, LineIsWellFormed
<1>2. QED
  BY <1>1, Invariance, PTL

\* Editing bytes at a byte offset implements editing characters: each step of the client
\* is a step of LineEdit on the characters before and after the cursor, or leaves them
\* (texteditor.cpp:25-96).
THEOREM ImplementsLineEdit == Spec => EditsLine
<1>1. Init => Line!Init
  <2> SUFFICES ASSUME Init
               PROVE  Line!Init
    OBVIOUS
  <2>1. IsLine(ed, <<>>, <<>>)
    BY EmptyLine DEF Init
  <2>2. QED
    BY <2>1, LineShows DEF Line!Init
<1>2. IInv /\ [Next]_vars => [Line!Next]_(Line!vars)
  BY NextEdited, EditSound DEF IInv
<1>3. QED
  BY <1>1, <1>2, Invariance, PTL DEF Spec, EditsLine, Line!Spec

\* A player moves in a direction only while a key of it is held, and moves in it or in the
\* opposite one whenever one is, for any number of keys per direction in any order of
\* presses and releases, unless text mode or NumLock ate an event (input.cpp:96-224).
THEOREM MovementFollowsKeys == Spec => []MovesAsPressed
<1>1. IInv => MovesAsPressed
  <2> DEFINE pressed(d) == \E k \in down : /\ Sym(k, {}) \in DOMAIN KeyDirection
                                           /\ KeyDirection[Sym(k, {})] = d
  <2> SUFFICES ASSUME IInv, missed \cap {"text", "numlock"} = {}, NEW d \in Directions
               PROVE  /\ Moving(in, d) => pressed(d)
                      /\ pressed(d) => Moving(in, d) \/ Moving(in, Opposite[d])
    BY DEF MovesAsPressed
  <2>1. /\ in.held[d] = Cardinality(HeldFor(down, d))
        /\ in.held[d] # 0 => d \in in.last \/ Opposite[d] \in in.last
    BY DEF IInv, MovesOK
  <2>2. in.held[d] # 0 <=> pressed(d)
    <3>1. IsFiniteSet(HeldFor(down, d))
      <4>1. HeldFor(down, d) \subseteq down /\ IsFiniteSet(down)
        BY DEF HeldFor, IInv, HistoryOK
      <4>2. QED
        BY <4>1, FS_Subset
    <3>2. Cardinality(HeldFor(down, d)) = 0 <=> HeldFor(down, d) = {}
      BY <3>1, FS_EmptySet
    <3>3. HeldFor(down, d) # {} <=> pressed(d)
      BY DEF HeldFor
    <3>4. QED
      BY <2>1, <3>2, <3>3
  <2>3. Opposite[d] \in Directions /\ Opposite[Opposite[d]] = d
    BY Names
  <2> HIDE DEF pressed
  <2>4. QED
    BY <2>1, <2>2, <2>3 DEF Moving
<1>2. QED
  BY <1>1, Invariance, PTL

\* Each click of the primary button is seen by exactly the next sim_frame, however many
\* presses and releases fall between two ticks, unless text mode ate one of them or a
\* pause took it away (input.cpp:231-263, main.cpp:919).
THEOREM ClicksReachOneTick == Spec => []ClicksSeenOnce
<1>1. IInv => ClicksSeenOnce
  BY DEF IInv, ClicksOK, ClicksSeenOnce
<1>2. QED
  BY <1>1, Invariance, PTL

\* Nothing asked for while the game is paused reaches a sim_frame (main.cpp:906-925).
THEOREM PausedInputIsDropped == Spec => []NothingFromPause
<1>1. IInv => NothingFromPause
  BY DEF IInv, PauseOK, NothingFromPause
<1>2. QED
  BY <1>1, Invariance, PTL

\* However it is scrolled and whatever font is chosen, a console with enough lines shows a
\* full page, for every width of the unsigned numbers it computes with (console.cpp:62).
THEOREM PageIsFull == Spec => []ScrollbackShowsPage
<1>1. IInv => ScrollbackShowsPage
  BY DEF IInv
<1>2. QED
  BY <1>1, Invariance, PTL

===============================================================================
