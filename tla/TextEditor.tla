------------------------------ MODULE TextEditor ------------------------------
(***************************************************************************)
(* narf::TextEditor (lib/texteditor.cpp): a UTF-8 string with a cursor      *)
(* counted in bytes, and the functions of lib/utf.cpp it steps over         *)
(* characters with.  A character is the number of its bytes, 1 to 4; its    *)
(* lead byte says that number and the bytes that follow are Continuation.   *)
(* moveCursor and delAtCursor are called with counts of 1 and -1 only.      *)
(***************************************************************************)
EXTENDS Integers, Sequences, SequencesExt, FiniteSetsExt

Continuation == 0   \* a byte 10xxxxxx
Nul == -1           \* what c_str() shows at the end of the string

Encoding(char) == <<char>> \o [i \in 1..(char - 1) |-> Continuation]

\* The bytes of a text, a sequence of characters.
Encoded(text) == FlattenSeq([i \in DOMAIN text |-> Encoding(text[i])])

IsStart(byte) == byte # Continuation

ByteAt(str, offset) == IF offset < Len(str) THEN str[offset + 1] ELSE Nul

\* A continuation byte is taken for the lead of two bytes.
UTF8CharSize(byte) ==
  IF byte = Nul THEN 0 ELSE IF byte = Continuation THEN 2 ELSE byte

\* The size of the character before the offset, -1 in the middle of one.
UTF8PrevCharSize(str, offset) ==
  IF offset = 0 THEN 0
  ELSE IF ~IsStart(ByteAt(str, offset)) THEN -1
  ELSE offset - Max({o \in 0..(offset - 1) : IsStart(ByteAt(str, o)) \/ o = 0})

Erase(str, pos, n) == SubSeq(str, 1, pos) \o SubSeq(str, pos + n + 1, Len(str))

\* The editor is a record of str_ and cursor.
Empty == [str |-> <<>>, cursor |-> 0]

\* Mutant of AddString: the cursor stays where it was.
AddAfterCursor(ed, text) ==
  [ed EXCEPT !.str = SubSeq(@, 1, ed.cursor) \o Encoded(text)
                     \o SubSeq(@, ed.cursor + 1, Len(@))]

AddString(ed, text) ==
  LET bytes == Encoded(text) IN
  [str |-> SubSeq(ed.str, 1, ed.cursor) \o bytes \o SubSeq(ed.str, ed.cursor + 1, Len(ed.str)),
   cursor |-> ed.cursor + Len(bytes)]

MoveCursorLeft(ed) ==
  [ed EXCEPT !.cursor = @ - Max({0, UTF8PrevCharSize(ed.str, @)})]

MoveCursorRight(ed) ==
  [ed EXCEPT !.cursor = @ + Max({0, UTF8CharSize(ByteAt(ed.str, @))})]

\* Mutant of EraseAtCursor: a byte, not a character.
EraseByte(ed) ==
  [ed EXCEPT !.str = Erase(@, ed.cursor, 1)]

EraseAtCursor(ed) ==
  [ed EXCEPT !.str = Erase(@, ed.cursor, UTF8CharSize(ByteAt(@, ed.cursor)))]

\* delAtCursor(-1): at the start the cursor stays, and the character after it goes.
EraseBackwards(ed) == EraseAtCursor(MoveCursorLeft(ed))

HomeCursor(ed) == [ed EXCEPT !.cursor = 0]
EndCursor(ed) == [ed EXCEPT !.cursor = Len(ed.str)]

\* What a reader of the editor sees: the characters of a string.
Chars(str) ==
  FlattenSeq([i \in DOMAIN str |-> IF IsStart(str[i]) THEN <<str[i]>> ELSE <<>>])
Before(ed) == Chars(SubSeq(ed.str, 1, ed.cursor))
After(ed) == Chars(SubSeq(ed.str, ed.cursor + 1, Len(ed.str)))

\* The string is whole characters, and the cursor is between two of them.
WellFormed(ed) ==
  /\ ed.cursor \in 0..Len(ed.str)
  /\ ed.str = Encoded(Chars(ed.str))
  /\ IsStart(ByteAt(ed.str, ed.cursor))

===============================================================================
