-------------------------------- MODULE Utf8 --------------------------------
(***************************************************************************)
(* The text encodings of lib/utf.cpp: code points, their UTF-8 and UTF-16,  *)
(* and the iterators that read both.  A string is a sequence of bytes (or   *)
(* of 16-bit units) that a NUL follows.                                     *)
(***************************************************************************)
EXTENDS Integers, Sequences, SequencesExt, FiniteSetsExt

Replacement == 65533

\* Byte k from the last of the UTF-8 of c, which holds six of its bits.
Continuation(c, k) == 128 + ((c \div 64 ^ k) % 64)

\* Mutant of AppendUTF8: the case of four bytes is missing, and that of three goes on.
AppendUTF8Short(c) ==
  IF c < 128 THEN <<c>>
  ELSE IF c < 2048 THEN <<192 + (c \div 64), Continuation(c, 0)>>
  ELSE IF c < 2097152
    THEN <<224 + (c \div 4096), Continuation(c, 1), Continuation(c, 0)>>
  ELSE <<239, 191, 189>>

AppendUTF8(c) ==
  IF c < 128 THEN <<c>>
  ELSE IF c < 2048 THEN <<192 + (c \div 64), Continuation(c, 0)>>
  ELSE IF c < 65536 THEN <<224 + (c \div 4096), Continuation(c, 1), Continuation(c, 0)>>
  ELSE IF c < 2097152
    THEN <<240 + (c \div 262144), Continuation(c, 2), Continuation(c, 1), Continuation(c, 0)>>
  ELSE <<239, 191, 189>>

At(s, i) == IF i < Len(s) THEN s[i + 1] ELSE 0

IsUTF8StartByte(b) == b < 128 \/ b >= 192

\* UTF8Iter::decode(): a character, and the length it is stepped over with.  After bytes
\* that are no character, that length goes as far as the next start byte, and over it.
Decode(s, i) ==
  LET c0      == At(s, i)
      need    == IF c0 < 224 THEN 1 ELSE IF c0 < 240 THEN 2 ELSE IF c0 < 248 THEN 3 ELSE 4
      follow  == Max({n \in 0 .. 3 : \A k \in 1 .. n : At(s, i + k) \in 128 .. 191})
      bits(k) == (At(s, i + k) % 64) * 64 ^ (need - k)
      tried   == IF c0 < 192 THEN 1 ELSE IF follow = 3 THEN 4 ELSE follow + 2
  IN IF c0 < 128 THEN [char |-> c0, len |-> 1]
     ELSE IF c0 >= 192 /\ need <= follow
       THEN [char |-> (c0 % 2 ^ (6 - need)) * 64 ^ need + MapThenSumSet(bits, 1 .. need),
             len |-> need + 1]
     ELSE [char |-> Replacement,
           len |-> Min({n \in tried .. (Len(s) - i + 1) : IsUTF8StartByte(At(s, i + n - 1))})]

AppendUTF16(c) ==
  IF c \in 55296 .. 57343 \/ c > 1114111 THEN <<Replacement>>
  ELSE IF c <= 65535 THEN <<c>>
  ELSE <<55296 + ((c - 65536) \div 1024), 56320 + ((c - 65536) % 1024)>>

\* UTF16Iter::decode()
DecodeUTF16(s, i) ==
  LET w1 == At(s, i)
      w2 == At(s, i + 1)
  IN IF w1 \notin 55296 .. 57343 THEN [char |-> w1, len |-> 1]
     ELSE IF w1 > 56319 \/ w2 \notin 56320 .. 57343 THEN [char |-> Replacement, len |-> 2]
     ELSE [char |-> (w1 % 1024) * 1024 + (w2 % 1024) + 65536, len |-> 2]

\* UTF8CharSize() of a code point: from 0x1000 on it says four bytes.
UTF8CharSize(c) ==
  IF c < 128 THEN 1 ELSE IF c < 2048 THEN 2 ELSE IF c < 4096 THEN 3 ELSE 4
=============================================================================
