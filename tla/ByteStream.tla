----------------------------- MODULE ByteStream -----------------------------
(***************************************************************************)
(* narf::ByteStream (lib/bytestream.cpp), the form every message between    *)
(* server and client has: a vector of bytes, a position, and typed reads    *)
(* and writes in either byte order.  Bytes are counted in a small base, and *)
(* a type is the number of its bytes.                                       *)
(***************************************************************************)
EXTENDS Integers, FiniteSets, Sequences, SequencesExt

CONSTANTS
  Base,      \* how many values a byte has
  Types,     \* the sizes of types
  Numbers,   \* the numbers written
  Strings,   \* the byte strings written
  MaxBytes,  \* bound on the length of the data
  MaxCalls   \* bound on the calls

ASSUME StreamAssumption ==
  /\ Base \in Nat \ {0, 1} /\ Types \subseteq Nat \ {0}
  /\ Numbers \subseteq Nat /\ Strings \subseteq Seq(0 .. Base - 1)
  /\ MaxBytes \in Nat /\ MaxCalls \in Nat

Endian == {"LITTLE", "BIG"}

VARIABLES
  data,      \* data_
  pos,       \* pos
  overran,   \* overran_
  default,   \* default_
  fields,    \* what was written: where, in which form, which value; if nothing of it
             \* has been overwritten or cut off since
  last,      \* the field that stood where the last read began, and what it returned
  calls      \* what MaxCalls still allows

streamVars == <<data, pos, overran, default, fields, last, calls>>

-----------------------------------------------------------------------------
NoField == [at |-> -1, form |-> "none", size |-> 0, value |-> <<>>]
NoRead  == [field |-> NoField, ok |-> FALSE, value |-> <<>>, to |-> 0]

\* How many values n bytes have.
Power(n) ==
  LET power[i \in 0 .. n] == IF i = 0 THEN 1 ELSE Base * power[i - 1] IN power[n]

Little(v, size) == [i \in 1 .. size |-> (v \div Power(i - 1)) % Base]

\* A number in memory is little endian; in the data it is as asked for.
Ordered(bytes, endian) == IF endian = "BIG" THEN Reverse(bytes) ELSE bytes

Number(bytes) ==
  LET sum[i \in 0 .. Len(bytes)] == IF i = 0 THEN 0 ELSE sum[i - 1] + bytes[i] * Power(i - 1)
  IN sum[Len(bytes)]

\* memcpy() to data_ at p, after the resize that fills a gap with zeros.
Stored(d, p, bytes) ==
  [i \in 1 .. (IF p + Len(bytes) > Len(d) THEN p + Len(bytes) ELSE Len(d)) |->
     IF i \in p + 1 .. p + Len(bytes) THEN bytes[i - p] ELSE IF i <= Len(d) THEN d[i] ELSE 0]

\* The fields left whole when n bytes from p on are written.
Untouched(p, n) == {f \in fields : f.at + f.size <= p \/ p + n <= f.at}

\* Mutant of Past: the last byte is out of reach.
PastEarly(p, n) == p + n >= Len(data)

Past(p, n) == p + n > Len(data)

\* The field that begins here and has this form.
Here(form) ==
  LET fs == {f \in fields : f.at = pos /\ f.form = form} IN
  IF fs = {} THEN NoField ELSE CHOOSE f \in fs : TRUE

-----------------------------------------------------------------------------
\* A new stream: its constructors leave overran_ and default_ as they are in memory.
StreamInit ==
  /\ data = <<>> /\ pos = 0
  /\ overran \in BOOLEAN /\ default \in Endian
  /\ fields = {} /\ last = NoRead
  /\ calls = MaxCalls

Spend == calls > 0 /\ calls' = calls - 1

Put(form, value, bytes) ==
  /\ pos + Len(bytes) <= MaxBytes
  /\ data' = Stored(data, pos, bytes) /\ pos' = pos + Len(bytes)
  /\ fields' = Untouched(pos, Len(bytes)) \cup
               {[at |-> pos, form |-> form, size |-> Len(bytes), value |-> value]}
  /\ last' = NoRead
  /\ UNCHANGED <<overran, default>>

\* write(v, endian) of a type.  A form names the type and the byte order.
WriteNumber(v, size, endian) ==
  Spend /\ Put(<<"number", size, endian>>, <<v>>, Ordered(Little(v, size), endian))

\* write(data, size)
WriteBytes(s) == Spend /\ Put(<<"bytes", Len(s), "LITTLE">>, s, s)

\* writeString(): of the length, as many bytes as the type has.
WriteString(s, size, endian) ==
  Spend /\ Put(<<"string", size, endian>>, s, Ordered(Little(Len(s), size), endian) \o s)

\* The bytes of a number read are put in memory order.
Got(p, size, endian) == Ordered(SubSeq(data, p + 1, p + size), endian)

\* read(v, type, endian): past the end nothing is read and nothing moves.
ReadNumber(size, endian) ==
  /\ Spend
  /\ LET fits == ~Past(pos, size) IN
     /\ overran' = ~fits
     /\ pos' = IF fits THEN pos + size ELSE pos
     /\ last' = [field |-> Here(<<"number", size, endian>>), ok |-> fits,
                 value |-> IF fits THEN <<Number(Got(pos, size, endian))>> ELSE <<>>, to |-> pos']
  /\ UNCHANGED <<data, default, fields>>

\* read(c): when overran_ is set, or c is too much, all that is left.
BytesRead(ran, p, c) == IF ran \/ Past(p, c) THEN Len(data) - p ELSE c

ReadBytes(c) ==
  /\ Spend /\ pos <= Len(data)
  /\ LET n == BytesRead(overran, pos, c) IN
     /\ pos' = pos + n /\ overran' = (overran \/ Past(pos, c))
     /\ last' = [field |-> IF overran THEN NoField ELSE Here(<<"bytes", c, "LITTLE">>),
                 ok |-> ~overran', value |-> SubSeq(data, pos + 1, pos + n), to |-> pos']
  /\ UNCHANGED <<data, default, fields>>

\* readString(): the length, which stays 0 if it cannot be read, and read(length).
ReadString(size, endian) ==
  /\ Spend /\ pos <= Len(data)
  /\ LET fits  == ~Past(pos, size)
         start == IF fits THEN pos + size ELSE pos
         c     == IF fits THEN Number(Got(pos, size, endian)) ELSE 0
         n     == BytesRead(~fits, start, c)
     IN /\ pos' = start + n /\ overran' = (~fits \/ Past(start, c))
        /\ last' = [field |-> Here(<<"string", size, endian>>), ok |-> ~overran',
                    value |-> SubSeq(data, start + 1, start + n), to |-> pos']
  /\ UNCHANGED <<data, default, fields>>

\* overran() reports and clears.
Overran ==
  /\ Spend /\ overran' = FALSE /\ last' = NoRead
  /\ UNCHANGED <<data, pos, default, fields>>

\* seek(): the old position is compared with the size, not the new one.
Seek(to) ==
  /\ Spend /\ pos' = IF pos > Len(data) THEN Len(data) ELSE to
  /\ last' = NoRead /\ UNCHANGED <<data, overran, default, fields>>

SkipBytes(c) ==
  /\ Spend /\ pos' = IF Past(pos, c) THEN Len(data) ELSE pos + c
  /\ last' = NoRead /\ UNCHANGED <<data, overran, default, fields>>

SetDefault(endian) ==
  /\ Spend /\ default' = endian
  /\ last' = NoRead /\ UNCHANGED <<data, pos, overran, fields>>

\* A packet of the first n bytes, and a new stream over it.
Send(n) ==
  /\ Spend
  /\ data' = SubSeq(data, 1, n) /\ pos' = 0
  /\ overran' \in BOOLEAN /\ default' \in Endian
  /\ fields' = {f \in fields : f.at + f.size <= n} /\ last' = NoRead

Clear ==
  /\ Spend /\ data' = <<>> /\ pos' = 0 /\ fields' = {} /\ last' = NoRead
  /\ UNCHANGED <<overran, default>>

\* DEFAULT stands for the order that default_ names.
Orders == {"LITTLE", "BIG", default}

StreamNext ==
  \/ \E size \in Types, endian \in Orders :
       \/ \E v \in Numbers : v < Power(size) /\ WriteNumber(v, size, endian)
       \/ \E s \in Strings : WriteString(s, size, endian)
       \/ ReadNumber(size, endian) \/ ReadString(size, endian)
  \/ \E s \in Strings : WriteBytes(s)
  \/ \E c \in 1 .. MaxBytes : ReadBytes(c) \/ SkipBytes(c)
  \/ \E n \in 0 .. MaxBytes : Seek(n)
  \/ \E n \in 0 .. Len(data) : Send(n)
  \/ \E endian \in Endian : SetDefault(endian)
  \/ Overran \/ Clear

StreamSpec == StreamInit /\ [][StreamNext]_streamVars

-----------------------------------------------------------------------------
(***************************************************************************)
(* Property.                                                                *)
(***************************************************************************)
\* A read that begins where something was written, in its form, returns it whole and
\* stops behind it, in whichever byte order, whatever was read, skipped, sought and
\* overwritten elsewhere before, after a read that failed, and over a packet that was
\* cut behind it.  Two things do not come back: a string too long for the type of its
\* length, and bytes read while overran_ is still set, or was never initialised.
FieldsReadBack ==
  LET f == last.field IN
  f # NoField /\ (f.form[1] = "string" => Len(f.value) < Power(f.form[2])) =>
    last.ok /\ last.value = f.value /\ last.to = f.at + f.size
=============================================================================
