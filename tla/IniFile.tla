------------------------------- MODULE IniFile -------------------------------
(***************************************************************************)
(* The client's configuration: narf::INI::File and Line (lib/ini.cpp), and  *)
(* the commands set and saveconfig and the start of the program             *)
(* (narf/client/main.cpp) that read, change and write it.                   *)
(*                                                                          *)
(* A File keeps the values by their key, "section.key", and the lines it    *)
(* has loaded, comments and blank lines too.  save() writes the new values  *)
(* into their lines, adds lines for keys that have none, and gives the text *)
(* of them all.  Text is a sequence of characters: how a value is escaped,  *)
(* quoted and parsed is what decides whether it comes back.  One blank      *)
(* stands for spaces and tabs, one control character for those written as   *)
(* \xHH.                                                                    *)
(***************************************************************************)
EXTENDS Integers, FiniteSets, Sequences, SequencesExt, FiniteSetsExt

CONSTANTS
  Files,       \* the configuration files there may be at the first start
  Keys,        \* the keys that are set, as sequences of characters
  Values,      \* the values they are set to: none has a blank, as set splits at blanks
  MaxChanges   \* bound on changes, saves and restarts

VARIABLES
  lines,     \* the lines of the file
  values,    \* values_, the value of each key
  disk,      \* client.ini
  saved,     \* values_ when client.ini was written
  lossless,  \* the last save ended, and under the conditions of a faithful save
  changes    \* what MaxChanges still allows

vars == <<lines, values, disk, saved, lossless, changes>>

-----------------------------------------------------------------------------
(***************************************************************************)
(* The text of a value.                                                     *)
(***************************************************************************)
NL == "newline"
Control == "control"
Special == [c \in {NL, Control, ";", "\"", "\\"} |->
              CASE c = NL -> "n" [] c = Control -> "x" [] OTHER -> c]

\* Mutant of Escape: a semicolon is written as it is.
EscapeNotSemicolon(c) ==
  IF c \in DOMAIN Special \ {";"} THEN <<"\\", Special[c]>> ELSE <<c>>

Escape(c) == IF c \in DOMAIN Special THEN <<"\\", Special[c]>> ELSE <<c>>
Unescape(c) == IF c \in Range(Special) THEN CHOOSE s \in DOMAIN Special : Special[s] = c ELSE c

\* What setValue() writes: quotes go around a value that ends in a blank.
Encoded(v) ==
  LET body == FlattenSeq([i \in DOMAIN v |-> Escape(v[i])]) IN
  IF v # <<>> /\ Last(v) = " " THEN <<"\"">> \o body \o <<"\"">> ELSE body

TrimRight(s) == SubSeq(s, 1, Max({0} \cup {i \in DOMAIN s : s[i] # " "}))
At(s, k) == IF k \in DOMAIN s THEN s[k] ELSE NL
Quoted(t) == At(t, 1) = "\""

\* The character that ends the value at the start of t: its closing quote, or a semicolon
\* outside of quotes, or the end of the line.
ValueStop(t) ==
  LET stop[k \in 1 .. Len(t) + 1] ==
        IF At(t, k) = NL THEN k
        ELSE IF t[k] = "\\" THEN (IF At(t, k + 1) = NL THEN k + 1 ELSE stop[k + 2])
        ELSE IF k > 1 /\ Quoted(t) /\ t[k] = "\"" THEN k
        ELSE IF ~Quoted(t) /\ t[k] = ";" THEN k
        ELSE stop[k + 1]
  IN stop[1]

Closed(t) == Quoted(t) /\ At(t, ValueStop(t)) = "\""

\* The part of the line that setValue() replaces.
TextOf(t) == TrimRight(SubSeq(t, 1, IF Closed(t) THEN ValueStop(t) ELSE ValueStop(t) - 1))

Unescaped(u) ==
  LET from[k \in 1 .. Len(u) + 1] ==
        IF k > Len(u) THEN <<>>
        ELSE IF u[k] = "\\" /\ k < Len(u) THEN <<Unescape(u[k + 1])>> \o from[k + 2]
        ELSE <<u[k]>> \o from[k + 1]
  IN from[1]

\* A quote that is not closed ends with the line, blanks and all.
Decoded(t) ==
  IF Quoted(t) THEN Unescaped(SubSeq(t, 2, ValueStop(t) - 1))
               ELSE TrimRight(Unescaped(SubSeq(t, 1, ValueStop(t) - 1)))

-----------------------------------------------------------------------------
(***************************************************************************)
(* Lines.  An entry is what stands before its value, the text of the value, *)
(* and what stands behind; value is the member of that name, which setValue *)
(* leaves holding the text.  stray: valueStartPos or valueLength reach      *)
(* beyond the line, and setValue() throws.                                  *)
(***************************************************************************)
Raw(line) == line.before \o line.text \o line.after

NextAt(s, k, S) == Min({Len(s) + 1} \cup {i \in k .. Len(s) : s[i] \in S})
NextNotBlank(s, k) == Min({Len(s) + 1} \cup {i \in k .. Len(s) : s[i] # " "})

Plain(type, key, raw) ==
  [type |-> type, key |-> key, before |-> raw, text |-> <<>>, after |-> <<>>, value |-> <<>>,
   stray |-> FALSE]

\* Line::parse() of a "key = value" whose key begins at b and ends before keyEnd.  When
\* there is no value the newline is not taken into the line: it becomes a line of its own.
\* So does the last character of a file that ends where the value would begin; and when
\* there is a comment instead of a value, valueLength is computed from a null pointer.
ParseEntry(s, b, keyEnd) ==
  LET start  == NextNotBlank(s, NextAt(s, keyEnd, {"="}) + 1)
      rest   == SubSeq(s, start, Len(s))
      text   == TextOf(rest)
  IN [type |-> "Entry", key |-> SubSeq(s, b, keyEnd - 1), text |-> text, value |-> Decoded(rest),
      before |-> SubSeq(s, 1, IF rest = <<>> THEN Len(s) - 1 ELSE start - 1),
      after |-> IF At(rest, 1) = NL THEN <<>> ELSE SubSeq(rest, Len(text) + 1, Len(rest)),
      stray |-> rest = <<>> \/ At(rest, 1) = ";"]

\* What does not parse is an entry too: the key has no value, and if the line ends with
\* it, or is the blanks at the end of a file, no name.  Nothing initialises valueStartPos
\* then, so setValue() would be undefined: none of these is a key that is set.
Parse(s) ==
  LET b      == NextNotBlank(s, 1)
      keyEnd == NextAt(s, b + 1, {" ", "="})
      close  == NextAt(s, b, {"]"})
  IN
  CASE At(s, b) = "[" ->
         Plain("Section", IF close > Len(s) THEN <<>> ELSE SubSeq(s, b + 1, close - 1), s)
    [] At(s, b) = ";" -> Plain("Comment", <<>>, s)
    [] At(s, b) = NL /\ b <= Len(s) -> Plain("Other", <<>>, s)
    [] At(s, b) \notin {"[", ";"} /\ At(s, NextNotBlank(s, keyEnd)) = "=" -> ParseEntry(s, b, keyEnd)
    [] OTHER -> Plain("Entry", IF keyEnd > Len(s) THEN <<>> ELSE SubSeq(s, b, keyEnd - 1), s)

\* The lines load() makes of a text.
LinesOf(text) ==
  LET from[i \in 1 .. Len(text) + 1] ==
        IF i > Len(text) THEN <<>>
        ELSE LET line == Parse(SubSeq(text, i, Min({NextAt(text, i, {NL}), Len(text)}))) IN
             <<line>> \o from[i + Len(Raw(line))]
  IN from[1]

\* The section the lines before line i end in; <<>> at the top of the file.
SectionBefore(ls, i) ==
  LET above == {j \in 1 .. i - 1 : ls[j].type = "Section"} IN
  IF above = {} THEN <<>> ELSE ls[Max(above)].key

\* What load() and remove() put before the keys on line i: "." below a header "[]".
KeyPrefix(ls, i) ==
  IF \E j \in 1 .. i - 1 : ls[j].type = "Section" THEN SectionBefore(ls, i) \o <<".">> ELSE <<>>

FullKey(ls, i) == KeyPrefix(ls, i) \o ls[i].key
Entries(ls) == {i \in DOMAIN ls : ls[i].type = "Entry"}
EntriesOf(ls, key) == {i \in Entries(ls) : FullKey(ls, i) = key}

\* The values load() sets: of two lines of one key, the later.
ValuesOf(ls) ==
  [key \in {FullKey(ls, i) : i \in Entries(ls)} |-> ls[Max(EntriesOf(ls, key))].value]

-----------------------------------------------------------------------------
(***************************************************************************)
(* File::save().                                                            *)
(***************************************************************************)
SetValue(line, v) ==
  IF line.value = v THEN line
  ELSE [line EXCEPT !.value = Encoded(v), !.text = Encoded(v)]

GetString(vals, key) == IF key \in DOMAIN vals THEN vals[key] ELSE <<>>

UpdateLines(ls, vals) ==
  [i \in DOMAIN ls |->
     IF ls[i].type = "Entry" THEN SetValue(ls[i], GetString(vals, FullKey(ls, i))) ELSE ls[i]]

HasDot(key) == "." \in Range(key)
Dot(key) == NextAt(key, 1, {"."})
Prefix(section) == section \o <<".">>
Occurs(s, key) == \E k \in DOMAIN key : IsPrefix(s, SubSeq(key, k, Len(key)))

\* The section header before which the search for the key's place stops.
Home(ls, key) ==
  Min({Len(ls) + 1} \cup
      {i \in DOMAIN ls : ls[i].type = "Section" /\
         LET s == SectionBefore(ls, i) IN
         IF s = <<>> THEN ~HasDot(key) ELSE IsPrefix(Prefix(s), key)})

\* A key that no line has gets one, behind what its section holds; if the search ended
\* in another section, under a new header.
AddLine(ls, key, v) ==
  LET stop    == Home(ls, key)
      section == SectionBefore(ls, stop)
      last    == Max({0} \cup {i \in 1 .. stop - 1 : ls[i].type # "Other"})
      new     == IF section = <<>> THEN HasDot(key) ELSE ~Occurs(Prefix(section), key)
      home    == IF new THEN SubSeq(key, 1, Dot(key) - 1) ELSE section
      header  == Plain("Section", home, <<"[">> \o home \o <<"]", NL>>)
      name    == SubSeq(key, (IF HasDot(key) THEN Dot(key) ELSE 0) + 1, Len(key))
      indent  == IF home = <<>> THEN <<>> ELSE <<" ">>
      entry   == [type |-> "Entry", key |-> name, before |-> indent \o name \o <<" ", "=", " ">>,
                  text |-> Encoded(v), value |-> Encoded(v), after |-> <<NL>>, stray |-> FALSE]
  IN SubSeq(ls, 1, last) \o (IF new THEN <<header, entry>> ELSE <<entry>>)
       \o SubSeq(ls, last + 1, Len(ls))

\* The lines after save(), the new keys taken in one of the orders unordered_map may
\* give them.
SavedLines(ls, vals) ==
  LET missing == SetToSeq(DOMAIN vals \ {FullKey(ls, i) : i \in Entries(ls)})
      added[n \in 0 .. Len(missing)] ==
        IF n = 0 THEN UpdateLines(ls, vals)
        ELSE AddLine(added[n - 1], missing[n], vals[missing[n]])
  IN added[Len(missing)]

Text(ls) == FlattenSeq([i \in DOMAIN ls |-> Raw(ls[i])])

\* setValue() throws out_of_range on a line whose place for the value is beyond its end.
SaveThrows(ls, vals) ==
  \E i \in Entries(ls) : ls[i].stray /\ ls[i].value # GetString(vals, FullKey(ls, i))

\* Conditions under which save() loses nothing.  None of them is stated in the code.
\* Nothing was put behind a line that lacks its newline: as a last line may, and as a line
\* with an empty value does, whose newline or last character is the next line.
WholeLines(ls) ==
  \A i \in 1 .. Len(ls) - 1 :
    LET next == Raw(ls[i + 1]) IN
    /\ Raw(ls[i]) # <<>>
    /\ Last(Raw(ls[i])) = NL \/ next = <<NL>> \/ (i + 1 = Len(ls) /\ next \in {<<"=">>, <<" ">>})

\* The name of a section has no dot and ends no other section's name.
SectionsApart(ls, vals) ==
  \A i \in DOMAIN ls, key \in DOMAIN vals :
    ls[i].type = "Section" /\ ls[i].key # <<>> /\ Occurs(Prefix(ls[i].key), key) =>
      ls[i].key = SubSeq(key, 1, Dot(key) - 1)

\* No value is, by chance, the escaped text of the value saved before.
TextsCurrent(ls, vals) ==
  \A i \in Entries(ls) :
    LET v == GetString(vals, FullKey(ls, i)) IN ls[i].value = v => Decoded(ls[i].text \o ls[i].after) = v

-----------------------------------------------------------------------------
Init ==
  /\ disk \in Files
  /\ lines = LinesOf(disk) /\ values = ValuesOf(lines)
  /\ saved = values /\ lossless = TRUE
  /\ changes = MaxChanges

Change == changes > 0 /\ changes' = changes - 1

\* setString(), from the command set.
SetString(key, v) ==
  /\ Change
  /\ values' = [k \in DOMAIN values \cup {key} |-> IF k = key THEN v ELSE values[k]]
  /\ UNCHANGED <<lines, disk, saved, lossless>>

\* initString() and the like: a value there already is only reported again.
InitString(key, v) == key \notin DOMAIN values /\ SetString(key, v)

\* remove(), which only tests call: the value, and every line of the key.
RemoveKey(key) ==
  /\ Change /\ key \in DOMAIN values
  /\ values' = [k \in DOMAIN values \ {key} |-> values[k]]
  /\ lines' = FlattenSeq([i \in DOMAIN lines |->
                 IF i \in EntriesOf(lines, key) THEN <<>> ELSE <<lines[i]>>])
  /\ UNCHANGED <<disk, saved, lossless>>

\* cmdSaveConfig().
SaveConfig ==
  /\ Change /\ ~SaveThrows(lines, values)
  /\ \E ls \in {SavedLines(lines, values)} :
       /\ lines' = ls /\ disk' = Text(ls)
       /\ lossless' = (WholeLines(ls) /\ SectionsApart(ls, values) /\ TextsCurrent(lines, values))
  /\ saved' = values
  /\ UNCHANGED values

\* cmdSaveConfig() has opened client.ini for writing, which leaves nothing in it, when
\* save() throws; nothing catches that.  The program starts again from the empty file.
SaveConfigThrows ==
  /\ Change /\ SaveThrows(lines, values)
  /\ disk' = <<>> /\ lines' = LinesOf(disk') /\ values' = ValuesOf(lines')
  /\ lossless' = FALSE
  /\ UNCHANGED saved

\* The program ends, with or without having saved, and starts again.
Restart ==
  /\ Change
  /\ \E ls \in {LinesOf(disk)} : lines' = ls /\ values' = ValuesOf(ls)
  /\ UNCHANGED <<disk, saved, lossless>>

Next ==
  \/ \E key \in Keys, v \in Values : SetString(key, v) \/ InitString(key, v)
  \/ \E key \in Keys : RemoveKey(key)
  \/ SaveConfig \/ SaveConfigThrows \/ Restart

Spec == Init /\ [][Next]_vars

-----------------------------------------------------------------------------
(***************************************************************************)
(* Property.                                                                *)
(***************************************************************************)
\* A program started from the file that was saved has the values that were saved,
\* whatever was loaded, set, removed and saved before, in which order, and how often, also
\* when a save had failed.  lossless names what the file must not be like.
SavedFileReloads == lossless => ValuesOf(LinesOf(disk)) = saved
=============================================================================
