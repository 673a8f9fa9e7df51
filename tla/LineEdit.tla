------------------------------- MODULE LineEdit -------------------------------
(***************************************************************************)
(* What a user expects of an entry line: characters before the cursor and   *)
(* characters after it, whatever their encodings.  FrontEnd implements it   *)
(* with the bytes and the byte offset of TextEditor.                        *)
(***************************************************************************)
EXTENDS Sequences, SequencesExt

CONSTANT Texts   \* what may be typed or pasted at once

VARIABLES before, after

vars == <<before, after>>

Init == before = <<>> /\ after = <<>>

Insert(text) == before' = before \o text /\ UNCHANGED after

Left ==
  /\ before # <<>>
  /\ before' = Front(before) /\ after' = <<Last(before)>> \o after

Right ==
  /\ after # <<>>
  /\ before' = Append(before, Head(after)) /\ after' = Tail(after)

Home == before' = <<>> /\ after' = before \o after
End == before' = before \o after /\ after' = <<>>

DeleteNext == after # <<>> /\ after' = Tail(after) /\ UNCHANGED before
DeletePrevious == before # <<>> /\ before' = Front(before) /\ UNCHANGED after

\* As the code has it, Backspace at the start of the line deletes the next character.
Backspace == IF before = <<>> THEN DeleteNext ELSE DeletePrevious

Clear == before' = <<>> /\ after' = <<>>

Next ==
  \/ \E text \in Texts : Insert(text)
  \/ Left \/ Right \/ Home \/ End
  \/ DeleteNext \/ Backspace
  \/ Clear

Spec == Init /\ [][Next]_vars

===============================================================================
