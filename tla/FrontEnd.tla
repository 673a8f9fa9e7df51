------------------------------- MODULE FrontEnd -------------------------------
(***************************************************************************)
(* The client's front end: Input (narf/input.cpp) turns SDL events into     *)
(* held movements, buttons, one-shot requests and lines of text, edited in  *)
(* the console's TextEditor; getInput() and tick() (client/main.cpp) hand   *)
(* them to sim_frame and reset them, or keep them while the game is paused; *)
(* ClientConsole (client/console.cpp) keeps printed lines and how far they  *)
(* are scrolled back.  Camera motion, the blinking cursor and what is drawn *)
(* are left out.                                                            *)
(***************************************************************************)
EXTENDS TextEditor, FiniteSets

CONSTANTS
  Keys,        \* the keys of the keyboard, by the names used below
  Buttons,     \* the mouse buttons
  Mods,        \* sets of modifiers that may be on: num, ctrl, alt and shift
  CharSizes,   \* sizes of the characters that can be typed
  Heights,     \* the lines the console shows, one number per font size
  Word,        \* one more than the largest uint32_t
  MaxTyped,    \* bound on the characters of the editor and of text_
  MaxLines,    \* bound on the lines of the console
  MaxEvents    \* bound on the events of a behaviour

ASSUME FrontEndAssumption ==
  /\ Buttons \subseteq {"leftButton", "rightButton", "middleButton"}
  /\ Keys \cap {"leftButton", "rightButton", "middleButton"} = {}
  /\ Mods \subseteq SUBSET {"num", "ctrl", "alt", "shift"}
  /\ CharSizes \subseteq 1..4
  /\ Heights \subseteq 1..(Word - 1) /\ Word \in Nat
  /\ MaxTyped \in Nat /\ MaxLines \in 0..(Word - 1) /\ MaxEvents \in Nat

Opposite ==
  [forward |-> "backward", backward |-> "forward",
   strafeLeft |-> "strafeRight", strafeRight |-> "strafeLeft"]
Directions == DOMAIN Opposite

KeyDirection ==
  [up |-> "forward", w |-> "forward", down |-> "backward", s |-> "backward",
   left |-> "strafeLeft", a |-> "strafeLeft", right |-> "strafeRight", d |-> "strafeRight"]

\* One-shot requests, and the keys that make them; Alt+Return makes "fullscreen".
KeyShot ==
  [space |-> "jump", f1 |-> "wireframe", f2 |-> "backfaceCulling", f3 |-> "screenshot",
   f4 |-> "fog", pause |-> "pause"]
Shots == {KeyShot[k] : k \in DOMAIN KeyShot} \cup {"fullscreen"}

\* What acts like a mouse button: Q is another middle button.
Control ==
  [leftButton |-> "primary", rightButton |-> "secondary",
   middleButton |-> "ternary", q |-> "ternary"]
Controls == {Control[b] : b \in DOMAIN Control}

\* The keypad is a second set of these keys unless NumLock is on.  Its Enter and its
\* division key are "return" and "slash" always.
Keypad ==
  [kp8 |-> "up", kp2 |-> "down", kp4 |-> "left", kp6 |-> "right", kp7 |-> "home",
   kp1 |-> "end", kp9 |-> "pageup", kp3 |-> "pagedown", kp0 |-> "insert",
   kpPeriod |-> "delete"]
Sym(key, mods) ==
  IF key \in DOMAIN Keypad
  THEN IF "num" \in mods THEN "none" ELSE Keypad[key]
  ELSE key

Texts == SeqOf(CharSizes, 2) \ {<<>>}

VARIABLES
  pc,          \* poll: getInput() takes events; ticks; stopped
  in,          \* the members of Input: state and text (state_, text_), held
               \* (the four counters), last (lastMove_, lastStrafe_), run, action,
               \* begin, ended (sets of controls), shots, exit
  ed,          \* the console's TextEditor
  lines,       \* the number of lines printed to the console
  scrollback,
  height,      \* getHeightInLines()
  paused,
  down,        \* the keys and buttons the user holds
  missed,      \* history: why a press or release may not have counted
  clicked,     \* history: the controls pressed since the last sim_frame
  pausedInput, \* history: requests or text given while paused are still there
  events       \* the events so far

vars == <<pc, in, ed, lines, scrollback, height, paused, down, missed, clicked,
          pausedInput, events>>

console == <<lines, scrollback, height>>

Init ==
  /\ pc = "poll" /\ paused = FALSE
  /\ in = [state |-> "Normal", text |-> <<>>, held |-> [d \in Directions |-> 0],
           last |-> {}, run |-> FALSE, action |-> {}, begin |-> {}, ended |-> {},
           shots |-> {}, exit |-> FALSE]
  /\ ed = Empty
  /\ lines = 0 /\ scrollback = 0 /\ height \in Heights
  /\ down = {} /\ missed = {} /\ clicked = {} /\ pausedInput = FALSE /\ events = 0

\* What a frame does once and reset() takes away.
OneShots(i) == i.shots \cup i.begin \cup i.ended
HasOneShots(i) == OneShots(i) # {} \/ i.text # <<>>

\* Mutant of Reset: the text stays.
ResetShots(i) == [i EXCEPT !.shots = {}, !.begin = {}, !.ended = {}]

\* Mutant of Reset: the clicks stay.
ResetRequests(i) == [i EXCEPT !.shots = {}, !.text = <<>>]

Reset(i) == [i EXCEPT !.shots = {}, !.begin = {}, !.ended = {}, !.text = <<>>]

Moving(i, d) ==
  /\ i.held[d] # 0
  /\ d \in i.last \/ i.held[Opposite[d]] = 0

Press(i, c) ==
  [i EXCEPT !.begin = IF c \in i.action THEN @ \ {c} ELSE @ \cup {c},
            !.action = @ \cup {c}]

Release(i, c) == [i EXCEPT !.action = @ \ {c}, !.ended = @ \cup {c}]

NormalKeyDown(i, sym, mods) ==
  CASE sym \in DOMAIN KeyDirection ->
         LET d == KeyDirection[sym] IN
         [i EXCEPT !.held[d] = @ + 1, !.last = (@ \ {Opposite[d]}) \cup {d}]
    [] sym = "return" /\ "alt" \in mods -> [i EXCEPT !.shots = @ \cup {"fullscreen"}]
    [] sym = "slash" \/ (sym = "return" /\ "alt" \notin mods) -> [i EXCEPT !.state = "Text"]
    [] sym = "escape" -> [i EXCEPT !.exit = TRUE]
    [] sym = "q" -> Press(i, "ternary")
    [] sym = "lshift" -> [i EXCEPT !.run = TRUE]
    [] sym \in DOMAIN KeyShot -> [i EXCEPT !.shots = @ \cup {KeyShot[sym]}]
    [] OTHER -> i

NormalKeyUp(i, sym) ==
  CASE sym \in DOMAIN KeyDirection -> [i EXCEPT !.held[KeyDirection[sym]] = @ - 1]
    [] sym = "q" -> Release(i, "ternary")
    [] sym = "lshift" -> [i EXCEPT !.run = FALSE]
    [] OTHER -> i

\* pageUp, pageDown, scrollHome and scrollEnd, in unsigned arithmetic.
Smaller(x, y) == IF x < y THEN x ELSE y

\* Mutant of PageUp: signed arithmetic.
PageUpSigned == Smaller(scrollback + height, lines - height)

PageUp == Smaller((scrollback + height) % Word, (lines - height) % Word)

Scrolled(sym, mods) ==
  CASE sym = "pageup" -> PageUp
    [] sym = "pagedown" -> scrollback - Smaller(height, scrollback)
    [] sym = "home" /\ "ctrl" \in mods -> (lines - height) % Word
    [] sym = "end" /\ "ctrl" \in mods -> 0
    [] OTHER -> scrollback

Scrolls(sym, mods) ==
  sym \in {"pageup", "pagedown"} \/ (sym \in {"home", "end"} /\ "ctrl" \in mods)

\* Mutant of Println: new lines do not end the scrolling.
PrintlnBelow(n) ==
  /\ lines + n <= MaxLines
  /\ lines' = lines + n
  /\ UNCHANGED scrollback

\* println: n lines, each of which ends the scrolling.
Println(n) ==
  /\ lines + n <= MaxLines
  /\ lines' = lines + n
  /\ scrollback' = IF n > 0 THEN 0 ELSE scrollback

-------------------------------------------------------------------------------
\* Keys and buttons whose release counts as well.
Holdable(key) ==
  \/ key \in DOMAIN KeyDirection \cup DOMAIN Control \cup {"lshift"}
  \/ key \in DOMAIN Keypad /\ Keypad[key] \in DOMAIN KeyDirection

Event == pc = "poll" /\ events < MaxEvents /\ events' = events + 1

\* Events of keys and buttons that are eaten in text mode, or by NumLock.
Misses(key, mods) ==
  IF ~Holdable(key) THEN {}
  ELSE (IF in.state = "Text" THEN {"text"} ELSE {})
       \cup (IF key \in DOMAIN Keypad /\ "num" \in mods THEN {"numlock"} ELSE {})

NotePaused == pausedInput' = (HasOneShots(in') /\ (pausedInput \/ paused))

\* The user's side of a key that goes down, repeats while it is held, or goes up.
Pushed(key, mods, repeat) ==
  /\ repeat <=> key \in down
  /\ down' = IF Holdable(key) THEN down \cup {key} ELSE down
  /\ missed' = IF repeat THEN missed ELSE missed \cup Misses(key, mods)
  /\ clicked' = IF key \in DOMAIN Control /\ ~repeat /\ in.state = "Normal"
                THEN clicked \cup {Control[key]} ELSE clicked
  /\ NotePaused

LetGo(key, mods) ==
  /\ key \in down /\ down' = down \ {key}
  /\ missed' = missed \cup Misses(key, mods)
  /\ UNCHANGED clicked
  /\ NotePaused

\* Mutant of NormalKeyPressed: repeats of a held key count as presses.
NormalKeyRepeats(key, mods, repeat) ==
  LET sym == Sym(key, mods) IN
  /\ Event /\ in.state = "Normal"
  /\ IF Scrolls(sym, mods) THEN scrollback' = Scrolled(sym, mods) ELSE UNCHANGED scrollback
  /\ in' = IF Scrolls(sym, mods) THEN in ELSE NormalKeyDown(in, sym, mods)
  /\ Pushed(key, mods, repeat)
  /\ UNCHANGED <<pc, ed, lines, height, paused>>

NormalKeyPressed(key, mods, repeat) ==
  LET sym == Sym(key, mods) IN
  /\ Event /\ in.state = "Normal"
  /\ scrollback' = Scrolled(sym, mods)
  /\ in' = IF Scrolls(sym, mods) \/ repeat THEN in ELSE NormalKeyDown(in, sym, mods)
  /\ Pushed(key, mods, repeat)
  /\ UNCHANGED <<pc, ed, lines, height, paused>>

\* paste(), with what the clipboard holds.
Pastes(sym, mods) == (sym = "v" /\ "ctrl" \in mods) \/ (sym = "insert" /\ "shift" \in mods)

PasteKeyPressed(key, mods, repeat, clip) ==
  /\ Event /\ in.state = "Text" /\ Pastes(Sym(key, mods), mods)
  /\ ed' = AddString(ed, clip)
  /\ Len(Chars(ed'.str)) <= MaxTyped
  /\ UNCHANGED <<pc, in, console, paused>>
  /\ Pushed(key, mods, repeat)

\* Return hands the line over; it and Escape end the entry.
TextKeyPressed(key, mods, repeat) ==
  LET sym == Sym(key, mods) IN
  /\ Event /\ in.state = "Text" /\ ~Pastes(sym, mods)
  /\ in' = CASE sym = "return" -> [in EXCEPT !.state = "Normal", !.text = @ \o Chars(ed.str)]
             [] sym = "escape" -> [in EXCEPT !.state = "Normal"]
             [] OTHER -> in
  /\ ed' = CASE sym \in {"return", "escape"} -> Empty
             [] sym = "backspace" -> EraseBackwards(ed)
             [] sym = "delete" -> EraseAtCursor(ed)
             [] sym = "left" -> MoveCursorLeft(ed)
             [] sym = "right" -> MoveCursorRight(ed)
             [] sym = "home" -> HomeCursor(ed)
             [] sym = "end" -> EndCursor(ed)
             [] OTHER -> ed
  /\ Len(in'.text) <= MaxTyped
  /\ Pushed(key, mods, repeat)
  /\ UNCHANGED <<pc, console, paused>>

\* SDL_TEXTINPUT, which follows the key that typed the text.
TextTyped(text) ==
  /\ Event
  /\ ed' = IF in.state = "Text" THEN AddString(ed, text) ELSE ed
  /\ Len(Chars(ed'.str)) <= MaxTyped
  /\ UNCHANGED <<pc, in, console, paused, down, missed, clicked, pausedInput>>

KeyReleased(key, mods) ==
  /\ Event
  /\ in' = IF in.state = "Normal" THEN NormalKeyUp(in, Sym(key, mods)) ELSE in
  /\ LetGo(key, mods)
  /\ UNCHANGED <<pc, ed, console, paused>>

ButtonPressed(button) ==
  /\ Event
  /\ in' = IF in.state = "Normal" THEN Press(in, Control[button]) ELSE in
  /\ Pushed(button, {}, FALSE)
  /\ UNCHANGED <<pc, ed, console, paused>>

ButtonReleased(button) ==
  /\ Event
  /\ in' = IF in.state = "Normal" THEN Release(in, Control[button]) ELSE in
  /\ LetGo(button, {})
  /\ UNCHANGED <<pc, ed, console, paused>>

\* SDL_QUIT, in either state.
WindowClosed ==
  /\ Event
  /\ in' = [in EXCEPT !.exit = TRUE]
  /\ NotePaused
  /\ UNCHANGED <<pc, ed, console, paused, down, missed, clicked>>

\* The rest of getInput(): quit, or toggle the pause and dispatch network events, which
\* may print.
InputHandled ==
  /\ pc = "poll" /\ pc' = "ticks"
  /\ IF in.exit
     THEN UNCHANGED <<in, lines, scrollback, paused, missed>>
     ELSE LET toggled == "pause" \in in.shots IN
          /\ paused' = (paused # toggled)
          /\ in' = IF toggled THEN Reset(in) ELSE in
          /\ missed' = IF toggled THEN missed \cup {"pause"} ELSE missed
          /\ \E printed \in 0..1 : Println(printed + IF toggled THEN 1 ELSE 0)
  /\ pausedInput' = (pausedInput /\ HasOneShots(in'))
  /\ UNCHANGED <<ed, height, down, clicked, events>>

\* tick() when not paused: sim_frame acts on the input, which is reset.  Only a line may
\* change the font, and configEvent prints before it does.
Tick ==
  /\ pc = "ticks" /\ ~paused
  /\ in' = Reset(in)
  /\ \E printed \in 0..2 :
       /\ Println(printed)
       /\ height' \in IF in.text # <<>> /\ printed > 0 THEN Heights ELSE {height}
  /\ clicked' = {}
  /\ pausedInput' = FALSE
  /\ UNCHANGED <<pc, ed, paused, down, missed, events>>

\* The end of a frame, after any number of ticks.  quit, which an exit sets, is looked at
\* only after a tick; without one the loop goes on.
FrameDrawn ==
  /\ pc = "ticks"
  /\ pc' \in {"poll"} \cup (IF in.exit THEN {"stopped"} ELSE {})
  /\ UNCHANGED <<in, ed, console, paused, down, missed, clicked, pausedInput, events>>

Next ==
  \/ \E key \in Keys, mods \in Mods, repeat \in BOOLEAN : NormalKeyPressed(key, mods, repeat)
  \/ \E key \in Keys, mods \in Mods, repeat \in BOOLEAN : TextKeyPressed(key, mods, repeat)
  \/ \E key \in Keys, mods \in Mods, repeat \in BOOLEAN, clip \in Texts :
       PasteKeyPressed(key, mods, repeat, clip)
  \/ \E text \in Texts : TextTyped(text)
  \/ \E key \in Keys, mods \in Mods : KeyReleased(key, mods)
  \/ \E button \in Buttons : ButtonPressed(button)
  \/ \E button \in Buttons : ButtonReleased(button)
  \/ WindowClosed
  \/ InputHandled
  \/ Tick
  \/ FrameDrawn

Spec == Init /\ [][Next]_vars

-------------------------------------------------------------------------------
TypeOK ==
  /\ pc \in {"poll", "ticks", "stopped"}
  /\ in.state \in {"Normal", "Text"}
  /\ in.text \in Seq(CharSizes)
  /\ in.held \in [Directions -> Int]
  /\ in.last \subseteq Directions
  /\ in.run \in BOOLEAN /\ in.exit \in BOOLEAN
  /\ in.action \subseteq Controls /\ in.begin \subseteq Controls /\ in.ended \subseteq Controls
  /\ in.shots \subseteq Shots
  /\ ed.str \in Seq(CharSizes \cup {Continuation}) /\ ed.cursor \in Nat
  /\ lines \in Nat /\ scrollback \in 0..(Word - 1) /\ height \in Heights
  /\ paused \in BOOLEAN /\ pausedInput \in BOOLEAN
  /\ down \subseteq Keys \cup Buttons
  /\ missed \subseteq {"text", "numlock", "pause"}
  /\ clicked \subseteq Controls

\* The bytes of the edited line stay whole characters, and the byte cursor stays between
\* two of them (the assertions of texteditor.cpp hold, and UTF8PrevCharSize never fails).
LineIsWellFormed == WellFormed(ed)

\* Editing bytes at a byte offset looks like editing characters (LineEdit).
Line == INSTANCE LineEdit WITH before <- Before(ed), after <- After(ed)
EditsLine == Line!Spec

\* Held keys move the player, however many keys of a direction are pressed and released
\* in whatever order, unless text mode or NumLock ate one of these events: a direction
\* moves only while a key of it is held, and one of two opposite ones does if any is.
MovesAsPressed ==
  LET pressed(d) == \E k \in down : Sym(k, {}) \in DOMAIN KeyDirection /\ KeyDirection[Sym(k, {})] = d IN
  missed \cap {"text", "numlock"} = {} =>
    \A d \in Directions :
      /\ Moving(in, d) => pressed(d)
      /\ pressed(d) => Moving(in, d) \/ Moving(in, Opposite[d])

\* A button that is alone in its control begins its action in the sim_frame after each
\* press and in no other: only events eaten in text mode and pauses can lose one.
ClicksSeenOnce ==
  pc = "ticks" =>
    /\ in.begin \subseteq clicked
    /\ "primary" \in clicked /\ missed \cap {"text", "pause"} = {} =>
         "primary" \in in.begin

\* Nothing entered while the game is paused, neither requests nor text, reaches a
\* sim_frame, also when the events come in the same poll as those of the Pause key.
NothingFromPause == pc = "ticks" /\ ~paused => ~pausedInput

\* A console with enough lines shows a full page of them, however it was scrolled when it
\* had fewer (pageUp and scrollHome subtract unsigned) and when its font changes.
ScrollbackShowsPage == lines >= height => scrollback <= lines - height

\* The assertions of input.cpp:180, 190, 200 and 210.
CountersNonNegative == \A d \in Directions : in.held[d] >= 0

===============================================================================
