CONSTANTS
  Keys = {"w", "up", "kp2", "left", "right", "return", "backspace", "delete", "home", "end", "insert", "pageup", "pause"}
  Buttons = {"leftButton"}
  Mods = {{}, {"num"}, {"shift"}}
  CharSizes = {1, 3}
  Heights = {1, 2}
  Word = 16
  MaxTyped = 2
  MaxLines = 2
  MaxEvents = 5
SPECIFICATION Spec
INVARIANTS
  LineIsWellFormed
  MovesAsPressed
  ClicksSeenOnce
  NothingFromPause
  ScrollbackShowsPage
PROPERTIES
  EditsLine
CHECK_DEADLOCK FALSE
