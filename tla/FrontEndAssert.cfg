CONSTANTS
  Keys = {"w", "s", "return"}
  Buttons = {}
  Mods = {{}}
  CharSizes = {1}
  Heights = {1}
  Word = 16
  MaxTyped = 1
  MaxLines = 0
  MaxEvents = 6
SPECIFICATION Spec
INVARIANTS
  CountersNonNegative
CHECK_DEADLOCK FALSE
