CONSTANTS
  TickStep = 17
  TickSteps = {17, 33}
  MaxFrameTime = 40
  MaxFrameTimes = {40}
  MaxJump = 60
SPECIFICATION Spec
INVARIANTS
  BlendInterpolates
CHECK_DEADLOCK FALSE
