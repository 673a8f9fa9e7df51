CONSTANTS
  TickStep = 17
  TickSteps = {17}
  MaxFrameTime = 40
  MaxFrameTimes = {25, 40}
  MaxJump = 60
SPECIFICATION FairSpec
INVARIANTS
  TypeOK
  BlendInterpolates
  TimeConserved
  CatchUpBounded
PROPERTIES
  QuitHonoured
CHECK_DEADLOCK FALSE
