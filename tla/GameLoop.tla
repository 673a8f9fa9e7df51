------------------------------- MODULE GameLoop -------------------------------
(***************************************************************************)
(* GameLoop::run() (narf/gameloop.cpp), the fixed-step loop both programs   *)
(* run: each frame adds the clipped time since the last one to tAccum, and  *)
(* ticks run while a whole tick step is left in it.  Time is in whole       *)
(* units, as it is in the code (microseconds there).  The statistics, the   *)
(* status line and the sleep that replaces draw() on the server change      *)
(* nothing here.                                                            *)
(***************************************************************************)
EXTENDS Integers

CONSTANTS
  TickStep,      \* the step of the rate the loop is constructed with
  TickSteps,     \* the steps of the rates a tick may set
  MaxFrameTime,  \* the longest frame the loop is constructed with
  MaxFrameTimes, \* those a tick may set
  MaxJump        \* bound on how far the clock moves in a frame

ASSUME LoopAssumption ==
  /\ TickSteps \subseteq Nat \ {0} /\ TickStep \in TickSteps
  /\ MaxFrameTimes \subseteq Nat \ {0} /\ MaxFrameTime \in MaxFrameTimes
  /\ MaxJump \in Nat \ {0}

VARIABLES
  pc,        \* frame: before the clock is read; ticks, draw, or stopped
  tAccum,
  tickStep,
  maxFrameTime,
  quit,
  owed,      \* history: the clipped time gone by less the time ticks were given
  granted,   \* history: the time the ticks of this frame were given
  longest    \* history: the maxFrameTime that this frame was clipped to

vars == <<pc, tAccum, tickStep, maxFrameTime, quit, owed, granted, longest>>

TypeOK ==
  /\ pc \in {"frame", "ticks", "draw", "stopped"}
  /\ tAccum \in Int
  /\ tickStep \in TickSteps
  /\ quit \in BOOLEAN
  /\ owed \in Int
  /\ granted \in Nat
  /\ maxFrameTime \in MaxFrameTimes /\ longest \in MaxFrameTimes

Init ==
  /\ pc = "frame" /\ tAccum = 0 /\ tickStep = TickStep /\ quit = FALSE
  /\ maxFrameTime = MaxFrameTime /\ longest = MaxFrameTime
  /\ owed = 0 /\ granted = 0

\* Mutant of Clipped: the longest frame there was counts in full.
Unclipped(dt) == dt

Clipped(dt) == IF dt > maxFrameTime THEN maxFrameTime ELSE dt

\* The start of a frame, and getInput(), which may set quit.
Frame(dt) ==
  /\ pc = "frame" /\ pc' = "ticks"
  /\ tAccum' = tAccum + Clipped(dt)
  /\ owed' = owed + Clipped(dt)
  /\ granted' = 0 /\ longest' = maxFrameTime
  /\ quit' \in {quit, TRUE}
  /\ UNCHANGED <<tickStep, maxFrameTime>>

\* Mutant of TickDue: a tick that is not quite due is run.
TickDueEarly == tAccum > 0

TickDue == tAccum >= tickStep

\* Mutant of QuitSeen: the loop goes on until nothing is left to do.
QuitUnseen == FALSE

QuitSeen == quit'

\* Mutant of Spent: what is left of the time is dropped.
SpentAll(step) == tAccum

Spent(step) == step

\* Mutant of StepOf: the step is rounded down to nothing.
StepRounded(step) == 0

\* setTickRate(): the step of the rate asked for.
StepOf(step) == step

\* tick(), which may set quit, the tick rate and (setMaxFrameTime()) the longest frame, and
\* what the loop does after it.
Tick(step, frameTime) ==
  /\ pc = "ticks" /\ TickDue
  /\ quit' \in {quit, TRUE}
  /\ tickStep' = StepOf(step) /\ maxFrameTime' = frameTime
  /\ owed' = owed - tickStep
  /\ granted' = granted + tickStep
  /\ IF QuitSeen
     THEN pc' = "stopped" /\ UNCHANGED tAccum
     ELSE pc' = pc /\ tAccum' = tAccum - Spent(tickStep')
  /\ UNCHANGED longest

EndTicks ==
  /\ pc = "ticks" /\ ~TickDue /\ pc' = "draw"
  /\ UNCHANGED <<tAccum, tickStep, maxFrameTime, quit, owed, granted, longest>>

Draw ==
  /\ pc = "draw" /\ pc' = "frame"
  /\ UNCHANGED <<tAccum, tickStep, maxFrameTime, quit, owed, granted, longest>>

Next ==
  \/ \E dt \in 0 .. MaxJump : Frame(dt)
  \/ \E step \in TickSteps, frameTime \in MaxFrameTimes : Tick(step, frameTime)
  \/ EndTicks
  \/ Draw

Spec == Init /\ [][Next]_vars

\* The loop's own steps happen, and the clock moves in some frame again and again.
Fairness ==
  /\ WF_vars(\E dt \in 0 .. MaxJump : Frame(dt))
  /\ SF_vars(\E dt \in 1 .. MaxJump : Frame(dt))
  /\ WF_vars(\E step \in TickSteps, frameTime \in MaxFrameTimes : Tick(step, frameTime))
  /\ WF_vars(EndTicks) /\ WF_vars(Draw)

FairSpec == Spec /\ Fairness

-----------------------------------------------------------------------------
\* The comments at gameloop.cpp:144 and renderer.cpp:391: what is drawn is between the
\* previous tick's state and the current one, that is tAccum is a part of one step.
BlendInterpolates == pc = "draw" => tAccum >= 0 /\ tAccum < tickStep

\* Simulated time neither gains nor loses on the clock: whatever lengths the frames
\* have, the time the ticks were given and the rest in tAccum is the clipped time that
\* has gone by.
TimeConserved == pc # "stopped" => tAccum = owed

\* However late a frame is, the ticks it runs are worth less than the longest frame there
\* was when it began and one step: a program too slow for its tick rate still draws and
\* polls its input.
CatchUpBounded == granted < longest + tickStep

\* The loop ends after quit is set, also when it was set by getInput(), which is followed
\* by frames too short for a tick.
QuitHonoured == quit ~> pc = "stopped"
=============================================================================
